------------------------- MODULE AssetLibraryProofs --------------------------
(***************************************************************************)
(* For every program over the asset library, whatever it creates, finds in *)
(* its files and shares with workers: the registered nodes, the cache and  *)
(* the resource tables fit together, every pass of resolve_all() reports   *)
(* each node once, no compiled value is stale or in another's slot, and a  *)
(* getter leads to what its own create_...() asked for; the library uses   *)
(* the files as FileStore allows, whose reads are whole.  What a compiler  *)
(* computes is left open there: it may be anything.  The last parts take   *)
(* what CompilerProofs shows of the exporter and of each compiler into the *)
(* running library, down to every value being what was asked for.          *)
(***************************************************************************)
EXTENDS AssetLibrary, CompilerProofs, FiniteSetTheorems, SequenceTheorems, WellFoundedInduction, TLAPS

-----------------------------------------------------------------------------
(* What FileStore keeps for any number of threads, files, calls and faults *)

Files == Contents \cup {NoFile}
Asked == Requests \cup {NoRequest}

Errors == {"none", "None", "NotFound", "IOError"}
Ops == [request : Asked, open : BOOLEAN, sized : BOOLEAN, stored : Files, whole : BOOLEAN]
Returned == [of : Asked, error : Errors, value : Files]
Reads == [whole : BOOLEAN, stored : Files, value : Files]
Jobs == [state : {"none", "posted", "running", "answered"}, request : Asked,
         on : Threads, error : Errors]

FileTypeOK ==
    /\ files \in [Places -> Files] /\ stored \in [Places -> Files]
    /\ damaged \in SUBSET Places
    /\ op \in [Threads -> Ops] /\ done \in [Threads -> Returned]
    /\ calls \in [Calls -> Jobs] /\ executor \in BOOLEAN
    /\ reads \in [Threads -> Reads]
    /\ faults \in Nat /\ crashes \in Nat

\* An open file exists: DeleteFileW() fails on it.
HeldExist == \A t \in Threads : Holds(t) => Exists(Place(t))

\* What the file held when it was opened for reading, it holds until it is closed.
OpenedWhole ==
    \A t \in Threads :
        Holds(t) /\ Doing(t) # "write" /\ op[t].whole
            => Place(t) \notin damaged /\ stored[Place(t)] = op[t].stored

FileInv == FileTypeOK /\ HeldExist /\ WritesAlone /\ Steady /\ OpenedWhole /\ ReadsAreWhole

\* What the threads and calls start from.
LEMMA DefaultsTyped ==
    /\ NoRequest \in [doing : {"none"}, place : Places, data : Contents, overwrite : BOOLEAN]
    /\ NoOp \in Ops /\ NoOp.request.doing = "none" /\ NoOp.open = FALSE
    /\ NoResult \in Returned
    /\ NoRead \in Reads /\ NoRead.whole = FALSE
    /\ NoCall \in Jobs
<1>1. PICK p : p \in Places
  BY FileAssumption
<1>2. (CHOOSE q \in Places : TRUE) \in Places
  BY <1>1
<1>3. NoRequest \in [doing : {"none"}, place : Places, data : Contents, overwrite : BOOLEAN]
  BY <1>2, FileAssumption DEF NoRequest
<1>4. NoRequest.doing = "none" /\ NoRequest \in Asked
  BY DEF NoRequest, Asked
<1>5. NoOp \in Ops /\ NoOp.request.doing = "none" /\ NoOp.open = FALSE
  BY <1>4 DEF NoOp, Started, Ops, Files
<1>6. NoResult \in Returned
  BY <1>4, FileAssumption DEF NoResult, Returned, Files, Errors
<1>7. NoRead \in Reads /\ NoRead.whole = FALSE
  BY FileAssumption DEF NoRead, Reads, Files
<1>8. NoCall \in Jobs
  BY <1>4 DEF NoCall, Jobs, Threads, Errors
<1>9. QED
  BY <1>3, <1>5, <1>6, <1>7, <1>8

LEMMA RequestTyped ==
    ASSUME NEW r \in Asked
    PROVE  /\ r.place \in Places /\ r.data \in Contents /\ r.overwrite \in BOOLEAN
           /\ r.doing \in Kinds \cup {"none"}
  BY DefaultsTyped DEF Asked, Requests

LEMMA StartedTyped ==
    ASSUME NEW r \in Asked
    PROVE  Started(r) \in Ops /\ Started(r).open = FALSE
  BY DEF Started, Ops, Files

\* A call that returns lets go of its file, and leaves the other threads alone.
LEMMA Returns ==
    ASSUME FileTypeOK, NEW t \in Threads, NEW e \in Errors, NEW v \in Files, Return(t, e, v)
    PROVE  /\ op' \in [Threads -> Ops] /\ done' \in [Threads -> Returned]
           /\ ~Holds(t)' /\ \A u \in Threads \ {t} : op'[u] = op[u]
<1>1. op[t].request \in Asked
  BY DEF FileTypeOK, Ops
<1>2. [of |-> op[t].request, error |-> e, value |-> v] \in Returned
  BY <1>1 DEF Returned
<1>3. op' \in [Threads -> Ops] /\ done' \in [Threads -> Returned]
  BY <1>2, DefaultsTyped DEF FileTypeOK, Return
<1>4. ~Holds(t)' /\ \A u \in Threads \ {t} : op'[u] = op[u]
  BY DefaultsTyped DEF FileTypeOK, Return, Holds, Busy, Doing
<1>5. QED
  BY <1>3, <1>4

\* No file is opened for writing while it is open, or opened while it is written.
LEMMA OpenAlone ==
    ASSUME FileTypeOK, HeldExist, NEW t \in Threads, Busy(t), OpenError(t) = "None",
           NEW u \in Threads, u # t, Holds(u), Place(u) = Place(t)
    PROVE  Doing(t) # "write" /\ Doing(u) # "write"
<1>1. Exists(Place(t))
  BY DEF HeldExist
<1>2. Compatible(t)
  BY <1>1 DEF OpenError
<1>3. Access(Doing(t)) \in Shares(Doing(u)) /\ Access(Doing(u)) \in Shares(Doing(t))
  BY <1>2 DEF Compatible
<1>4. QED
  BY <1>3 DEF Access, Shares

LEMMA InitFileInv ==
    ASSUME NEW disk \in [Places -> Files], FileInit(disk)
    PROVE  FileInv
<1>1. FileTypeOK
  BY DefaultsTyped DEF FileInit, FileTypeOK
<1>2. \A t \in Threads : ~Holds(t) /\ reads[t].whole = FALSE
  BY DefaultsTyped DEF FileInit, Holds, Busy, Doing
<1>3. QED
  BY <1>1, <1>2 DEF FileInit, FileInv, HeldExist, WritesAlone, Steady, OpenedWhole, ReadsAreWhole

-----------------------------------------------------------------------------
(* Steps that leave files and open files alone. *)

\* op may change for threads that hold nothing before and after.
LEMMA QuietStep ==
    ASSUME FileInv, FileTypeOK', UNCHANGED <<files, stored, damaged>>,
           \A t \in Threads : Holds(t)' => Holds(t) /\ op'[t].request = op[t].request
                                /\ op'[t].whole = op[t].whole /\ op'[t].stored = op[t].stored,
           \A t \in Threads : Holds(t) /\ Doing(t) = "write" => Holds(t)',
           \A t \in Threads : reads'[t] = reads[t] \/ reads'[t].whole = FALSE
    PROVE  FileInv'
<1>1. \A t \in Threads : Holds(t)' => Doing(t)' = Doing(t) /\ Place(t)' = Place(t)
  BY DEF Doing, Place
<1>2. HeldExist'
  BY <1>1 DEF FileInv, HeldExist, Exists
<1>3. WritesAlone'
  BY <1>1 DEF FileInv, WritesAlone
<1>4. Steady'
  BY <1>1 DEF FileInv, Steady
<1>5. OpenedWhole'
  BY <1>1 DEF FileInv, OpenedWhole
<1>6. ReadsAreWhole'
  BY DEF FileInv, ReadsAreWhole
<1>7. QED
  BY <1>2, <1>3, <1>4, <1>5, <1>6 DEF FileInv

-----------------------------------------------------------------------------
(* Every step keeps the types. *)

\* The place and the data of the request a thread is working on.
LEMMA OpTyped ==
    ASSUME FileTypeOK, NEW t \in Threads
    PROVE  /\ op[t] \in Ops /\ op[t].request \in Asked
           /\ Place(t) \in Places /\ op[t].request.data \in Contents
           /\ files[Place(t)] \in Files /\ stored[Place(t)] \in Files
<1>1. op[t] \in Ops /\ op[t].request \in Asked
  BY DEF FileTypeOK, Ops
<1>2. QED
  BY <1>1, RequestTyped DEF FileTypeOK, Place

LEMMA StepTyped ==
    ASSUME FileTypeOK, NEW t \in Threads, FileStep(t)
    PROVE  FileTypeOK'
<1> /\ Empty \in Files /\ NoFile \in Files /\ Contents \subseteq Files
    /\ "None" \in Errors /\ "NotFound" \in Errors /\ "IOError" \in Errors
  BY FileAssumption DEF Files, Errors
<1>1. CASE OpenFails(t)
  <2>1. OpenError(t) \in Errors
    BY DEF OpenError, Errors
  <2>2. QED
    BY <1>1, <2>1, Returns DEF OpenFails, FileTypeOK
<1>2. CASE Open(t)
  <2>1. op' \in [Threads -> Ops]
    <3>1. (Place(t) \notin damaged) \in BOOLEAN
      OBVIOUS
    <3>2. [op[t] EXCEPT !.open = TRUE, !.stored = stored[Place(t)],
                        !.whole = Place(t) \notin damaged] \in Ops
      BY <3>1, OpTyped DEF Ops
    <3>3. QED
      BY <1>2, <3>2 DEF Open, FileTypeOK
  <2>2. files' \in [Places -> Files]
    BY <1>2, OpTyped DEF Open, FileTypeOK
  <2>3. QED
    BY <1>2, <2>1, <2>2 DEF Open, FileTypeOK
<1>3. CASE GetSize(t)
  <2>1. CASE Return(t, "None", files[Place(t)])
    BY <1>3, <2>1, Returns, OpTyped DEF GetSize, FileTypeOK
  <2>2. CASE op' = [op EXCEPT ![t].sized = TRUE] /\ UNCHANGED done
    <3>1. op' \in [Threads -> Ops]
      BY <2>2 DEF FileTypeOK, Ops
    <3>2. QED
      BY <1>3, <2>2, <3>1 DEF GetSize, FileTypeOK
  <2>3. QED
    BY <1>3, <2>1, <2>2 DEF GetSize
<1>4. CASE ReadFile(t)
  <2>1. [whole |-> op[t].whole, stored |-> op[t].stored, value |-> files[Place(t)]] \in Reads
    BY OpTyped DEF Reads, Ops
  <2>2. reads' \in [Threads -> Reads]
    BY <1>4, <2>1 DEF ReadFile, FileTypeOK
  <2>3. QED
    BY <1>4, <2>2, Returns, OpTyped DEF ReadFile, FileTypeOK
<1>5. CASE WriteFile(t)
  BY <1>5, Returns, OpTyped DEF WriteFile, FileTypeOK
<1>6. CASE TransferFails(t)
  <2>1. files' \in [Places -> Files] /\ damaged' \in SUBSET Places
    BY <1>6, OpTyped DEF TransferFails, FileTypeOK
  <2>2. QED
    BY <1>6, <2>1, Returns DEF TransferFails, FileTypeOK
<1>7. CASE DeleteFile(t)
  <2>1. files' \in [Places -> Files] /\ stored' \in [Places -> Files] /\ damaged' \in SUBSET Places
    BY <1>7, OpTyped DEF DeleteFile, FileTypeOK
  <2>2. op' \in [Threads -> Ops] /\ done' \in [Threads -> Returned]
    BY <1>7, Returns DEF DeleteFile
  <2>3. QED
    BY <1>7, <2>1, <2>2 DEF DeleteFile, FileTypeOK
<1>8. QED
  BY <1>1, <1>2, <1>3, <1>4, <1>5, <1>6, <1>7 DEF FileStep

LEMMA CallerTyped ==
    ASSUME FileTypeOK,
           \/ \E r \in Requests : Call(r)
           \/ Look \/ SetExecutor \/ FileCrash
           \/ \E c \in Calls, r \in Requests : Async(c, r)
           \/ \E w \in Workers, c \in Calls : TakeJob(w, c) \/ Callback(w, c)
    PROVE  FileTypeOK'
<1> Main \in Threads /\ Workers \subseteq Threads /\ Requests \subseteq Asked
  BY DEF Threads, Asked
<1>1. CASE \E r \in Requests : Call(r)
  BY <1>1, StartedTyped, ZenonT(40) DEF Call, FileTypeOK
<1>2. CASE Look
  BY <1>2, DefaultsTyped DEF Look, FileTypeOK
<1>3. CASE SetExecutor
  BY <1>3 DEF SetExecutor, FileTypeOK
<1>4. CASE FileCrash
  <2>1. \A t \in Threads : Place(t) \in Places
    BY OpTyped
  <2>2. damaged' \in SUBSET Places
    BY <1>4, <2>1 DEF FileCrash, FileTypeOK
  <2>3. /\ op' \in [Threads -> Ops] /\ done' \in [Threads -> Returned]
        /\ calls' \in [Calls -> Jobs] /\ reads' \in [Threads -> Reads]
    BY <1>4, DefaultsTyped DEF FileCrash
  <2>4. crashes' \in Nat
    <3>1. crashes' = crashes + 1 /\ crashes \in Nat
      BY <1>4 DEF FileCrash, FileTypeOK
    <3>2. QED
      BY <3>1
  <2>5. QED
    BY <1>4, <2>2, <2>3, <2>4 DEF FileCrash, FileTypeOK
<1>5. ASSUME NEW c \in Calls, NEW r \in Requests, Async(c, r)
      PROVE  FileTypeOK'
  <2>1. calls' \in [Calls -> Jobs]
    BY <1>5, DefaultsTyped DEF Async, FileTypeOK, Jobs, Errors
  <2>2. QED
    BY <1>5, <2>1 DEF Async, FileTypeOK
<1>6. ASSUME NEW w \in Workers, NEW c \in Calls, TakeJob(w, c)
      PROVE  FileTypeOK'
  <2>1. calls' \in [Calls -> Jobs] /\ calls[c].request \in Asked
    BY <1>6 DEF TakeJob, FileTypeOK, Jobs
  <2>2. op' \in [Threads -> Ops]
    BY <1>6, <2>1, StartedTyped DEF TakeJob, FileTypeOK
  <2>3. QED
    BY <1>6, <2>1, <2>2 DEF TakeJob, FileTypeOK
<1>7. ASSUME NEW w \in Workers, NEW c \in Calls, Callback(w, c)
      PROVE  FileTypeOK'
  <2>1. done[w].error \in Errors
    BY DEF FileTypeOK, Returned
  <2>2. calls' \in [Calls -> Jobs]
    BY <1>7, <2>1 DEF Callback, FileTypeOK, Jobs
  <2>3. QED
    BY <1>7, <2>2, DefaultsTyped DEF Callback, FileTypeOK
<1>8. QED
  BY <1>1, <1>2, <1>3, <1>4, <1>5, <1>6, <1>7

LEMMA NextTyped ==
    ASSUME FileTypeOK, [FileNext]_fileVars
    PROVE  FileTypeOK'
<1>1. CASE UNCHANGED fileVars
  BY <1>1 DEF fileVars, FileTypeOK
<1>2. CASE \E t \in Threads : FileStep(t)
  BY <1>2, StepTyped
<1>3. CASE ~(\E t \in Threads : FileStep(t)) /\ FileNext
  BY <1>3, CallerTyped DEF FileNext
<1>4. QED
  BY <1>1, <1>2, <1>3

-----------------------------------------------------------------------------
(* Every step keeps the invariant. *)

LEMMA OpenKeeps ==
    ASSUME FileInv, FileTypeOK', NEW t \in Threads, Open(t)
    PROVE  FileInv'
<1> USE DEF FileInv
<1>1. /\ Place(t) \in Places /\ \A u \in Threads : u # t => op'[u] = op[u]
      /\ op'[t] = [op[t] EXCEPT !.open = TRUE, !.stored = stored[Place(t)],
                                !.whole = Place(t) \notin damaged]
  BY OpTyped DEF Open, FileTypeOK
<1>2. op'[t].request = op[t].request /\ op'[t].stored = stored[Place(t)]
      /\ op'[t].whole = (Place(t) \notin damaged)
  BY <1>1, OpTyped DEF Ops
<1>3. /\ Doing(t)' = Doing(t) /\ Place(t)' = Place(t)
      /\ \A u \in Threads : u # t =>
            /\ Holds(u)' <=> Holds(u)
            /\ Doing(u)' = Doing(u) /\ Place(u)' = Place(u)
  BY <1>1, <1>2 DEF Holds, Busy, Doing, Place
<1>4. \A u \in Threads : u # t /\ Holds(u) /\ Place(u) = Place(t)
                          => Doing(t) # "write" /\ Doing(u) # "write"
  BY OpenAlone DEF Open
<1>5. Doing(t) # "write" => Exists(Place(t))
  BY DEF Open, OpenError
<1>6. /\ \A p \in Places : p # Place(t) => files'[p] = files[p]
      /\ Doing(t) = "write" => files'[Place(t)] = Empty
      /\ Doing(t) # "write" => files' = files
  BY <1>1 DEF Open, FileTypeOK
<1>7. HeldExist'
  <2>1. ASSUME NEW u \in Threads, u # t, Holds(u)
        PROVE  files'[Place(u)] # NoFile
    BY <1>4, <1>6, <2>1, OpTyped DEF HeldExist, Exists
  <2>2. files'[Place(t)] # NoFile
    BY <1>5, <1>6, FileAssumption DEF Exists
  <2>3. QED
    BY <1>3, <2>1, <2>2 DEF HeldExist, Exists
<1>8. WritesAlone'
  BY <1>3, <1>4 DEF WritesAlone
<1>9. Steady'
  <2> SUFFICES ASSUME NEW p \in Places, p \notin damaged, files'[p] # stored[p]
               PROVE  \E u \in Threads : Holds(u)' /\ Doing(u)' = "write" /\ Place(u)' = p
    BY DEF Steady, Open
  <2>1. CASE p = Place(t) /\ Doing(t) = "write"
    <3>1. Holds(t)'
      BY <1>1, <1>2, OpTyped, ZenonT(60) DEF Open, Holds, Busy, Doing, Ops
    <3>2. QED
      BY <2>1, <3>1, <1>3
  <2>2. CASE ~(p = Place(t) /\ Doing(t) = "write")
    <3>1. files'[p] = files[p]
      BY <1>6, <2>2
    <3>2. PICK u \in Threads : Holds(u) /\ Doing(u) = "write" /\ Place(u) = p
      BY <3>1 DEF Steady
    <3>3. u # t
      BY <3>2 DEF Open, Holds
    <3>4. QED
      BY <1>3, <3>2, <3>3
  <2>3. QED
    BY <2>1, <2>2
<1>10. OpenedWhole'
  <2>1. ASSUME NEW u \in Threads, u # t, Holds(u), Doing(u) # "write", op[u].whole
        PROVE  Place(u) \notin damaged /\ stored[Place(u)] = op[u].stored
    BY <2>1 DEF OpenedWhole
  <2>2. QED
    BY <1>1, <1>2, <1>3, <2>1, ZenonT(40) DEF OpenedWhole, Open
<1>11. ReadsAreWhole'
  BY DEF Open, ReadsAreWhole
<1>12. QED
  BY <1>7, <1>8, <1>9, <1>10, <1>11

\* What a step that ends the call of t does to the other threads.
LEMMA OthersKeep ==
    ASSUME NEW t \in Threads, ~Holds(t)', \A u \in Threads \ {t} : op'[u] = op[u]
    PROVE  \A u \in Threads : /\ Holds(u)' => u # t /\ Holds(u)
                              /\ u # t => /\ Holds(u)' <=> Holds(u)
                                          /\ Doing(u)' = Doing(u) /\ Place(u)' = Place(u)
                                          /\ op'[u] = op[u]
  BY DEF Holds, Busy, Doing, Place

LEMMA ReadKeeps ==
    ASSUME FileInv, FileTypeOK', NEW t \in Threads, ReadFile(t)
    PROVE  FileInv'
<1> USE DEF FileInv
<1>1. ~Holds(t)' /\ \A u \in Threads \ {t} : op'[u] = op[u]
  BY Returns, OpTyped DEF ReadFile, Errors
<1>2. Holds(t) /\ Doing(t) = "read" /\ UNCHANGED <<files, stored, damaged>>
  BY DEF ReadFile
<1>3. HeldExist' /\ WritesAlone' /\ OpenedWhole'
  BY <1>1, <1>2, OthersKeep DEF HeldExist, Exists, WritesAlone, OpenedWhole
<1>4. Steady'
  BY <1>1, <1>2, OthersKeep DEF Steady
<1>5. ReadsAreWhole'
  <2>1. op[t].whole => files[Place(t)] = op[t].stored
    <3> SUFFICES ASSUME op[t].whole PROVE files[Place(t)] = op[t].stored
      OBVIOUS
    <3>1. Place(t) \notin damaged /\ stored[Place(t)] = op[t].stored
      BY <1>2 DEF OpenedWhole
    <3>2. ~(\E u \in Threads : Holds(u) /\ Doing(u) = "write" /\ Place(u) = Place(t))
      BY <1>2 DEF WritesAlone
    <3>3. QED
      BY <3>1, <3>2, OpTyped DEF Steady
  <2>2. QED
    BY <2>1 DEF ReadsAreWhole, ReadFile, FileTypeOK
<1>6. QED
  BY <1>3, <1>4, <1>5

\* A write that completes or breaks off, and a deletion: nobody else has the
\* file open.
LEMMA ReplaceKeeps ==
    ASSUME FileInv, FileTypeOK', NEW t \in Threads, UNCHANGED reads,
           ~Holds(t)', \A u \in Threads \ {t} : op'[u] = op[u],
           \A u \in Threads : u # t /\ Holds(u) => Place(u) # Place(t),
           \A p \in Places : p # Place(t) =>
               files'[p] = files[p] /\ stored'[p] = stored[p] /\ (p \in damaged' <=> p \in damaged),
           Place(t) \in damaged' \/ files'[Place(t)] = stored'[Place(t)]
    PROVE  FileInv'
<1> USE DEF FileInv
<1>1. \A u \in Threads : Holds(u)' =>
          /\ u # t /\ Holds(u) /\ Doing(u)' = Doing(u) /\ Place(u)' = Place(u)
          /\ Place(u) # Place(t) /\ op'[u] = op[u] /\ Place(u) \in Places
  BY OthersKeep, OpTyped
<1>2. HeldExist' /\ WritesAlone' /\ OpenedWhole' /\ ReadsAreWhole'
  BY <1>1 DEF HeldExist, Exists, WritesAlone, OpenedWhole, ReadsAreWhole
<1>3. Steady'
  <2> SUFFICES ASSUME NEW p \in Places, p \notin damaged', files'[p] # stored'[p]
               PROVE  \E u \in Threads : Holds(u)' /\ Doing(u)' = "write" /\ Place(u)' = p
    BY DEF Steady
  <2>1. p # Place(t) /\ p \notin damaged /\ files[p] # stored[p]
    OBVIOUS
  <2>2. PICK u \in Threads : Holds(u) /\ Doing(u) = "write" /\ Place(u) = p
    BY <2>1 DEF Steady
  <2>3. QED
    BY <2>1, <2>2, OthersKeep
<1>4. QED
  BY <1>2, <1>3

LEMMA WriteKeeps ==
    ASSUME FileInv, FileTypeOK', NEW t \in Threads,
           WriteFile(t) \/ (TransferFails(t) /\ Doing(t) = "write")
    PROVE  FileInv'
<1>1. ~Holds(t)' /\ \A u \in Threads \ {t} : op'[u] = op[u]
  BY Returns, FileAssumption DEF WriteFile, TransferFails, FileInv, Files, Errors
<1>2. \A u \in Threads : u # t /\ Holds(u) => Place(u) # Place(t)
  BY DEF WriteFile, TransferFails, FileInv, WritesAlone
<1>3. Place(t) \in Places
  BY OpTyped DEF FileInv
<1>4. /\ \A p \in Places : p # Place(t) =>
           files'[p] = files[p] /\ stored'[p] = stored[p] /\ (p \in damaged' <=> p \in damaged)
      /\ Place(t) \in damaged' \/ files'[Place(t)] = stored'[Place(t)]
  BY <1>3 DEF WriteFile, TransferFails, FileInv, FileTypeOK
<1>5. QED
  BY <1>1, <1>2, <1>4, ReplaceKeeps DEF WriteFile, TransferFails

LEMMA DeleteKeeps ==
    ASSUME FileInv, FileTypeOK', NEW t \in Threads, DeleteFile(t)
    PROVE  FileInv'
<1> /\ NoFile \in Files /\ Empty \in Files
    /\ "None" \in Errors /\ "NotFound" \in Errors /\ "IOError" \in Errors
  BY FileAssumption DEF Files, Errors
<1>1. /\ ~Holds(t)' /\ \A u \in Threads \ {t} : op'[u] = op[u]
      /\ Doing(t) = "remove" /\ UNCHANGED reads
  BY Returns DEF DeleteFile, FileInv
<1>2. CASE UNCHANGED <<files, stored, damaged>>
  <2>1. \A u \in Threads : Holds(u)' => Holds(u) /\ op'[u] = op[u]
    BY <1>1, OthersKeep
  <2>2. \A u \in Threads : Holds(u) /\ Doing(u) = "write" => Holds(u)'
    BY <1>1, OthersKeep
  <2>3. QED
    BY <1>1, <1>2, <2>1, <2>2, QuietStep
<1>3. CASE /\ ~(\E u \in Threads : Holds(u) /\ Place(u) = Place(t))
           /\ files' = [files EXCEPT ![Place(t)] = NoFile]
           /\ stored' = [stored EXCEPT ![Place(t)] = NoFile]
           /\ damaged' = damaged \ {Place(t)}
  <2>1. /\ \A p \in Places : p # Place(t) =>
             files'[p] = files[p] /\ stored'[p] = stored[p] /\ (p \in damaged' <=> p \in damaged)
        /\ files'[Place(t)] = stored'[Place(t)]
    BY <1>3, OpTyped DEF FileInv, FileTypeOK
  <2>2. QED
    BY <1>1, <1>3, <2>1, ReplaceKeeps
<1>4. QED
  BY <1>2, <1>3 DEF DeleteFile

LEMMA QuietReturns ==
    ASSUME FileInv, FileTypeOK', NEW t \in Threads, Doing(t) # "write" \/ ~op[t].open,
           NEW e \in Errors, NEW v \in Files, Return(t, e, v),
           UNCHANGED <<files, stored, damaged, reads>>
    PROVE  FileInv'
<1>1. ~Holds(t)' /\ \A u \in Threads \ {t} : op'[u] = op[u]
  BY Returns DEF FileInv
<1>2. \A u \in Threads : /\ Holds(u)' => Holds(u) /\ op'[u] = op[u]
                         /\ Holds(u) /\ Doing(u) = "write" => Holds(u)'
  BY <1>1, OthersKeep DEF Holds
<1>3. QED
  BY <1>2, QuietStep

LEMMA StepKeeps ==
    ASSUME FileInv, FileTypeOK', NEW t \in Threads, FileStep(t)
    PROVE  FileInv'
<1> /\ Empty \in Files /\ files[Place(t)] \in Files
    /\ "None" \in Errors /\ "IOError" \in Errors
  BY FileAssumption, OpTyped DEF Files, FileInv, Errors
<1>1. CASE OpenFails(t)
  <2>1. OpenError(t) \in Errors
    BY DEF OpenError, Errors
  <2>2. QED
    BY <1>1, <2>1, QuietReturns DEF OpenFails
<1>2. CASE Open(t)
  BY <1>2, OpenKeeps
<1>3. CASE GetSize(t)
  <2>1. CASE Return(t, "None", files[Place(t)])
    BY <1>3, <2>1, QuietReturns DEF GetSize
  <2>2. CASE op' = [op EXCEPT ![t].sized = TRUE]
    <3>1. \A u \in Threads : /\ op'[u].request = op[u].request /\ op'[u].open = op[u].open
                             /\ op'[u].whole = op[u].whole /\ op'[u].stored = op[u].stored
      BY <2>2, OpTyped DEF FileInv, FileTypeOK, Ops
    <3>2. \A u \in Threads : Holds(u)' <=> Holds(u)
      BY <3>1 DEF Holds, Busy, Doing
    <3>3. QED
      BY <1>3, <3>1, <3>2, QuietStep DEF GetSize
  <2>3. QED
    BY <1>3, <2>1, <2>2 DEF GetSize
<1>4. CASE ReadFile(t)
  BY <1>4, ReadKeeps
<1>5. CASE WriteFile(t) \/ (TransferFails(t) /\ Doing(t) = "write")
  BY <1>5, WriteKeeps
<1>6. CASE TransferFails(t) /\ Doing(t) # "write"
  BY <1>6, QuietReturns DEF TransferFails
<1>7. CASE DeleteFile(t)
  BY <1>7, DeleteKeeps
<1>8. QED
  BY <1>1, <1>2, <1>3, <1>4, <1>5, <1>6, <1>7 DEF FileStep

\* A thread that holds nothing starts a call, or op is left alone.
LEMMA StartKeeps ==
    ASSUME FileInv, FileTypeOK', UNCHANGED <<files, stored, damaged, reads>>,
           \/ UNCHANGED op
           \/ \E t \in Threads, r \in Asked : Free(t) /\ op' = [op EXCEPT ![t] = Started(r)]
    PROVE  FileInv'
<1>1. CASE UNCHANGED op
  <2>1. \A u \in Threads : Holds(u)' <=> Holds(u)
    BY <1>1 DEF Holds, Busy, Doing
  <2>2. QED
    BY <1>1, <2>1, QuietStep
<1>2. ASSUME NEW t \in Threads, NEW r \in Asked, Free(t), op' = [op EXCEPT ![t] = Started(r)]
      PROVE  FileInv'
  <2>1. ~Holds(t) /\ ~Holds(t)' /\ \A u \in Threads \ {t} : op'[u] = op[u]
    BY <1>2, StartedTyped DEF FileInv, FileTypeOK, Free, Holds
  <2>2. \A u \in Threads : /\ Holds(u)' => Holds(u) /\ op'[u] = op[u]
                           /\ Holds(u) /\ Doing(u) = "write" => Holds(u)'
    BY <2>1, OthersKeep
  <2>3. QED
    BY <2>2, QuietStep
<1>3. QED
  BY <1>1, <1>2

LEMMA CrashKeeps ==
    ASSUME FileInv, FileTypeOK', FileCrash
    PROVE  FileInv'
<1>1. \A t \in Threads : ~Holds(t)' /\ reads'[t].whole = FALSE
  BY DefaultsTyped DEF FileCrash, Holds, Busy, Doing
<1>2. Steady'
  BY DEF FileInv, Steady, FileCrash
<1>3. QED
  BY <1>1, <1>2 DEF FileInv, HeldExist, WritesAlone, OpenedWhole, ReadsAreWhole

LEMMA NextKeeps ==
    ASSUME FileInv, [FileNext]_fileVars
    PROVE  FileInv'
<1>1. FileTypeOK'
  BY NextTyped DEF FileInv
<1> Main \in Threads /\ Workers \subseteq Threads /\ Requests \subseteq Asked
  BY DEF Threads, Asked
<1>2. CASE UNCHANGED fileVars
  BY <1>1, <1>2, StartKeeps DEF fileVars
<1>3. CASE \E r \in Requests : Call(r)
  BY <1>1, <1>3, StartKeeps DEF Call
<1>4. CASE Look \/ SetExecutor \/ \E c \in Calls, r \in Requests : Async(c, r)
  BY <1>1, <1>4, StartKeeps DEF Look, SetExecutor, Async
<1>5. CASE \E t \in Threads : FileStep(t)
  BY <1>1, <1>5, StepKeeps
<1>6. ASSUME NEW w \in Workers, NEW c \in Calls, TakeJob(w, c) \/ Callback(w, c)
      PROVE  FileInv'
  <2>1. calls[c].request \in Asked
    BY DEF FileInv, FileTypeOK, Jobs
  <2>2. QED
    BY <1>1, <1>6, <2>1, StartKeeps DEF TakeJob, Callback
<1>7. CASE FileCrash
  BY <1>1, <1>7, CrashKeeps
<1>8. QED
  BY <1>2, <1>3, <1>4, <1>5, <1>6, <1>7 DEF FileNext

-----------------------------------------------------------------------------
(* Theorems *)

\* Whatever the threads of the executor and the main thread ask for, and
\* wherever a transfer fails or the program ends, a request, a result and an
\* async call stay of their types (filesystem.cpp:90-441).
THEOREM FileTyped == FileSpec => []FileTypeOK
<1>1. ASSUME NEW disk \in [Places -> Contents \cup {NoFile}], FileInit(disk)
      PROVE  FileTypeOK
  BY <1>1, InitFileInv DEF FileInv, Files
<1>2. (\E disk \in [Places -> Contents \cup {NoFile}] : FileInit(disk)) => FileTypeOK
  BY <1>1
<1>3. FileTypeOK /\ [FileNext]_fileVars => FileTypeOK'
  BY NextTyped
<1>4. QED
  BY <1>2, <1>3, PTL DEF FileSpec

\* A read that returns data returns the whole of what the last completed write
\* stored, for any number of threads, files, failed transfers and crashes: the
\* share modes of read_file() and write_file() keep a writer alone with its file
\* from the truncation to the end of the write (filesystem.cpp:96, 151).
THEOREM ReadsWhole == FileSpec => []ReadsAreWhole
<1>1. ASSUME NEW disk \in [Places -> Contents \cup {NoFile}], FileInit(disk)
      PROVE  FileInv
  BY <1>1, InitFileInv DEF Files
<1>2. (\E disk \in [Places -> Contents \cup {NoFile}] : FileInit(disk)) => FileInv
  BY <1>1
<1>3. FileInv /\ [FileNext]_fileVars => FileInv'
  BY NextKeeps
<1>4. FileInv => ReadsAreWhole
  BY DEF FileInv
<1>5. QED
  BY <1>2, <1>3, <1>4, PTL DEF FileSpec

-----------------------------------------------------------------------------
(* The library *)

\* A sequence, whatever its elements.
Sequence(s) == s \in Seq({s[i] : i \in DOMAIN s})

\* The registered nodes: each key once, prerequisites first, each of a kind
\* that has a compiler, and with a prerequisite if that compiler takes one.
KeysOnce(ns) == \A m, n \in DOMAIN ns : ns[m].key = ns[n].key => m = n
DepsFirst(ns) ==
    \A n \in DOMAIN ns :
        ns[n].dep # NoKey => \E m \in DOMAIN ns : m < n /\ ns[m].key = ns[n].dep
Compilable(node) ==
    /\ node.key[1] = node.request.make
    /\ \/ /\ node.request.make = "file" /\ node.dep = NoKey
          /\ FullPath(node.request.args.path) \in Places
       \/ /\ node.request.make \in DOMAIN KindOf
          /\ KindOf[node.request.make].takes # "nothing" => node.dep # NoKey
NodesInv(ns) ==
    Sequence(ns) /\ KeysOnce(ns) /\ DepsFirst(ns) /\ \A n \in DOMAIN ns : Compilable(ns[n])

\* The node that a key of a create_...() leads to is of that very request.
Stands(node, r, j) ==
    /\ r.make = "file" => node.request.make = "file"
    /\ r.make # "file" =>
          /\ Part(r, j).make \in DOMAIN KindOf
          /\ node.request = Part(r, j) /\ node.dep = DepKey(Part(r, j))
Offers(ns, r, keys) ==
    /\ keys # <<>> => 1 \in DOMAIN keys
    /\ \A j \in DOMAIN keys : \E n \in DOMAIN ns : ns[n].key = keys[j] /\ Stands(ns[n], r, j)
CreatedInv(ns) ==
    Sequence(created) /\ \A i \in DOMAIN created : Offers(ns, created[i].request, created[i].keys)

\* The cache, the carriers' bytes and the tables.
TablesInv ==
    /\ tables \in [TableNames -> {tables[x] : x \in TableNames}]
    /\ \A x \in TableNames : Sequence(tables[x])
CacheInv ==
    /\ DOMAIN handles \subseteq DOMAIN nodes
    /\ DOMAIN payload = {n \in DOMAIN handles : IsCarrier(n)}
    /\ \A n \in DOMAIN payload : handles[n] = NoHandle
    /\ \A n \in Valued : handles[n].table = KindOf[nodes[n].request.make].table
    /\ {handles[n] : n \in Valued} = Slots
    /\ \A m, n \in Valued : handles[m] = handles[n] => m = n

\* The pass under way: its goal is a node that is not compiled yet.
Reports == Seq(Nat \X {"CompileFailed", "DependencyFailed"})
PassInv ==
    /\ pass \in [on : BOOLEAN, todo : SUBSET DOMAIN nodes, goal : {0} \cup DOMAIN nodes,
                 resolved : Nat, failures : Reports]
    /\ pass.goal \notin DOMAIN handles
    /\ pass.on => pass.resolved + Len(pass.failures) + Cardinality(pass.todo)
                    = Len(nodes) - (IF pass.goal = 0 THEN 0 ELSE 1)

StoreInv == NodesInv(nodes) /\ CreatedInv(nodes) /\ TablesInv /\ CacheInv
LibraryInv == program \in Programs /\ StoreInv /\ PassInv /\ ValuesCurrent

\* A map or sequence that another one goes on from.
Extends(f, g) == DOMAIN f \subseteq DOMAIN g /\ \A x \in DOMAIN f : g[x] = f[x]

-----------------------------------------------------------------------------
(* Sequences *)

LEMMA SequenceDomain ==
    ASSUME NEW s, Sequence(s)
    PROVE  Len(s) \in Nat /\ DOMAIN s = 1..Len(s)
<1>1. PICK S : s \in Seq(S)  BY DEF Sequence
<1> QED  BY <1>1, LenProperties

LEMMA Appended ==
    ASSUME NEW s, Sequence(s), NEW e
    PROVE  /\ Sequence(Append(s, e))
           /\ Len(Append(s, e)) = Len(s) + 1
           /\ DOMAIN Append(s, e) = DOMAIN s \cup {Len(s) + 1} /\ Len(s) + 1 \notin DOMAIN s
           /\ Extends(s, Append(s, e)) /\ Append(s, e)[Len(s) + 1] = e
<1>1. PICK S : s \in Seq(S) /\ e \in S
  <2> DEFINE T == {s[i] : i \in DOMAIN s} \cup {e}
  <2>1. s \in Seq(T)  BY DEF Sequence
  <2> QED  BY <2>1
<1>2. PICK t \in Seq(S) : t = Append(s, e)  BY <1>1, AppendProperties
<1>3. PICK k \in Nat : k = Len(s) /\ DOMAIN s = 1..k  BY SequenceDomain
<1>4. Len(t) = k + 1 /\ (\A i \in 1..k : t[i] = s[i]) /\ t[k + 1] = e
  BY <1>1, <1>2, <1>3, AppendProperties
<1>5. DOMAIN t = 1..k + 1  BY <1>4, LenProperties
<1>6. 1..k + 1 = (1..k) \cup {k + 1} /\ k + 1 \notin 1..k  BY <1>3
<1>7. t \in Seq({t[i] : i \in DOMAIN t})
  <2>1. t \in [1..k + 1 -> S]  BY <1>2, <1>4, LenProperties
  <2>2. PICK T : T = {t[i] : i \in 1..k + 1}  OBVIOUS
  <2>3. \A i \in 1..k + 1 : t[i] \in T  BY <2>2
  <2>4. t \in [1..k + 1 -> T]  BY <2>1, <2>3
  <2>5. t \in Seq(T)  BY <1>3, <2>4
  <2> QED  BY <1>5, <2>2, <2>5
<1> QED  BY <1>2, <1>3, <1>4, <1>5, <1>6, <1>7 DEF Sequence, Extends

-----------------------------------------------------------------------------
(* The kinds of assets *)

Kinded == {"csv", "json", "toml", "hlsl", "field", "pattern", "mesh", "glb", "cloud", "ply", "table",
           "series", "seriesView", "summary", "summaryView", "export", "meshShown", "cloudShown",
           "fieldShown"}

LEMMA KindsKnown ==
    ASSUME NEW make \in DOMAIN KindOf
    PROVE  /\ make \in Kinded
           /\ KindOf[make].table \in TableNames
           /\ KindOf[make].from \in {"path", "asset", "nothing"}
           /\ KindOf[make].takes \in {"nothing", "bytes"} \cup TableNames
           /\ KindOf[make].takes = "nothing" <=> KindOf[make].from = "nothing"
           /\ KindOf[make].takes \in TableNames => KindOf[make].from = "asset"
           /\ KindOf[make].takes # "shader"
  BY DEF KindOf, Kinded, TableNames, FromPath, FromAsset, FromNothing,
         CsvKind, JsonKind, TomlKind, ShaderKind, FieldKind, PatternKind, ShapeKind, GlbKind,
         CloudKind, PlyKind, TableKind, SeriesKind, SeriesViewKind, SummaryKind, SummaryViewKind,
         ExportKind, MeshShownKind, CloudShownKind, FieldShownKind

LEMMA FileIsNoKind ==
    {"file", "shaders"} \cap DOMAIN KindOf = {} /\ "hlsl" \in DOMAIN KindOf
  BY DEF KindOf

\* A compiler looks only at what it takes.
LEMMA MadeOfWhatItTakes ==
    ASSUME NEW r, r.make \in DOMAIN KindOf,
           NEW key, NEW b, NEW c, NEW s, NEW t, NEW m, NEW n,
           KindOf[r.make].takes = "bytes" => b = c,
           KindOf[r.make].takes \in TableNames => s = t /\ m = n
    PROVE  MadeOf(r, key, b, s, m) = MadeOf(r, key, c, t, n)
<1> DEFINE make == r.make
<1>1. make \in Kinded  BY KindsKnown
<1>2. CASE make \in {"csv", "json", "toml", "hlsl", "field", "glb", "ply"}
  <2>1. KindOf[make].takes = "bytes"
    BY <1>2 DEF KindOf, FromPath, FromAsset, CsvKind, JsonKind, TomlKind, ShaderKind, FieldKind,
                GlbKind, PlyKind
  <2> QED  BY <1>2, <2>1 DEF MadeOf
<1>3. CASE make \in {"pattern", "mesh", "cloud", "table"}
  BY <1>3 DEF MadeOf
<1>4. CASE make \in {"series", "summary", "seriesView", "summaryView", "export", "meshShown",
                     "cloudShown", "fieldShown"}
  <2>1. KindOf[make].takes \in TableNames
    BY <1>4 DEF KindOf, FromAsset, TableNames, SeriesKind, SeriesViewKind, SummaryKind,
                SummaryViewKind, ExportKind, MeshShownKind, CloudShownKind, FieldShownKind
  <2> QED  BY <1>4, <2>1 DEF MadeOf
<1> QED  BY <1>1, <1>2, <1>3, <1>4 DEF Kinded

-----------------------------------------------------------------------------
(* Keys and the nodes that have them *)

LEMMA IndexOfKey ==
    ASSUME NodesInv(nodes), NEW n \in DOMAIN nodes
    PROVE  IndexOf(nodes[n].key) = n
  BY DEF NodesInv, KeysOnce, IndexOf

LEMMA IndexFound ==
    ASSUME NodesInv(nodes), NEW key, HasKey(nodes, key)
    PROVE  IndexOf(key) \in DOMAIN nodes /\ nodes[IndexOf(key)].key = key
  BY DEF HasKey, IndexOf

LEMMA DepBefore ==
    ASSUME NodesInv(nodes), NEW n \in DOMAIN nodes, nodes[n].dep # NoKey
    PROVE  /\ HasKey(nodes, nodes[n].dep)
           /\ Dep(n) \in DOMAIN nodes /\ nodes[Dep(n)].key = nodes[n].dep /\ Dep(n) < n
<1>1. PICK m \in DOMAIN nodes : m < n /\ nodes[m].key = nodes[n].dep
  BY DEF NodesInv, DepsFirst
<1>2. IndexOf(nodes[m].key) = m  BY IndexOfKey
<1> QED  BY <1>1, <1>2 DEF HasKey, Dep

LEMMA KindOfNode ==
    ASSUME NodesInv(nodes), NEW n \in DOMAIN nodes, ~IsCarrier(n)
    PROVE  /\ nodes[n].request.make \in DOMAIN KindOf
           /\ KindOf[nodes[n].request.make].takes # "nothing" => nodes[n].dep # NoKey
  BY DEF NodesInv, Compilable, IsCarrier

\* A node that was registered stays where it is.
LEMMA IndexStays ==
    ASSUME NodesInv(nodes), NodesInv(nodes)', Extends(nodes, nodes'), NEW n \in DOMAIN nodes
    PROVE  /\ n \in DOMAIN nodes' /\ nodes'[n] = nodes[n] /\ IsCarrier(n)' = IsCarrier(n)
           /\ nodes[n].dep # NoKey => Dep(n)' = Dep(n)
<1>1. n \in DOMAIN nodes' /\ nodes'[n] = nodes[n]  BY DEF Extends
<1>2. ASSUME nodes[n].dep # NoKey PROVE Dep(n)' = Dep(n)
  <2>1. PICK m \in DOMAIN nodes : m = Dep(n) /\ nodes[m].key = nodes[n].dep  BY <1>2, DepBefore
  <2>2. m \in DOMAIN nodes' /\ nodes'[m].key = nodes[n].dep  BY <2>1 DEF Extends
  <2>3. \A k \in DOMAIN nodes' : nodes'[k].key = nodes'[m].key => k = m
    BY <2>2 DEF NodesInv, KeysOnce
  <2>4. Dep(n)' = CHOOSE k \in DOMAIN nodes' : nodes'[k].key = nodes'[n].dep  BY DEF Dep, IndexOf
  <2> QED  BY <1>1, <2>1, <2>2, <2>3, <2>4
<1> QED  BY <1>1, <1>2 DEF IsCarrier

-----------------------------------------------------------------------------
(* Values that are current stay current while the library grows *)

LEMMA SlotOf ==
    ASSUME NEW h, h \in Slots
    PROVE  h.table \in TableNames /\ h.id \in DOMAIN tables[h.table]
  BY DEF Slots

\* What a node that fits was made from is still there.
LEMMA SourceStays ==
    ASSUME NodesInv(nodes), NodesInv(nodes)', CacheInv, Extends(nodes, nodes'),
           Extends(handles, handles'), Extends(payload, payload'),
           \A x \in TableNames : Extends(tables[x], tables'[x]),
           NEW n \in DOMAIN nodes, ~IsCarrier(n), SourceFits(n), nodes[n].dep # NoKey => Compiled(Dep(n))
    PROVE  SourceFits(n)' /\ Results(n)' = Results(n)
<1> DEFINE r == nodes[n].request
           takes == KindOf[r.make].takes
           d == Dep(n)
<1>1. /\ r.make \in DOMAIN KindOf /\ takes \in {"nothing", "bytes"} \cup TableNames
      /\ takes # "nothing" => nodes[n].dep # NoKey
  BY KindOfNode, KindsKnown
<1>2. /\ nodes'[n] = nodes[n] /\ (nodes[n].dep # NoKey => Dep(n)' = d)
  BY IndexStays
<1>3. CASE takes = "nothing"
  <2>1. SourceFits(n)'  BY <1>2, <1>3 DEF SourceFits
  <2>2. "nothing" \notin TableNames  BY DEF TableNames
  <2> QED  BY <1>1, <1>2, <1>3, <2>1, <2>2, MadeOfWhatItTakes DEF Results
<1>4. CASE takes = "bytes"
  <2>1. d \in DOMAIN payload  BY <1>4 DEF SourceFits
  <2>2. Dep(n)' = d /\ d \in DOMAIN payload' /\ payload'[d] = payload[d]
    BY <1>1, <1>2, <1>4, <2>1 DEF Extends
  <2>3. SourceFits(n)'  BY <1>2, <1>4, <2>2 DEF SourceFits
  <2>4. "bytes" \notin TableNames  BY DEF TableNames
  <2> QED  BY <1>1, <1>2, <1>4, <2>2, <2>3, <2>4, MadeOfWhatItTakes DEF Results
<1>5. CASE takes \in TableNames
  <2>1. takes # "nothing" /\ takes # "bytes" /\ takes # "none"  BY <1>5 DEF TableNames
  <2>2. handles[d].table = takes  BY <2>1 DEF SourceFits
  <2>3. d \in DOMAIN handles /\ d \in DOMAIN nodes /\ nodes[n].dep # NoKey
    BY <1>1, <2>1, DepBefore DEF Compiled
  <2>4. d \notin DOMAIN payload  BY <2>1, <2>2 DEF CacheInv, NoHandle
  <2>5. d \in Valued  BY <2>3, <2>4 DEF CacheInv, Valued
  <2>6. handles[d] \in Slots  BY <2>5 DEF CacheInv
  <2>7. /\ Dep(n)' = d /\ handles'[d] = handles[d] /\ nodes'[d] = nodes[d]
    BY <1>2, <2>3 DEF Extends
  <2>8. Get(handles[d])' = Get(handles[d])
    BY <2>6, <2>7, SlotOf DEF Get, Extends
  <2>9. SourceFits(n)'  BY <1>2, <2>1, <2>2, <2>7 DEF SourceFits
  <2> QED  BY <1>1, <1>2, <2>1, <2>7, <2>8, <2>9, MadeOfWhatItTakes DEF Results
<1> QED  BY <1>1, <1>3, <1>4, <1>5

LEMMA ValuesStay ==
    ASSUME NodesInv(nodes), NodesInv(nodes)', CacheInv, ValuesCurrent, Extends(nodes, nodes'),
           Extends(handles, handles'), Extends(payload, payload'),
           \A x \in TableNames : Extends(tables[x], tables'[x]),
           NEW n \in DOMAIN handles
    PROVE  /\ nodes[n].dep # NoKey => Compiled(Dep(n))'
           /\ ~IsCarrier(n) => Get(handles[n])' \in Results(n)' \ {Rejected}
<1>1. n \in DOMAIN nodes  BY DEF CacheInv
<1>2. nodes[n].dep # NoKey => Compiled(Dep(n)) /\ Compiled(Dep(n))'
  BY <1>1, IndexStays DEF ValuesCurrent, Compiled, Extends
<1>3. ASSUME ~IsCarrier(n) PROVE Get(handles[n])' \in Results(n)' \ {Rejected}
  <2>1. Get(handles[n]) \in Results(n) \ {Rejected}  BY <1>3 DEF ValuesCurrent
  <2>2. SourceFits(n)  BY <2>1 DEF Results
  <2>3. Results(n)' = Results(n)  BY <1>1, <1>2, <1>3, <2>2, SourceStays
  <2>4. handles[n] \in Slots /\ handles'[n] = handles[n]
    BY <1>3 DEF CacheInv, Valued, Extends
  <2>5. Get(handles[n])' = Get(handles[n])  BY <2>4, SlotOf DEF Get, Extends
  <2> QED  BY <2>1, <2>3, <2>5
<1> QED  BY <1>2, <1>3

-----------------------------------------------------------------------------
(* What a create_...() registers *)

LEMMA ExtendsMore ==
    ASSUME NEW f, NEW g, NEW h, Extends(f, g), Extends(g, h)
    PROVE  Extends(f, h)
  BY DEF Extends

LEMMA KeyStays ==
    ASSUME NEW f, NEW g, Extends(f, g), NEW key, HasKey(f, key)
    PROVE  HasKey(g, key)
  BY DEF Extends, HasKey

LEMMA NodeJoins ==
    ASSUME NEW ns, NodesInv(ns), NEW node, Compilable(node), ~HasKey(ns, node.key),
           node.dep # NoKey => HasKey(ns, node.dep)
    PROVE  /\ NodesInv(Append(ns, node)) /\ Extends(ns, Append(ns, node))
           /\ HasKey(Append(ns, node), node.key)
<1>1. PICK ms : ms = Append(ns, node)  OBVIOUS
<1>2. PICK k \in Nat : k = Len(ns) /\ DOMAIN ns = 1..k  BY SequenceDomain DEF NodesInv
<1>3. /\ Sequence(ms) /\ DOMAIN ms = DOMAIN ns \cup {k + 1} /\ k + 1 \notin DOMAIN ns
      /\ Extends(ns, ms) /\ ms[k + 1] = node
  BY <1>1, <1>2, Appended DEF NodesInv
<1>4. \A n \in DOMAIN ms : (n \in DOMAIN ns /\ ms[n] = ns[n]) \/ (n = k + 1 /\ ms[n] = node)
  <2> TAKE n \in DOMAIN ms
  <2>1. n \in DOMAIN ns \/ n = k + 1  BY <1>3
  <2>2. n \in DOMAIN ns => ms[n] = ns[n]  BY <1>3 DEF Extends
  <2>3. n = k + 1 => ms[n] = node  BY <1>3
  <2> QED  BY <2>1, <2>2, <2>3
<1>5. KeysOnce(ms)
  <2> SUFFICES ASSUME NEW m \in DOMAIN ms, NEW n \in DOMAIN ms, ms[m].key = ms[n].key PROVE m = n
    BY DEF KeysOnce
  <2>1. \A i \in DOMAIN ns : ns[i].key # node.key  BY DEF HasKey
  <2>2. \A i, j \in DOMAIN ns : ns[i].key = ns[j].key => i = j  BY DEF NodesInv, KeysOnce
  <2>3. (m \in DOMAIN ns /\ ms[m] = ns[m]) \/ (m = k + 1 /\ ms[m] = node)  BY <1>4
  <2>4. (n \in DOMAIN ns /\ ms[n] = ns[n]) \/ (n = k + 1 /\ ms[n] = node)  BY <1>4
  <2> QED  BY <2>1, <2>2, <2>3, <2>4
<1>6. DepsFirst(ms)
  <2> SUFFICES ASSUME NEW n \in DOMAIN ms, ms[n].dep # NoKey
               PROVE  \E m \in DOMAIN ms : m < n /\ ms[m].key = ms[n].dep
    BY DEF DepsFirst
  <2>1. CASE n \in DOMAIN ns /\ ms[n] = ns[n]
    BY <1>3, <2>1 DEF NodesInv, DepsFirst, Extends
  <2>2. CASE n = k + 1 /\ ms[n] = node
    <3>1. PICK m \in DOMAIN ns : ns[m].key = node.dep  BY <2>2 DEF HasKey
    <3>2. m < k + 1  BY <1>2
    <3> QED  BY <1>3, <2>2, <3>1, <3>2 DEF Extends
  <2> QED  BY <1>4, <2>1, <2>2
<1>7. \A n \in DOMAIN ms : Compilable(ms[n])  BY <1>4 DEF NodesInv
<1>8. HasKey(ms, node.key)  BY <1>3 DEF HasKey
<1> QED  BY <1>1, <1>3, <1>5, <1>6, <1>7, <1>8 DEF NodesInv

LEMMA CarrierJoins ==
    ASSUME NEW ns, NodesInv(ns), NEW path, FullPath(path) \in Places, NEW schema
    PROVE  /\ NodesInv(WithCarrier(ns, path, schema)) /\ Extends(ns, WithCarrier(ns, path, schema))
           /\ HasKey(WithCarrier(ns, path, schema), FileKey(path, schema))
           /\ \A n \in DOMAIN WithCarrier(ns, path, schema) :
                 WithCarrier(ns, path, schema)[n].key = FileKey(path, schema)
                     => WithCarrier(ns, path, schema)[n].request.make = "file"
<1>0. PICK c : c = WithCarrier(ns, path, schema)  OBVIOUS
<1>f. FileKey(path, schema)[1] = "file"  BY DEF FileKey
<1>1. CASE HasKey(ns, FileKey(path, schema))
  <2>1. c = ns  BY <1>0, <1>1 DEF WithCarrier
  <2>2. \A n \in DOMAIN ns : ns[n].key[1] = ns[n].request.make  BY DEF NodesInv, Compilable
  <2> QED  BY <1>0, <1>1, <1>f, <2>1, <2>2 DEF Extends
<1>2. CASE ~HasKey(ns, FileKey(path, schema))
  <2>1. PICK node : node = CarrierOf(path, schema)  OBVIOUS
  <2>2. /\ node.key = FileKey(path, schema) /\ node.dep = NoKey
        /\ node.request.make = "file" /\ node.request.args.path = path
    BY <2>1 DEF CarrierOf
  <2>3. Compilable(node)  BY <1>f, <2>2 DEF Compilable
  <2>4. c = Append(ns, node)  BY <1>0, <1>2, <2>1 DEF WithCarrier
  <2>5. NodesInv(c) /\ Extends(ns, c) /\ HasKey(c, FileKey(path, schema))
    BY <1>2, <2>2, <2>3, <2>4, NodeJoins
  <2>6. \A n \in DOMAIN c : c[n].key[1] = c[n].request.make  BY <2>5 DEF NodesInv, Compilable
  <2> QED  BY <1>0, <1>f, <2>5, <2>6
<1> QED  BY <1>1, <1>2

\* The asset that a request is made from was registered.
LEMMA SourceRegistered ==
    ASSUME CreatedInv(nodes), NEW r, SourceKey(r) # NoKey
    PROVE  HasKey(nodes, SourceKey(r))
<1>1. /\ r.source \in DOMAIN created /\ created[r.source].keys # <<>>
      /\ SourceKey(r) = created[r.source].keys[1]
  BY DEF SourceKey
<1>2. Offers(nodes, created[r.source].request, created[r.source].keys)  BY <1>1 DEF CreatedInv
<1> QED  BY <1>1, <1>2 DEF Offers, HasKey

LEMMA FileKeyIsKey ==
    ASSUME NEW path, NEW schema
    PROVE  FileKey(path, schema) # NoKey
<1>1. FileKey(path, schema)[1] = "file" /\ NoKey[1] = "none"  BY DEF FileKey, NoKey
<1> QED  BY <1>1

\* The node of a request that was accepted.
Serves(ns, r) == \E n \in DOMAIN ns : ns[n] = [key |-> KeyOf(r), dep |-> DepKey(r), request |-> r]

LEMMA Registers ==
    ASSUME NEW ns, NodesInv(ns), Extends(nodes, ns), CreatedInv(nodes),
           NEW r, r.make \in DOMAIN KindOf,
           KindOf[r.make].from = "path" => FullPath(r.args.path) \in Places
    PROVE  /\ NodesInv(Register(ns, r).nodes) /\ Extends(ns, Register(ns, r).nodes)
           /\ Register(ns, r).keys # <<>> =>
                 /\ Register(ns, r).keys = <<KeyOf(r)>>
                 /\ Serves(Register(ns, r).nodes, r)
<1> DEFINE kind == KindOf[r.make]
<1>1. PICK carried : carried = IF kind.from = "path" THEN WithCarrier(ns, r.args.path, kind.schema)
                               ELSE ns
  OBVIOUS
<1>2. NodesInv(carried) /\ Extends(ns, carried)
  BY <1>1, CarrierJoins DEF Extends
<1>3. CASE ~Accepted(r)
  <2>1. Register(ns, r) = [nodes |-> ns, keys |-> <<>>]  BY <1>3 DEF Register
  <2> QED  BY <2>1 DEF Extends
<1>4. CASE Accepted(r) /\ HasKey(carried, KeyOf(r))
  <2>1. Register(ns, r) = [nodes |-> carried, keys |-> <<>>]  BY <1>1, <1>4 DEF Register
  <2> QED  BY <1>2, <2>1
<1>5. CASE Accepted(r) /\ ~HasKey(carried, KeyOf(r))
  <2>1. PICK node : node = [key |-> KeyOf(r), dep |-> DepKey(r), request |-> r]  OBVIOUS
  <2>2. node.key = KeyOf(r) /\ node.dep = DepKey(r) /\ node.request = r  BY <2>1
  <2>3. Register(ns, r) = [nodes |-> Append(carried, node), keys |-> <<KeyOf(r)>>]
    BY <1>1, <1>5, <2>1 DEF Register
  <2>4. /\ kind.from = "path" => DepKey(r) # NoKey /\ HasKey(carried, DepKey(r))
        /\ kind.from = "asset" => DepKey(r) # NoKey /\ HasKey(carried, DepKey(r))
        /\ kind.from = "nothing" => DepKey(r) = NoKey
    <3>1. CASE kind.from = "path"
      <4>1. DepKey(r) = FileKey(r.args.path, kind.schema)  BY <3>1 DEF DepKey
      <4> QED  BY <1>1, <3>1, <4>1, CarrierJoins, FileKeyIsKey
    <3>2. CASE kind.from = "asset"
      <4>1. DepKey(r) = SourceKey(r) /\ SourceKey(r) # NoKey  BY <1>5, <3>2 DEF DepKey, Accepted
      <4>2. HasKey(nodes, SourceKey(r))  BY <4>1, SourceRegistered
      <4> QED  BY <1>2, <3>2, <4>1, <4>2, KeyStays
    <3>3. CASE kind.from = "nothing"
      BY <3>3 DEF DepKey
    <3> QED  BY <3>1, <3>2, <3>3
  <2>5. kind.from \in {"path", "asset", "nothing"} /\ (kind.takes # "nothing" => kind.from # "nothing")
    BY KindsKnown
  <2>6. Compilable(node)
    <3>1. KeyOf(r)[1] = r.make  BY DEF KeyOf
    <3> QED  BY <2>2, <2>4, <2>5, <3>1 DEF Compilable
  <2>7. node.dep # NoKey => HasKey(carried, node.dep)  BY <2>2, <2>4, <2>5
  <2>8. /\ NodesInv(Append(carried, node)) /\ Extends(carried, Append(carried, node))
    BY <1>2, <1>5, <2>2, <2>6, <2>7, NodeJoins
  <2>9. Serves(Append(carried, node), r)
    <3>1. Len(carried) + 1 \in DOMAIN Append(carried, node) /\ Append(carried, node)[Len(carried) + 1] = node
      BY <1>2, Appended DEF NodesInv
    <3> QED  BY <2>1, <3>1 DEF Serves
  <2> QED  BY <1>2, <2>3, <2>8, <2>9, ExtendsMore
<1> QED  BY <1>3, <1>4, <1>5

LEMMA TwoKeys ==
    ASSUME NEW k, NEW l
    PROVE  <<k>> \o <<l>> = <<k, l>>
<1>1. PICK S : k \in S /\ l \in S
  <2>1. k \in {k, l} /\ l \in {k, l}  OBVIOUS
  <2> QED  BY <2>1
<1>2. <<k>> \in Seq(S) /\ <<l>> \in Seq(S) /\ <<k, l>> \in Seq(S)  BY <1>1
<1>3. PICK s \in Seq(S) : s = <<k>>  BY <1>2, Zenon
<1>4. PICK t \in Seq(S) : t = <<l>>  BY <1>2, Zenon
<1>5. PICK v \in Seq(S) : v = <<k, l>>  BY <1>2, Zenon
<1>6. /\ Len(s) = 1 /\ s[1] = k /\ Len(t) = 1 /\ t[1] = l /\ Len(v) = 2 /\ v[1] = k /\ v[2] = l
  BY <1>3, <1>4, <1>5
<1>7. PICK u \in Seq(S) : u = s \o t  BY ConcatProperties
<1>8. Len(u) = 2 /\ u[1] = k /\ u[2] = l
  <2>1. Len(u) = Len(s) + Len(t)  BY <1>7, ConcatProperties
  <2>2. \A i \in 1..Len(s) : u[i] = s[i]  BY <1>6, <1>7, ConcatProperties
  <2>3. \A i \in 1..Len(t) : u[i + Len(s)] = t[i]
    <3>1. \A i \in Len(s) + 1..Len(s) + Len(t) : u[i] = t[i - Len(s)]  BY <1>7, ConcatProperties
    <3> QED  BY <1>6, <3>1
  <2> QED  BY <1>6, <2>1, <2>2, <2>3
<1>9. \A i \in 1..Len(u) : u[i] = v[i]
  <2> TAKE i \in 1..Len(u)
  <2>1. i = 1 \/ i = 2  BY <1>8
  <2> QED  BY <1>6, <1>8, <2>1
<1>10. u = v  BY <1>6, <1>8, <1>9, SeqEqual
<1> QED  BY <1>3, <1>4, <1>5, <1>7, <1>10

\* The node of an accepted request, or of one shader of a pair, stands for it.
LEMMA ServedStands ==
    ASSUME NEW ns, NEW r, r.make # "file", NEW j, Part(r, j).make \in DOMAIN KindOf,
           Serves(ns, Part(r, j))
    PROVE  \E n \in DOMAIN ns : ns[n].key = KeyOf(Part(r, j)) /\ Stands(ns[n], r, j)
<1>1. PICK n \in DOMAIN ns :
         ns[n] = [key |-> KeyOf(Part(r, j)), dep |-> DepKey(Part(r, j)), request |-> Part(r, j)]
  BY DEF Serves
<1> QED  BY <1>1 DEF Stands

LEMMA CreatedNodes ==
    ASSUME NodesInv(nodes), CreatedInv(nodes), NEW r, r.make \in DOMAIN KindOf \cup {"file", "shaders"},
           \A path \in PathsOf(r) : FullPath(path) \in Places
    PROVE  /\ NodesInv(Created(nodes, r).nodes) /\ Extends(nodes, Created(nodes, r).nodes)
           /\ Offers(Created(nodes, r).nodes, r, Created(nodes, r).keys)
<1>1. Extends(nodes, nodes)  BY DEF Extends
<1>2. CASE r.make = "file"
  <2>1. Created(nodes, r) = RegisterFile(nodes, r)  BY <1>2 DEF Created
  <2>2. PICK path, schema : path = r.args.path /\ schema = r.args.schema /\ FullPath(path) \in Places
    BY <1>2 DEF PathsOf
  <2>3. PICK c, key : c = WithCarrier(nodes, path, schema) /\ key = FileKey(path, schema)  OBVIOUS
  <2>4. Created(nodes, r).nodes = c /\ Created(nodes, r).keys = <<key>>
    BY <2>1, <2>2, <2>3 DEF RegisterFile
  <2>5. /\ NodesInv(c) /\ Extends(nodes, c) /\ HasKey(c, key)
        /\ \A n \in DOMAIN c : c[n].key = key => c[n].request.make = "file"
    BY <2>2, <2>3, CarrierJoins
  <2>6. DOMAIN <<key>> = {1} /\ <<key>>[1] = key  OBVIOUS
  <2>7. \E n \in DOMAIN c : c[n].key = key /\ Stands(c[n], r, 1)
    BY <1>2, <2>5 DEF HasKey, Stands
  <2> QED  BY <2>4, <2>5, <2>6, <2>7 DEF Offers
<1>3. CASE r.make = "shaders"
  <2>1. PICK v, p : v = Shader(r.args.vertex) /\ p = Shader(r.args.pixel)  OBVIOUS
  <2>2. /\ v.make \in DOMAIN KindOf /\ p.make \in DOMAIN KindOf /\ v = Part(r, 1) /\ p = Part(r, 2)
        /\ FullPath(v.args.path) \in Places /\ FullPath(p.args.path) \in Places
    BY <1>3, <2>1, FileIsNoKind DEF Shader, Part, PathsOf
  <2>3. PICK vertex : vertex = Register(nodes, v)  OBVIOUS
  <2>4. PICK pixel : pixel = Register(vertex.nodes, p)  OBVIOUS
  <2>5. /\ NodesInv(vertex.nodes) /\ Extends(nodes, vertex.nodes)
        /\ vertex.keys # <<>> => vertex.keys = <<KeyOf(v)>> /\ Serves(vertex.nodes, v)
    BY <1>1, <2>2, <2>3, Registers
  <2>6. /\ NodesInv(pixel.nodes) /\ Extends(vertex.nodes, pixel.nodes)
        /\ pixel.keys # <<>> => pixel.keys = <<KeyOf(p)>> /\ Serves(pixel.nodes, p)
    BY <2>2, <2>4, <2>5, Registers
  <2>7. Created(nodes, r) = RegisterPair(nodes, r)  BY <1>3 DEF Created
  <2>8. CASE vertex.keys = <<>>
    <3>1. Created(nodes, r) = vertex  BY <2>1, <2>3, <2>7, <2>8 DEF RegisterPair
    <3> QED  BY <2>5, <2>8, <3>1 DEF Offers
  <2>9. CASE vertex.keys # <<>>
    <3>1. /\ Created(nodes, r).nodes = pixel.nodes
          /\ Created(nodes, r).keys = IF pixel.keys = <<>> THEN <<>> ELSE vertex.keys \o pixel.keys
      BY <2>1, <2>3, <2>4, <2>7, <2>9 DEF RegisterPair
    <3>2. Extends(nodes, pixel.nodes)  BY <2>5, <2>6, ExtendsMore
    <3>3. CASE pixel.keys = <<>>
      BY <2>6, <3>1, <3>2, <3>3 DEF Offers
    <3>4. CASE pixel.keys # <<>>
      <4>1. PICK k, l : k = KeyOf(v) /\ l = KeyOf(p)  OBVIOUS
      <4>2. vertex.keys = <<k>> /\ pixel.keys = <<l>>  BY <2>5, <2>6, <2>9, <3>4, <4>1
      <4>3. PICK keys : keys = <<k, l>>  OBVIOUS
      <4>4. DOMAIN keys = {1, 2} /\ keys[1] = k /\ keys[2] = l  BY <4>3
      <4>5. Created(nodes, r).keys = keys  BY <3>1, <3>4, <4>2, <4>3, TwoKeys
      <4>6. Serves(pixel.nodes, v) /\ Serves(pixel.nodes, p)
        BY <2>5, <2>6, <2>9, <3>4 DEF Serves, Extends
      <4>7. /\ \E n \in DOMAIN pixel.nodes : pixel.nodes[n].key = k /\ Stands(pixel.nodes[n], r, 1)
            /\ \E n \in DOMAIN pixel.nodes : pixel.nodes[n].key = l /\ Stands(pixel.nodes[n], r, 2)
        BY <1>3, <2>2, <4>1, <4>6, ServedStands
      <4> QED  BY <2>6, <3>1, <3>2, <4>4, <4>5, <4>7 DEF Offers
    <3> QED  BY <3>3, <3>4
  <2> QED  BY <2>8, <2>9
<1>4. CASE r.make \in DOMAIN KindOf
  <2>1. r.make # "file" /\ r.make # "shaders" /\ Part(r, 1) = r  BY <1>4, FileIsNoKind DEF Part
  <2>2. PICK c : c = Register(nodes, r)  OBVIOUS
  <2>3. Created(nodes, r) = c  BY <2>1, <2>2 DEF Created
  <2>p. KindOf[r.make].from = "path" => FullPath(r.args.path) \in Places
    BY <2>1 DEF PathsOf
  <2>4. /\ NodesInv(c.nodes) /\ Extends(nodes, c.nodes)
        /\ c.keys # <<>> => c.keys = <<KeyOf(r)>> /\ Serves(c.nodes, r)
    BY <1>1, <1>4, <2>2, <2>p, Registers
  <2>5. Offers(c.nodes, r, c.keys)
    <3>1. CASE c.keys = <<>>  BY <3>1 DEF Offers
    <3>2. CASE c.keys # <<>>
      <4>1. PICK k : k = KeyOf(r)  OBVIOUS
      <4>2. \E n \in DOMAIN c.nodes : c.nodes[n].key = k /\ Stands(c.nodes[n], r, 1)
        BY <1>4, <2>1, <2>4, <3>2, <4>1, ServedStands
      <4>3. c.keys = <<k>> /\ DOMAIN <<k>> = {1} /\ <<k>>[1] = k  BY <2>4, <3>2, <4>1
      <4> QED  BY <4>2, <4>3 DEF Offers
    <3> QED  BY <3>1, <3>2
  <2> QED  BY <2>3, <2>4, <2>5
<1> QED  BY <1>2, <1>3, <1>4

\* What an earlier create_...() returned stays good.
LEMMA StandsStay ==
    ASSUME Sequence(created), NEW entry, created' = Append(created, entry),
           NEW node, Compilable(node), NEW r, NEW j, Stands(node, r, j)
    PROVE  Stands(node, r, j)'
<1>1. CASE r.make = "file"
  BY <1>1 DEF Stands
<1>2. CASE r.make # "file"
  <2>1. PICK p : p = Part(r, j)  OBVIOUS
  <2>2. p.make \in DOMAIN KindOf /\ node.request = p /\ node.dep = DepKey(p)
    BY <1>2, <2>1 DEF Stands
  <2>3. DepKey(p)' = DepKey(p)
    <3>1. CASE KindOf[p.make].from = "asset"
      <4>1. KindOf[p.make].takes # "nothing"  BY <2>2, <3>1, KindsKnown
      <4>2. node.dep # NoKey  BY <2>2, <4>1, FileIsNoKind DEF Compilable
      <4>3. DepKey(p) = SourceKey(p) /\ DepKey(p)' = SourceKey(p)'  BY <3>1 DEF DepKey
      <4>4. p.source \in DOMAIN created  BY <2>2, <4>2, <4>3 DEF SourceKey
      <4>5. p.source \in DOMAIN created' /\ created'[p.source] = created[p.source]
        BY <4>4, Appended DEF Extends
      <4> QED  BY <4>3, <4>4, <4>5 DEF SourceKey
    <3>2. CASE KindOf[p.make].from # "asset"
      BY <3>2 DEF DepKey
    <3> QED  BY <3>1, <3>2
  <2> QED  BY <1>2, <2>1, <2>2, <2>3 DEF Stands
<1> QED  BY <1>1, <1>2

-----------------------------------------------------------------------------
(* The node that resolve() compiles next *)

\* The prerequisite of a node is compiled, or it has none.
Unblocked(n) == nodes[n].dep = NoKey \/ Compiled(Dep(n))

\* Dependencies lead backwards, so there is a function like FirstMissing.
LEMMA ChainsEnd ==
    ASSUME NodesInv(nodes)
    PROVE  \A n \in DOMAIN nodes :
              FirstMissing[n] = IF Unblocked(n) THEN n ELSE FirstMissing[Dep(n)]
<1>1. PICK N \in Nat : DOMAIN nodes = 1..N  BY SequenceDomain DEF NodesInv
<1> DEFINE Solves(g, k) == \A n \in 1..k : g[n] = IF Unblocked(n) THEN n ELSE g[Dep(n)]
           S == {k \in Nat : k <= N => \E g \in [1..k -> 1..N] : Solves(g, k)}
           Rec(g) == [n \in DOMAIN nodes |-> IF Unblocked(n) THEN n ELSE g[Dep(n)]]
<1>2. \A n \in 1..N : ~Unblocked(n) => Dep(n) \in 1..N /\ Dep(n) < n
  BY <1>1, DepBefore DEF Unblocked
<1>3. 0 \in S
  <2>1. 1..0 = {}  OBVIOUS
  <2> DEFINE z == [n \in 1..0 |-> n]
  <2>2. z \in [1..0 -> 1..N]  BY <2>1
  <2>3. Solves(z, 0)  BY <2>1
  <2> QED  BY <2>2, <2>3
<1>4. ASSUME NEW k \in Nat, k \in S PROVE k + 1 \in S
  <2> SUFFICES ASSUME k + 1 <= N PROVE \E g \in [1..k + 1 -> 1..N] : Solves(g, k + 1)
    OBVIOUS
  <2>1. PICK f \in [1..k -> 1..N] : Solves(f, k)  BY <1>1, <1>4
  <2> DEFINE g == [n \in 1..k + 1 |-> IF n <= k THEN f[n] ELSE IF Unblocked(n) THEN n ELSE f[Dep(n)]]
  <2>2. \A n \in 1..k + 1 : n \in 1..N /\ (~Unblocked(n) => Dep(n) \in 1..k)  BY <1>2
  <2>3. \A n \in 1..k : g[n] = f[n]  OBVIOUS
  <2>4. g[k + 1] = IF Unblocked(k + 1) THEN k + 1 ELSE f[Dep(k + 1)]  OBVIOUS
  <2>5. \A n \in 1..k + 1 : g[n] \in 1..N
    <3> TAKE n \in 1..k + 1
    <3>1. CASE n \in 1..k  BY <2>3, <3>1
    <3>2. CASE n = k + 1  BY <2>2, <2>4, <3>2
    <3> QED  BY <3>1, <3>2
  <2>6. \A n \in 1..k + 1 : g[n] = IF Unblocked(n) THEN n ELSE g[Dep(n)]
    <3> TAKE n \in 1..k + 1
    <3> HIDE DEF g, Unblocked
    <3>1. CASE n \in 1..k  BY <2>1, <2>2, <2>3, <3>1
    <3>2. CASE n = k + 1  BY <2>2, <2>3, <2>4, <3>2
    <3> QED  BY <3>1, <3>2
  <2>7. g \in [1..k + 1 -> 1..N]  BY <2>5
  <2> QED  BY <2>6, <2>7
<1>5. N \in S
  <2> HIDE DEF S
  <2> QED  BY <1>1, <1>3, <1>4, NumbersInduct
<1>6. PICK G \in [1..N -> 1..N] : Solves(G, N)  BY <1>5
<1>7. G = Rec(G)  BY <1>1, <1>6
<1>8. FirstMissing = Rec(FirstMissing)  BY <1>7 DEF FirstMissing, Unblocked
<1> QED  BY <1>8

LEMMA MissingFound ==
    ASSUME NodesInv(nodes), NEW goal \in DOMAIN nodes, goal \notin DOMAIN handles
    PROVE  /\ FirstMissing[goal] \in DOMAIN nodes \ DOMAIN handles
           /\ nodes[FirstMissing[goal]].dep # NoKey => Compiled(Dep(FirstMissing[goal]))
<1>1. PICK N \in Nat : DOMAIN nodes = 1..N  BY SequenceDomain DEF NodesInv
<1> DEFINE Found(n) == FirstMissing[n] \in DOMAIN nodes \ DOMAIN handles /\ Unblocked(FirstMissing[n])
           S == {k \in Nat : \A n \in DOMAIN nodes : n <= k /\ n \notin DOMAIN handles => Found(n)}
<1>2. 0 \in S  BY <1>1
<1>3. ASSUME NEW k \in Nat, k \in S PROVE k + 1 \in S
  <2> SUFFICES ASSUME NEW n \in DOMAIN nodes, n <= k + 1, n \notin DOMAIN handles PROVE Found(n)
    OBVIOUS
  <2>1. FirstMissing[n] = IF Unblocked(n) THEN n ELSE FirstMissing[Dep(n)]  BY ChainsEnd
  <2>2. CASE Unblocked(n)  BY <2>1, <2>2
  <2>3. CASE ~Unblocked(n)
    <3>1. Dep(n) \in DOMAIN nodes /\ Dep(n) < n /\ Dep(n) \notin DOMAIN handles
      BY <2>3, DepBefore DEF Unblocked, Compiled
    <3>2. Dep(n) <= k  BY <1>1, <3>1
    <3>3. Found(Dep(n))  BY <1>3, <3>1, <3>2
    <3> QED  BY <2>1, <2>3, <3>3
  <2> QED  BY <2>2, <2>3
<1>4. N \in S
  <2> HIDE DEF S
  <2> QED  BY <1>1, <1>2, <1>3, NumbersInduct
<1>5. Found(goal)  BY <1>1, <1>4
<1> QED  BY <1>5 DEF Unblocked

-----------------------------------------------------------------------------
(* Steps that leave the library alone, and the beginning *)

LEMMA EmptyLibrary ==
    ASSUME program \in Programs, created = <<>>, nodes = <<>>, handles = <<>>, payload = <<>>,
           tables = [x \in TableNames |-> <<>>], pass = NoPass
    PROVE  LibraryInv
<1>1. Sequence(<<>>) /\ DOMAIN <<>> = {} /\ Len(<<>>) = 0
  BY DEF Sequence
<1>2. NodesInv(nodes) /\ CreatedInv(nodes)
  BY <1>1 DEF NodesInv, KeysOnce, DepsFirst, CreatedInv
<1>3. DOMAIN handles = {} /\ DOMAIN payload = {} /\ Valued = {} /\ Slots = {}
  BY <1>1 DEF Valued, Slots
<1>4. TablesInv /\ CacheInv /\ ValuesCurrent
  BY <1>1, <1>3 DEF TablesInv, CacheInv, ValuesCurrent
<1>5. PassInv
  <2>1. <<>> \in Reports  BY DEF Reports
  <2> QED  BY <1>3, <2>1 DEF PassInv, NoPass
<1> QED  BY <1>2, <1>4, <1>5 DEF LibraryInv, StoreInv

LEMMA CreatedKept ==
    ASSUME CreatedInv(nodes), created' = created, nodes' = nodes
    PROVE  CreatedInv(nodes)'
<1>1. \A r : SourceKey(r)' = SourceKey(r)  BY DEF SourceKey
<1>2. \A r : DepKey(r)' = DepKey(r)  BY <1>1 DEF DepKey
<1>3. \A node, r, j : Stands(node, r, j)' <=> Stands(node, r, j)  BY <1>2 DEF Stands
<1>4. \A n \in DOMAIN nodes : \A r, j : Stands(nodes[n], r, j) => Stands(nodes[n], r, j)'
  <2> TAKE n \in DOMAIN nodes
  <2> TAKE r, j
  <2>1. PICK node : node = nodes[n]  OBVIOUS
  <2>2. Stands(node, r, j)' <=> Stands(node, r, j)  BY <1>3
  <2> QED  BY <2>1, <2>2 DEF Stands
<1>5. \A r, keys : Offers(nodes, r, keys) => Offers(nodes, r, keys)'
  BY <1>4 DEF Offers
<1> QED  BY <1>5 DEF CreatedInv, Sequence

\* A step that changes the report of the pass alone.
LEMMA OnlyPass ==
    ASSUME LibraryInv, UNCHANGED <<program, created, nodes, handles, payload, tables>>, PassInv'
    PROVE  LibraryInv'
<1>1. /\ program' = program /\ created' = created /\ nodes' = nodes /\ handles' = handles
      /\ payload' = payload /\ tables' = tables
  OBVIOUS
<1>2. \A n : IsCarrier(n)' = IsCarrier(n) /\ Dep(n)' = Dep(n)
  BY <1>1 DEF IsCarrier, Dep, IndexOf
<1>3. Valued' = Valued /\ Slots' = Slots  BY <1>1, <1>2 DEF Valued, Slots
<1>4. StoreInv'
  <2>1. CreatedInv(nodes)'  BY <1>1, CreatedKept DEF LibraryInv, StoreInv
  <2> QED  BY <1>1, <1>2, <1>3, <2>1 DEF LibraryInv, StoreInv, TablesInv, CacheInv
<1>5. ValuesCurrent'
  <2>1. \A n : Results(n)' = Results(n)  BY <1>1, <1>2 DEF Results, SourceFits, Get
  <2> QED  BY <1>1, <1>2, <2>1 DEF LibraryInv, ValuesCurrent, Compiled, Get
<1> QED  BY <1>1, <1>4, <1>5 DEF LibraryInv

LEMMA Untouched ==
    ASSUME LibraryInv, UNCHANGED <<program, created, nodes, handles, payload, tables, pass>>
    PROVE  LibraryInv'
<1>1. PassInv'  BY DEF LibraryInv, PassInv
<1> QED  BY <1>1, OnlyPass

-----------------------------------------------------------------------------
(* Creating assets, and the passes *)

LEMMA CreateStep ==
    ASSUME LibraryInv, Create
    PROVE  LibraryInv'
<1>1. PICK r \in Command.one_of :
         /\ nodes' = Created(nodes, r).nodes
         /\ created' = Append(created, [request |-> r, keys |-> Created(nodes, r).keys])
  BY DEF Create
<1>2. /\ program' = program /\ handles' = handles /\ payload' = payload /\ tables' = tables
      /\ pass' = pass /\ pass.on = FALSE
  BY DEF Create, Ready, LibraryInv, PassInv
<1>3. /\ r.make \in DOMAIN KindOf \cup {"file", "shaders"}
      /\ \A path \in PathsOf(r) : FullPath(path) \in Places
  BY <1>1, ProgramAssumption DEF Create, Ready, Command, LibraryInv
<1>4. /\ NodesInv(nodes) /\ CreatedInv(nodes) /\ TablesInv /\ CacheInv /\ ValuesCurrent /\ PassInv
  BY DEF LibraryInv, StoreInv
<1>5. /\ NodesInv(nodes') /\ Extends(nodes, nodes')
      /\ Offers(nodes', r, Created(nodes, r).keys)
  BY <1>1, <1>3, <1>4, CreatedNodes
<1>6. NodesInv(nodes)'  BY <1>5 DEF NodesInv, KeysOnce, DepsFirst, Sequence, Compilable
<1>7. CreatedInv(nodes)'
  <2>1. PICK entry : entry = [request |-> r, keys |-> Created(nodes, r).keys]  OBVIOUS
  <2>2. /\ Sequence(created') /\ DOMAIN created' = DOMAIN created \cup {Len(created) + 1}
        /\ Extends(created, created') /\ created'[Len(created) + 1] = entry
    BY <1>1, <1>4, <2>1, Appended DEF CreatedInv
  <2>3. \A i \in DOMAIN created' : Offers(nodes', created'[i].request, created'[i].keys)
    <3> TAKE i \in DOMAIN created'
    <3>1. CASE i \in DOMAIN created
      <4>1. created'[i] = created[i] /\ Offers(nodes, created[i].request, created[i].keys)
        BY <1>4, <2>2, <3>1 DEF Extends, CreatedInv
      <4> QED  BY <1>5, <4>1 DEF Offers, Extends
    <3>2. CASE i = Len(created) + 1
      BY <1>5, <2>1, <2>2, <3>2
    <3> QED  BY <2>2, <3>1, <3>2
  <2>4. \A q, keys : Offers(nodes', q, keys) => Offers(nodes, q, keys)'
    <3>1. \A n \in DOMAIN nodes' : \A q, j : Stands(nodes'[n], q, j) => Stands(nodes[n], q, j)'
      <4> TAKE n \in DOMAIN nodes'
      <4> TAKE q, j
      <4>1. PICK node : node = nodes'[n]  OBVIOUS
      <4>2. Compilable(node)  BY <1>5, <4>1 DEF NodesInv
      <4>3. Stands(node, q, j) => Stands(node, q, j)'  BY <1>1, <1>4, <2>1, <4>2, StandsStay DEF CreatedInv
      <4> QED  BY <4>1, <4>3 DEF Stands
    <3> QED  BY <3>1 DEF Offers
  <2> QED  BY <2>2, <2>3, <2>4 DEF CreatedInv, Sequence
<1>8. \A n \in DOMAIN nodes : n \in DOMAIN nodes' /\ nodes'[n] = nodes[n] /\ IsCarrier(n)' = IsCarrier(n)
  BY <1>4, <1>5, <1>6, IndexStays
<1>9. TablesInv'  BY <1>2, <1>4 DEF TablesInv, Sequence
<1>10. CacheInv'
  <2>1. DOMAIN handles \subseteq DOMAIN nodes  BY <1>4 DEF CacheInv
  <2>2. Valued' = Valued /\ Slots' = Slots  BY <1>2, <1>8, <2>1 DEF Valued, Slots
  <2>3. {n \in DOMAIN handles' : IsCarrier(n)'} = {n \in DOMAIN handles : IsCarrier(n)}
    BY <1>2, <1>8, <2>1
  <2>4. \A n \in Valued : nodes'[n] = nodes[n]  BY <1>8, <2>1 DEF Valued
  <2> QED  BY <1>2, <1>4, <1>8, <2>1, <2>2, <2>3, <2>4 DEF CacheInv
<1>11. PassInv'
  <2>1. DOMAIN nodes \subseteq DOMAIN nodes'  BY <1>5 DEF Extends
  <2> QED  BY <1>2, <1>4, <2>1 DEF PassInv
<1>12. ValuesCurrent'
  <2>1. Extends(handles, handles') /\ Extends(payload, payload')
        /\ \A x \in TableNames : Extends(tables[x], tables'[x])
    BY <1>2 DEF Extends
  <2>2. \A n \in DOMAIN handles :
          /\ nodes[n].dep # NoKey => Compiled(Dep(n))'
          /\ ~IsCarrier(n) => Get(handles[n])' \in Results(n)' \ {Rejected}
    BY <1>4, <1>5, <1>6, <2>1, ValuesStay
  <2>3. DOMAIN handles \subseteq DOMAIN nodes  BY <1>4 DEF CacheInv
  <2> QED  BY <1>2, <1>8, <2>2, <2>3 DEF ValuesCurrent
<1> QED  BY <1>2, <1>6, <1>7, <1>9, <1>10, <1>11, <1>12 DEF LibraryInv, StoreInv

LEMMA FiniteTodo ==
    ASSUME NodesInv(nodes), NEW todo \in SUBSET DOMAIN nodes
    PROVE  /\ IsFiniteSet(todo) /\ Cardinality(todo) \in Nat
           /\ Cardinality(DOMAIN nodes) = Len(nodes) /\ Len(nodes) \in Nat
           /\ \A n \in todo : Cardinality(todo \ {n}) = Cardinality(todo) - 1
<1>1. PICK k \in Nat : k = Len(nodes) /\ DOMAIN nodes = 1..k  BY SequenceDomain DEF NodesInv
<1>2. IsFiniteSet(1..k) /\ Cardinality(1..k) = k  BY FS_Interval
<1>3. IsFiniteSet(todo)  BY <1>1, <1>2, FS_Subset
<1>4. Cardinality(todo) \in Nat  BY <1>3, FS_CardinalityType
<1>5. \A n \in todo : Cardinality(todo \ {n}) = Cardinality(todo) - 1
  BY <1>3, FS_RemoveElement
<1> QED  BY <1>1, <1>2, <1>3, <1>4, <1>5

LEMMA NoNodeIsZero ==
    ASSUME NodesInv(nodes), CacheInv
    PROVE  0 \notin DOMAIN nodes /\ 0 \notin DOMAIN handles
<1>1. PICK k \in Nat : k = Len(nodes) /\ DOMAIN nodes = 1..k  BY SequenceDomain DEF NodesInv
<1> QED  BY <1>1 DEF CacheInv

LEMMA BeginPassStep ==
    ASSUME LibraryInv, BeginPass
    PROVE  LibraryInv'
<1>1. NodesInv(nodes) /\ CacheInv /\ PassInv  BY DEF LibraryInv, StoreInv
<1>2. /\ pass' = [NoPass EXCEPT !.on = TRUE, !.todo = DOMAIN nodes]
      /\ UNCHANGED <<program, created, nodes, handles, payload, tables>>
  BY DEF BeginPass
<1>3. /\ pass'.on = TRUE /\ pass'.todo = DOMAIN nodes /\ pass'.goal = 0 /\ pass'.resolved = 0
      /\ pass'.failures = <<>>
      /\ pass' = [on |-> TRUE, todo |-> DOMAIN nodes, goal |-> 0, resolved |-> 0, failures |-> <<>>]
  BY <1>2 DEF NoPass
<1>4. <<>> \in Reports /\ Len(<<>>) = 0  BY DEF Reports
<1>5. Cardinality(DOMAIN nodes) = Len(nodes) /\ Len(nodes) \in Nat  BY <1>1, FiniteTodo
<1>6. pass' \in [on : BOOLEAN, todo : SUBSET DOMAIN nodes, goal : {0} \cup DOMAIN nodes,
                resolved : Nat, failures : Reports]
  BY <1>3, <1>4
<1>7. pass'.resolved + Len(pass'.failures) + Cardinality(pass'.todo) = Len(nodes)
  BY <1>3, <1>4, <1>5
<1>8. PassInv'  BY <1>1, <1>2, <1>3, <1>6, <1>7, NoNodeIsZero DEF PassInv
<1> QED  BY <1>2, <1>8, OnlyPass

LEMMA VisitNodeStep ==
    ASSUME LibraryInv, VisitNode
    PROVE  LibraryInv'
<1>1. NodesInv(nodes) /\ CacheInv /\ PassInv  BY DEF LibraryInv, StoreInv
<1>2. PICK n \in pass.todo :
         pass' = IF Compiled(n) THEN [pass EXCEPT !.todo = @ \ {n}, !.resolved = @ + 1]
                 ELSE [pass EXCEPT !.todo = @ \ {n}, !.goal = n]
  BY DEF VisitNode
<1>3. /\ pass.on /\ pass.goal = 0
      /\ UNCHANGED <<program, created, nodes, handles, payload, tables>>
  BY DEF VisitNode
<1>4. /\ pass.on \in BOOLEAN /\ pass.todo \in SUBSET DOMAIN nodes /\ pass.resolved \in Nat
      /\ pass.failures \in Reports
      /\ pass.resolved + Len(pass.failures) + Cardinality(pass.todo) = Len(nodes)
  BY <1>1, <1>3, FiniteTodo DEF PassInv
<1>5. /\ Cardinality(pass.todo) \in Nat /\ Cardinality(pass.todo \ {n}) = Cardinality(pass.todo) - 1
      /\ Len(nodes) \in Nat
  BY <1>1, <1>2, <1>4, FiniteTodo
<1>6. Len(pass.failures) \in Nat  BY <1>4, LenProperties DEF Reports
<1>7. n \in DOMAIN nodes /\ n # 0  BY <1>1, <1>2, <1>4, NoNodeIsZero
<1>8. CASE Compiled(n)
  <2>1. pass' = [pass EXCEPT !.todo = @ \ {n}, !.resolved = @ + 1]  BY <1>2, <1>8
  <2>2. /\ pass'.on = pass.on /\ pass'.todo = pass.todo \ {n} /\ pass'.goal = 0
        /\ pass'.resolved = pass.resolved + 1 /\ pass'.failures = pass.failures
    BY <1>1, <1>3, <2>1 DEF PassInv
  <2>3. pass' \in [on : BOOLEAN, todo : SUBSET DOMAIN nodes, goal : {0} \cup DOMAIN nodes,
                   resolved : Nat, failures : Reports]
    <3>1. pass.todo \ {n} \in SUBSET DOMAIN nodes /\ pass.resolved + 1 \in Nat  BY <1>4
    <3> QED  BY <1>1, <2>1, <3>1 DEF PassInv
  <2>4. PassInv'  BY <1>1, <1>3, <1>4, <1>5, <1>6, <2>2, <2>3, NoNodeIsZero DEF PassInv
  <2> QED  BY <1>3, <2>4, OnlyPass
<1>9. CASE ~Compiled(n)
  <2>1. pass' = [pass EXCEPT !.todo = @ \ {n}, !.goal = n]  BY <1>2, <1>9
  <2>2. /\ pass'.on = pass.on /\ pass'.todo = pass.todo \ {n} /\ pass'.goal = n
        /\ pass'.resolved = pass.resolved /\ pass'.failures = pass.failures
    BY <1>1, <1>3, <2>1 DEF PassInv
  <2>3. pass' \in [on : BOOLEAN, todo : SUBSET DOMAIN nodes, goal : {0} \cup DOMAIN nodes,
                   resolved : Nat, failures : Reports]
    BY <1>1, <1>4, <1>7, <2>1 DEF PassInv
  <2>4. PassInv'  BY <1>3, <1>4, <1>5, <1>6, <1>7, <1>9, <2>2, <2>3 DEF PassInv, Compiled
  <2> QED  BY <1>3, <2>4, OnlyPass
<1> QED  BY <1>8, <1>9

LEMMA EndPassStep ==
    ASSUME LibraryInv, EndPass
    PROVE  LibraryInv'
<1>1. PassInv  BY DEF LibraryInv
<1>2. /\ pass' = [pass EXCEPT !.on = FALSE]
      /\ UNCHANGED <<program, created, nodes, handles, payload, tables>>
  BY DEF EndPass
<1>3. /\ pass'.on = FALSE /\ pass'.goal = pass.goal
      /\ pass' \in [on : BOOLEAN, todo : SUBSET DOMAIN nodes, goal : {0} \cup DOMAIN nodes,
                    resolved : Nat, failures : Reports]
  BY <1>1, <1>2 DEF PassInv
<1>4. PassInv'  BY <1>1, <1>2, <1>3 DEF PassInv
<1> QED  BY <1>2, <1>4, OnlyPass

-----------------------------------------------------------------------------
(* Compiling a node *)

LEMMA Entered ==
    ASSUME NEW f, NEW n, NEW v, n \notin DOMAIN f
    PROVE  /\ DOMAIN With(f, n, v) = DOMAIN f \cup {n}
           /\ Extends(f, With(f, n, v)) /\ With(f, n, v)[n] = v
  BY DEF With, Extends

\* What a compilation adds to the table of its node.
LEMMA ValueStored ==
    ASSUME TablesInv, NEW table \in TableNames, NEW value,
           tables' = [tables EXCEPT ![table] = Stored(@, value)]
    PROVE  /\ TablesInv' /\ \A x \in TableNames : Extends(tables[x], tables'[x])
           /\ Slots' = Slots \cup {NewHandle(table)} /\ NewHandle(table) \notin Slots
           /\ tables'[NewHandle(table).table][NewHandle(table).id] = value
<1> DEFINE slots == tables[table]
<1>1. PICK k \in Nat : k = Len(slots)  BY SequenceDomain DEF TablesInv
<1>2. PICK h : h = [table |-> table, id |-> k + 1]  OBVIOUS
<1>3. NewHandle(table) = h  BY <1>1, <1>2 DEF NewHandle
<1>4. PICK new : new = Append(slots, value)  OBVIOUS
<1>5. /\ Sequence(new) /\ DOMAIN new = DOMAIN slots \cup {k + 1} /\ k + 1 \notin DOMAIN slots
      /\ Extends(slots, new) /\ new[k + 1] = value
  BY <1>1, <1>4, Appended DEF TablesInv
<1>6. tables' = [tables EXCEPT ![table] = new]  BY <1>4 DEF Stored
<1>7. /\ DOMAIN tables = TableNames /\ DOMAIN tables' = TableNames
      /\ tables'[table] = new /\ \A x \in TableNames \ {table} : tables'[x] = tables[x]
  BY <1>6 DEF TablesInv
<1>8. TablesInv'
  <2>1. tables' \in [TableNames -> {tables'[x] : x \in TableNames}]  BY <1>6, <1>7
  <2>2. \A x \in TableNames : Sequence(tables'[x])  BY <1>5, <1>7 DEF TablesInv
  <2> QED  BY <2>1, <2>2 DEF TablesInv, Sequence
<1>9. \A x \in TableNames : Extends(tables[x], tables'[x])  BY <1>5, <1>7 DEF Extends
<1>10. Slots' = Slots \cup {h}
  <2>1. ASSUME NEW s \in Slots' PROVE s \in Slots \cup {h}
    <3>1. PICK x \in TableNames : \E id \in DOMAIN tables'[x] : s = [table |-> x, id |-> id]
      BY <2>1 DEF Slots
    <3>2. PICK id \in DOMAIN tables'[x] : s = [table |-> x, id |-> id]  BY <3>1
    <3>3. id \in DOMAIN tables[x] \/ (x = table /\ id = k + 1)  BY <1>5, <1>7
    <3>4. id \in DOMAIN tables[x] => s \in Slots  BY <3>2 DEF Slots
    <3> QED  BY <1>2, <3>2, <3>3, <3>4
  <2>2. Slots \subseteq Slots'
    <3>1. \A x \in TableNames : DOMAIN tables[x] \subseteq DOMAIN tables'[x]  BY <1>9 DEF Extends
    <3> QED  BY <3>1 DEF Slots
  <2>3. h \in Slots'
    <3>1. k + 1 \in DOMAIN tables'[table]  BY <1>5, <1>7
    <3> QED  BY <1>2, <3>1 DEF Slots
  <2> QED  BY <2>1, <2>2, <2>3
<1>11. h \notin Slots
  <2> SUFFICES ASSUME h \in Slots PROVE FALSE  OBVIOUS
  <2>1. h.table = table /\ h.id = k + 1  BY <1>2
  <2> QED  BY <1>5, <2>1, SlotOf
<1>12. tables'[NewHandle(table).table][NewHandle(table).id] = value
  BY <1>2, <1>3, <1>5, <1>7
<1> QED  BY <1>3, <1>8, <1>9, <1>10, <1>11, <1>12

LEMMA CurrentNode ==
    ASSUME LibraryInv, Resolving
    PROVE  /\ Current \in DOMAIN nodes /\ Current \notin DOMAIN handles
           /\ nodes[Current].dep # NoKey => Compiled(Dep(Current))
           /\ pass.goal \in DOMAIN nodes /\ pass.goal \notin DOMAIN handles
<1>1. pass.goal \in DOMAIN nodes /\ pass.goal \notin DOMAIN handles /\ NodesInv(nodes)
  BY DEF LibraryInv, StoreInv, PassInv, Resolving
<1> QED  BY <1>1, MissingFound DEF Current

LEMMA FailStep ==
    ASSUME LibraryInv, Resolving, Fail(Current), UNCHANGED <<program, created, nodes>>
    PROVE  LibraryInv'
<1>1. NodesInv(nodes) /\ CacheInv /\ PassInv  BY DEF LibraryInv, StoreInv
<1>2. PICK why \in {"CompileFailed", "DependencyFailed"} :
         pass' = [pass EXCEPT !.goal = 0, !.failures = Append(@, <<pass.goal, why>>)]
  BY DEF Fail
<1>3. UNCHANGED <<handles, payload, tables>>  BY DEF Fail
<1>4. PICK m \in DOMAIN nodes : m = pass.goal  BY CurrentNode
<1>5. m \in Nat /\ m # 0
  <2>1. PICK k \in Nat : DOMAIN nodes = 1..k  BY <1>1, SequenceDomain DEF NodesInv
  <2> QED  BY <2>1
<1>6. PICK r \in Nat \X {"CompileFailed", "DependencyFailed"} : r = <<pass.goal, why>>
  BY <1>4, <1>5
<1>7. PICK f \in Reports : f = pass.failures  BY <1>1 DEF PassInv
<1>8. Append(f, r) \in Reports /\ Len(Append(f, r)) = Len(f) + 1 /\ Len(f) \in Nat
  BY <1>7, AppendProperties, LenProperties DEF Reports
<1>9. PICK g \in Reports : g = Append(f, r) /\ Len(g) = Len(f) + 1  BY <1>8
<1>10. pass' = [pass EXCEPT !.goal = 0, !.failures = g]  BY <1>2, <1>6, <1>7, <1>9
<1>11. /\ pass'.on = pass.on /\ pass'.todo = pass.todo /\ pass'.goal = 0
       /\ pass'.resolved = pass.resolved /\ pass'.failures = g
       /\ pass' \in [on : BOOLEAN, todo : SUBSET DOMAIN nodes, goal : {0} \cup DOMAIN nodes,
                     resolved : Nat, failures : Reports]
  BY <1>1, <1>10 DEF PassInv
<1>12. /\ pass.todo \in SUBSET DOMAIN nodes /\ pass.resolved \in Nat
       /\ pass.resolved + Len(f) + Cardinality(pass.todo) = Len(nodes) - 1
  BY <1>1, <1>4, <1>5, <1>7 DEF PassInv, Resolving
<1>13. Cardinality(pass.todo) \in Nat /\ Len(nodes) \in Nat  BY <1>1, <1>12, FiniteTodo
<1>14. pass'.resolved + Len(pass'.failures) + Cardinality(pass'.todo) = Len(nodes)
  BY <1>8, <1>9, <1>11, <1>12, <1>13
<1>15. PassInv'  BY <1>1, <1>3, <1>11, <1>14, NoNodeIsZero DEF PassInv
<1> QED  BY <1>3, <1>15, OnlyPass

LEMMA PassSucceeds ==
    ASSUME LibraryInv, Resolving, NEW n \in DOMAIN nodes, n \notin DOMAIN handles, NEW h, Succeed(n, h),
           nodes' = nodes
    PROVE  PassInv'
<1>1. NodesInv(nodes) /\ CacheInv /\ PassInv  BY DEF LibraryInv, StoreInv
<1>2. DOMAIN handles' = DOMAIN handles \cup {n}  BY Entered DEF Succeed
<1>3. pass.goal \in DOMAIN nodes /\ pass.goal \notin DOMAIN handles /\ pass.on /\ pass.goal # 0
  BY CurrentNode DEF Resolving
<1>4. CASE n = pass.goal
  <2>1. pass' = [pass EXCEPT !.goal = 0, !.resolved = @ + 1]  BY <1>4 DEF Succeed
  <2>2. /\ pass'.on = pass.on /\ pass'.todo = pass.todo /\ pass'.goal = 0
        /\ pass'.resolved = pass.resolved + 1 /\ pass'.failures = pass.failures
        /\ pass' \in [on : BOOLEAN, todo : SUBSET DOMAIN nodes, goal : {0} \cup DOMAIN nodes,
                      resolved : Nat, failures : Reports]
    <3>1. pass.resolved + 1 \in Nat  BY <1>1 DEF PassInv
    <3> QED  BY <1>1, <2>1, <3>1 DEF PassInv
  <2>3. /\ pass.todo \in SUBSET DOMAIN nodes /\ pass.resolved \in Nat /\ pass.failures \in Reports
        /\ pass.resolved + Len(pass.failures) + Cardinality(pass.todo) = Len(nodes) - 1
    BY <1>1, <1>3 DEF PassInv
  <2>4. Cardinality(pass.todo) \in Nat /\ Len(nodes) \in Nat /\ Len(pass.failures) \in Nat
    BY <1>1, <2>3, FiniteTodo, LenProperties DEF Reports
  <2>5. pass'.resolved + Len(pass'.failures) + Cardinality(pass'.todo) = Len(nodes)
    <3>1. PICK k \in Nat, c \in Nat : k = Len(pass.failures) /\ c = Cardinality(pass.todo)
      BY <2>4
    <3>2. Len(pass'.failures) = k /\ Cardinality(pass'.todo) = c  BY <2>2, <3>1
    <3>3. pass.resolved + k + c = Len(nodes) - 1  BY <2>3, <3>1
    <3> QED  BY <2>2, <2>3, <2>4, <3>2, <3>3
  <2>6. 0 \notin DOMAIN handles'  BY <1>1, <1>2, NoNodeIsZero
  <2> QED  BY <2>2, <2>5, <2>6 DEF PassInv
<1>5. CASE n # pass.goal
  <2>1. pass' = pass  BY <1>5 DEF Succeed
  <2>2. pass'.goal \notin DOMAIN handles'  BY <1>2, <1>3, <1>5, <2>1
  <2> QED  BY <1>1, <2>1, <2>2 DEF PassInv
<1> QED  BY <1>4, <1>5

\* What a compilation that succeeds leaves, if its node has bytes and no handle
\* or a new slot with a current value.
LEMMA Compiles ==
    ASSUME LibraryInv, UNCHANGED <<program, created, nodes>>, PassInv', TablesInv', CacheInv',
           NEW n \in DOMAIN nodes, DOMAIN handles' = DOMAIN handles \cup {n},
           Extends(handles, handles'), Extends(payload, payload'),
           \A x \in TableNames : Extends(tables[x], tables'[x]),
           nodes[n].dep # NoKey => Compiled(Dep(n)),
           ~IsCarrier(n) => Get(handles[n])' \in Results(n) \ {Rejected}
    PROVE  LibraryInv'
<1>1. NodesInv(nodes) /\ CreatedInv(nodes) /\ CacheInv /\ ValuesCurrent
  BY DEF LibraryInv, StoreInv
<1>2. /\ program' = program /\ created' = created /\ nodes' = nodes
      /\ NodesInv(nodes)' /\ CreatedInv(nodes)' /\ Extends(nodes, nodes')
  BY <1>1, CreatedKept DEF Extends
<1>3. \A m : IsCarrier(m)' = IsCarrier(m) /\ Dep(m)' = Dep(m)
  BY <1>2 DEF IsCarrier, Dep, IndexOf
<1>4. \A m \in DOMAIN handles :
         /\ nodes[m].dep # NoKey => Compiled(Dep(m))'
         /\ ~IsCarrier(m) => Get(handles[m])' \in Results(m)' \ {Rejected}
  BY <1>1, <1>2, ValuesStay
<1>5. nodes[n].dep # NoKey => Compiled(Dep(n))'
  BY <1>3 DEF Compiled, Extends
<1>6. ASSUME ~IsCarrier(n) PROVE Get(handles[n])' \in Results(n)' \ {Rejected}
  <2>1. SourceFits(n)  BY <1>6 DEF Results
  <2>2. Results(n)' = Results(n)  BY <1>1, <1>2, <1>6, <2>1, SourceStays
  <2> QED  BY <1>6, <2>2
<1>7. ValuesCurrent'  BY <1>2, <1>3, <1>4, <1>5, <1>6 DEF ValuesCurrent
<1> QED  BY <1>2, <1>7 DEF LibraryInv, StoreInv

LEMMA CompileNodeStep ==
    ASSUME LibraryInv, CompileNode
    PROVE  LibraryInv'
<1>1. PICK n \in DOMAIN nodes : n = Current /\ n \notin DOMAIN handles
  BY CurrentNode DEF CompileNode
<1>2. /\ Resolving /\ ~IsCarrier(n) /\ UNCHANGED <<program, created, nodes>> /\ nodes' = nodes
      /\ nodes[n].dep # NoKey => Compiled(Dep(n))
  BY <1>1, CurrentNode DEF CompileNode
<1>3. NodesInv(nodes) /\ TablesInv /\ CacheInv  BY DEF LibraryInv, StoreInv
<1>4. PICK table \in TableNames : table = KindOf[nodes[n].request.make].table
  BY <1>2, <1>3, KindOfNode, KindsKnown
<1>5. CASE Fail(Current)
  BY <1>2, <1>5, FailStep
<1>6. ASSUME NEW value \in Results(n), value # Rejected, Succeed(n, NewHandle(table)),
             tables' = [tables EXCEPT ![table] = Stored(@, value)], payload' = payload
      PROVE  LibraryInv'
  <2>1. PICK h : h = NewHandle(table)  OBVIOUS
  <2>2. /\ DOMAIN handles' = DOMAIN handles \cup {n} /\ Extends(handles, handles') /\ handles'[n] = h
    <3>1. handles' = With(handles, n, h)  BY <1>6, <2>1 DEF Succeed
    <3>2. DOMAIN handles' = DOMAIN handles \cup {n} /\ Extends(handles, handles')
      BY <1>1, <3>1, Entered
    <3>3. handles'[n] = h  BY <3>1 DEF With
    <3> QED  BY <3>2, <3>3
  <2>3. /\ TablesInv' /\ \A x \in TableNames : Extends(tables[x], tables'[x])
        /\ Slots' = Slots \cup {h} /\ h \notin Slots /\ tables'[h.table][h.id] = value
    BY <1>3, <1>6, <2>1, ValueStored
  <2>4. \A m : IsCarrier(m)' = IsCarrier(m)  BY <1>2 DEF IsCarrier
  <2>5. \A m \in DOMAIN handles : handles'[m] = handles[m]  BY <2>2 DEF Extends
  <2>6. CacheInv'
    <3>1. Valued' = Valued \cup {n}  BY <1>2, <2>2, <2>4 DEF Valued
    <3>2. Valued \subseteq DOMAIN handles  BY DEF Valued
    <3>3. {handles'[m] : m \in Valued'} = Slots'
      <4>1. {handles[m] : m \in Valued} = Slots  BY <1>3 DEF CacheInv
      <4>2. {handles'[m] : m \in Valued \cup {n}} = {handles[m] : m \in Valued} \cup {h}
        BY <2>2, <2>5, <3>2
      <4> QED  BY <2>3, <3>1, <4>1, <4>2
    <3>4. \A m \in Valued : handles'[m] = handles[m] /\ handles[m] \in Slots
      BY <1>3, <2>5, <3>2 DEF CacheInv
    <3>5. \A l, m \in Valued' : handles'[l] = handles'[m] => l = m
      <4>1. \A l, m \in Valued : handles[l] = handles[m] => l = m  BY <1>3 DEF CacheInv
      <4> QED  BY <2>2, <2>3, <3>1, <3>4, <4>1
    <3>6. \A m \in Valued' : handles'[m].table = KindOf[nodes'[m].request.make].table
      <4>1. h.table = table  BY <2>1 DEF NewHandle
      <4> QED  BY <1>2, <1>3, <1>4, <2>2, <3>1, <3>4, <4>1 DEF CacheInv
    <3>7. DOMAIN payload' = {m \in DOMAIN handles' : IsCarrier(m)'}
      <4>1. DOMAIN payload = {m \in DOMAIN handles : IsCarrier(m)}  BY <1>3 DEF CacheInv
      <4> QED  BY <1>2, <1>6, <2>2, <2>4, <4>1
    <3>8. \A m \in DOMAIN payload' : handles'[m] = NoHandle
      BY <1>3, <1>6, <2>5 DEF CacheInv
    <3>9. DOMAIN handles' \subseteq DOMAIN nodes'  BY <1>2, <1>3, <2>2 DEF CacheInv
    <3> QED  BY <3>3, <3>5, <3>6, <3>7, <3>8, <3>9 DEF CacheInv
  <2>7. PassInv'  BY <1>1, <1>2, <1>6, PassSucceeds
  <2>8. Get(handles[n])' = value  BY <2>2, <2>3 DEF Get
  <2>9. Extends(payload, payload')  BY <1>6 DEF Extends
  <2> QED  BY <1>2, <1>6, <2>2, <2>3, <2>6, <2>7, <2>8, <2>9, Compiles
<1>7. PICK value \in Results(n) :
         \/ Fail(Current)
         \/ /\ value # Rejected /\ Succeed(n, NewHandle(table)) /\ payload' = payload
            /\ tables' = [tables EXCEPT ![table] = Stored(@, value)]
  BY <1>1, <1>4 DEF CompileNode
<1> QED  BY <1>5, <1>6, <1>7

LEMMA CarrierReadStep ==
    ASSUME LibraryInv, CarrierRead
    PROVE  LibraryInv'
<1>1. PICK n \in DOMAIN nodes : n = Current /\ n \notin DOMAIN handles
  BY CurrentNode DEF CarrierRead
<1>2. /\ Resolving /\ IsCarrier(n) /\ UNCHANGED <<program, created, nodes>> /\ nodes' = nodes
      /\ nodes[n].dep # NoKey => Compiled(Dep(n))
  BY <1>1, CurrentNode DEF CarrierRead
<1>3. NodesInv(nodes) /\ TablesInv /\ CacheInv  BY DEF LibraryInv, StoreInv
<1>4. CASE Fail(Current)
  BY <1>2, <1>4, FailStep
<1>5. CASE /\ Succeed(n, NoHandle) /\ payload' = With(payload, n, done[Main].value)
           /\ tables' = tables
  <2>1. /\ DOMAIN handles' = DOMAIN handles \cup {n} /\ Extends(handles, handles')
        /\ handles'[n] = NoHandle
    <3>1. handles' = With(handles, n, NoHandle)  BY <1>5 DEF Succeed
    <3>2. DOMAIN handles' = DOMAIN handles \cup {n} /\ Extends(handles, handles')
      BY <1>1, <3>1, Entered
    <3>3. handles'[n] = NoHandle  BY <3>1 DEF With
    <3> QED  BY <3>2, <3>3
  <2>2. n \notin DOMAIN payload  BY <1>1, <1>3 DEF CacheInv
  <2>3. DOMAIN payload' = DOMAIN payload \cup {n} /\ Extends(payload, payload')
    BY <1>5, <2>2, Entered
  <2>4. \A m : IsCarrier(m)' = IsCarrier(m)  BY <1>2 DEF IsCarrier
  <2>5. \A m \in DOMAIN handles : handles'[m] = handles[m]  BY <2>1 DEF Extends
  <2>6. Valued' = Valued /\ Slots' = Slots  BY <1>2, <1>5, <2>1, <2>4 DEF Valued, Slots
  <2>7. CacheInv'
    <3>1. \A m \in Valued : handles'[m] = handles[m]  BY <2>5 DEF Valued
    <3>2. {handles'[m] : m \in Valued'} = {handles[m] : m \in Valued}  BY <2>6, <3>1
    <3>3. DOMAIN payload' = {m \in DOMAIN handles' : IsCarrier(m)'}
      <4>1. DOMAIN payload = {m \in DOMAIN handles : IsCarrier(m)}  BY <1>3 DEF CacheInv
      <4> QED  BY <1>2, <2>1, <2>3, <2>4, <4>1
    <3>4. \A m \in DOMAIN payload' : handles'[m] = NoHandle
      <4>1. \A m \in DOMAIN payload : m \in DOMAIN handles /\ handles[m] = NoHandle
        BY <1>3 DEF CacheInv
      <4> QED  BY <2>1, <2>3, <2>5, <4>1
    <3>5. DOMAIN handles' \subseteq DOMAIN nodes'  BY <1>2, <1>3, <2>1 DEF CacheInv
    <3> QED  BY <1>2, <1>3, <2>6, <3>1, <3>2, <3>3, <3>4, <3>5 DEF CacheInv
  <2>8. TablesInv'  BY <1>3, <1>5 DEF TablesInv, Sequence
  <2>9. PassInv'  BY <1>1, <1>2, <1>5, PassSucceeds
  <2>10. \A x \in TableNames : Extends(tables[x], tables'[x])  BY <1>5 DEF Extends
  <2> QED  BY <1>2, <2>1, <2>3, <2>7, <2>8, <2>9, <2>10, Compiles
<1> QED  BY <1>1, <1>4, <1>5 DEF CarrierRead

-----------------------------------------------------------------------------
(* The theorems *)

LEMMA InitLibrary == Init => LibraryInv
  BY EmptyLibrary DEF Init

LEMMA RestartStep ==
    ASSUME LibraryInv, Restart
    PROVE  LibraryInv'
<1>1. /\ program' \in Programs /\ created' = <<>> /\ nodes' = <<>> /\ handles' = <<>>
      /\ payload' = <<>> /\ tables' = [x \in TableNames |-> <<>>] /\ pass' = NoPass
  BY DEF LibraryInv, Restart, Memory
<1>2. Sequence(<<>>) /\ DOMAIN <<>> = {} /\ Len(<<>>) = 0
  BY DEF Sequence
<1>3. NodesInv(nodes)' /\ CreatedInv(nodes)'
  BY <1>1, <1>2 DEF NodesInv, KeysOnce, DepsFirst, CreatedInv, Sequence
<1>4. DOMAIN handles' = {} /\ DOMAIN payload' = {} /\ Valued' = {} /\ Slots' = {}
  BY <1>1, <1>2 DEF Valued, Slots
<1>5. TablesInv' /\ CacheInv' /\ ValuesCurrent'
  BY <1>1, <1>2, <1>4 DEF TablesInv, CacheInv, ValuesCurrent, Sequence
<1>6. PassInv'
  <2>1. <<>> \in Reports  BY DEF Reports
  <2> QED  BY <1>1, <1>4, <2>1 DEF PassInv, NoPass
<1> QED  BY <1>1, <1>3, <1>5, <1>6 DEF LibraryInv, StoreInv

LEMMA NextLibrary ==
    ASSUME LibraryInv, [Next]_vars
    PROVE  LibraryInv'
<1>1. CASE Create  BY <1>1, CreateStep
<1>2. CASE Commit  BY <1>2, Untouched DEF Commit
<1>3. CASE BeginPass  BY <1>3, BeginPassStep
<1>4. CASE VisitNode  BY <1>4, VisitNodeStep
<1>5. CASE EndPass  BY <1>5, EndPassStep
<1>6. CASE CompileNode  BY <1>6, CompileNodeStep
<1>7. CASE ReadCarrier  BY <1>7, Untouched DEF ReadCarrier, libVars
<1>8. CASE CarrierRead  BY <1>8, CarrierReadStep
<1>9. CASE WriteExport  BY <1>9, Untouched DEF WriteExport
<1>10. CASE CallFile  BY <1>10, Untouched DEF CallFile, libVars
<1>11. CASE CallEnds  BY <1>11, Untouched DEF CallEnds
<1>12. CASE Post  BY <1>12, Untouched DEF Post
<1>13. CASE InstallExecutor  BY <1>13, Untouched DEF InstallExecutor
<1>14. CASE MainIO  BY <1>14, Untouched DEF MainIO, libVars
<1>15. ASSUME NEW w \in Workers, Work(w) PROVE LibraryInv'
  BY <1>15, Untouched DEF Work, libVars
<1>16. CASE Restart  BY <1>16, RestartStep
<1>17. CASE UNCHANGED vars  BY <1>17, Untouched DEF vars, libVars
<1> QED
  BY <1>1, <1>2, <1>3, <1>4, <1>5, <1>6, <1>7, <1>8, <1>9, <1>10, <1>11, <1>12, <1>13, <1>14, <1>15,
     <1>16, <1>17 DEF Next

LEMMA LibraryHolds == Spec => []LibraryInv
  BY InitLibrary, NextLibrary, PTL DEF Spec

\* In every state of every program the cache, the tables and the registered
\* nodes fit together, and a pass counts each node once: TypeOK.
THEOREM LibraryTyped == Spec => []TypeOK
<1>1. LibraryInv => TypeOK
  <2> SUFFICES ASSUME LibraryInv PROVE TypeOK  OBVIOUS
  <2>1. NodesInv(nodes) /\ CacheInv /\ PassInv  BY DEF LibraryInv, StoreInv
  <2>2. \A n \in DOMAIN nodes : nodes[n].dep # NoKey => HasKey(nodes, nodes[n].dep) /\ Dep(n) < n
    BY <2>1, DepBefore
  <2>3. \A m, n \in DOMAIN nodes : nodes[m].key = nodes[n].key => m = n
    BY <2>1 DEF NodesInv, KeysOnce
  <2> QED  BY <2>1, <2>2, <2>3 DEF CacheInv, PassInv, TypeOK
<1> QED  BY <1>1, LibraryHolds, PTL

\* No compiled value is ever stale or in another's slot, whatever the compilers
\* compute, however passes fail and are repeated, and across crashes:
\* ValuesCurrent.
THEOREM ValuesStayCurrent == Spec => []ValuesCurrent
<1>1. LibraryInv => ValuesCurrent  BY DEF LibraryInv
<1> QED  BY <1>1, LibraryHolds, PTL
LEMMA ShadersAreOfFiles ==
    KindOf["hlsl"].takes = "bytes" /\ KindOf["hlsl"].table = "shader"
  BY DEF KindOf, ShaderKind, FromPath

-----------------------------------------------------------------------------
(* Assets, what they were asked for and what they were made from *)

RequestsInv == \A i \in DOMAIN created : ArgumentsTyped(created[i].request)

\* What was asked for is of the types that the descriptors declare.
LEMMA NextRequests ==
    ASSUME LibraryInv, RequestsInv, [Next]_vars
    PROVE  RequestsInv'
<1>1. CASE Create
  <2>1. PICK r \in Command.one_of : created' = Append(created, [request |-> r, keys |-> Created(nodes, r).keys])
    BY <1>1 DEF Create
  <2>2. ArgumentsTyped(r)
    <3>1. program \in Programs /\ at \in DOMAIN program.script /\ Command.do = "create"
      BY <1>1 DEF Create, Ready, LibraryInv
    <3> QED  BY <2>1, <3>1, ProgramAssumption DEF Command
  <2>3. PICK e : e = [request |-> r, keys |-> Created(nodes, r).keys]  OBVIOUS
  <2>4. Sequence(created)  BY DEF LibraryInv, StoreInv, CreatedInv
  <2>5. /\ DOMAIN created' = DOMAIN created \cup {Len(created) + 1}
        /\ \A i \in DOMAIN created' : created'[i] = IF i \in DOMAIN created THEN created[i] ELSE e
    <3>1. created' = Append(created, e)  BY <2>1, <2>3
    <3> QED  BY <2>4, <3>1, Appended
  <2> QED  BY <2>2, <2>3, <2>5 DEF RequestsInv
<1>2. CASE Restart
  <2>1. created' = <<>>  BY <1>2 DEF Restart, Memory
  <2> QED  BY <2>1 DEF RequestsInv
<1>3. ASSUME ~Create, ~Restart PROVE created' = created
  BY <1>3 DEF Next, Commit, BeginPass, VisitNode, EndPass, CompileNode, ReadCarrier, CarrierRead,
     WriteExport, CallFile, CallEnds, Post, InstallExecutor, MainIO, Work, libVars, vars
<1>4. CASE created' = created  BY <1>4 DEF RequestsInv
<1> QED  BY <1>1, <1>2, <1>3, <1>4

LEMMA RequestsHold == Spec => [](LibraryInv /\ RequestsInv)
<1>1. Init => RequestsInv  BY DEF Init, RequestsInv
<1> QED  BY <1>1, NextRequests, LibraryHolds, PTL DEF Spec

\* An asset is a node that is compiled and stands for its request.
LEMMA AssetNode ==
    ASSUME LibraryInv, NEW a \in Assets
    PROVE  /\ a[1] \in DOMAIN created /\ a[2] \in DOMAIN created[a[1]].keys
           /\ NodeOf(a) \in DOMAIN nodes /\ NodeOf(a) \in DOMAIN handles
           /\ Stands(nodes[NodeOf(a)], Request(a), a[2])
<1>1. NodesInv(nodes) /\ CreatedInv(nodes)  BY DEF LibraryInv, StoreInv
<1>2. PICK i, j, r, keys : /\ i = a[1] /\ j = a[2] /\ r = created[i].request /\ keys = created[i].keys
                           /\ i \in DOMAIN created /\ j \in DOMAIN keys
  BY DEF Assets
<1>3. PICK n \in DOMAIN nodes : nodes[n].key = keys[j] /\ Stands(nodes[n], r, j)
  BY <1>1, <1>2 DEF CreatedInv, Offers
<1>4. IndexOf(nodes[n].key) = n  BY <1>1, IndexOfKey
<1>5. n = NodeOf(a) /\ n \in DOMAIN handles  BY <1>2, <1>3, <1>4 DEF NodeOf, Assets, Compiled
<1> QED  BY <1>2, <1>3, <1>5 DEF Request

\* What an asset was made from is an asset, of the table its compiler takes from.
LEMMA SourceAsset ==
    ASSUME LibraryInv, NEW a \in Assets, Wanted(a).make \in DOMAIN KindOf,
           KindOf[Wanted(a).make].takes \in TableNames
    PROVE  LET b == <<Request(a).source, 1>> IN
           /\ Request(a) = Wanted(a) /\ b \in Assets /\ SourceOf(a) = ValueOfAsset(b)
           /\ Request(b).make \in DOMAIN KindOf
           /\ KindOf[Request(b).make].table = KindOf[Wanted(a).make].takes
           /\ NodeOf(b) = IndexOf(DepKey(Wanted(a))) /\ DepKey(Wanted(a)) = created[Request(a).source].keys[1]
           /\ nodes[NodeOf(b)].request = Request(b)
<1>1. NodesInv(nodes) /\ CreatedInv(nodes) /\ CacheInv /\ ValuesCurrent
  BY DEF LibraryInv, StoreInv
<1>2. PICK n, r, j : /\ n = NodeOf(a) /\ r = Request(a) /\ j = a[2]
                     /\ n \in DOMAIN nodes /\ n \in DOMAIN handles /\ Stands(nodes[n], r, j)
  BY AssetNode
<1>3. PICK p : p = Part(r, j) /\ p = Wanted(a)  BY <1>2 DEF Wanted
<1>4. r.make # "file"
  BY <1>3, FileIsNoKind DEF Part
<1>5. nodes[n].request = p /\ nodes[n].dep = DepKey(p)  BY <1>2, <1>3, <1>4 DEF Stands
<1>6. ~IsCarrier(n)  BY <1>3, <1>5, FileIsNoKind DEF IsCarrier
<1>7. SourceFits(n) /\ (nodes[n].dep # NoKey => Dep(n) \in DOMAIN handles)
  BY <1>1, <1>2, <1>6 DEF ValuesCurrent, Results, Compiled
<1>8. PICK d : d = Dep(n) /\ d = IndexOf(DepKey(p))  BY <1>5 DEF Dep
<1>9. p = r
  <2>1. "bytes" \notin TableNames  BY DEF TableNames
  <2>2. p.make # "hlsl"  BY <1>3, <2>1, ShadersAreOfFiles
  <2> QED  BY <1>3, <2>2 DEF Part, Shader
<1>10. KindOf[r.make].from = "asset" /\ nodes[n].dep # NoKey
  <2>1. "nothing" \notin TableNames  BY DEF TableNames
  <2>2. KindOf[p.make].from = "asset"  BY <1>3, KindsKnown
  <2>3. nodes[n].dep # NoKey  BY <1>1, <1>2, <1>3, <1>5, <1>6, <2>1, KindOfNode
  <2> QED  BY <1>9, <2>2, <2>3
<1>11. PICK source : source = created[r.source]  OBVIOUS
<1>12. r.source \in DOMAIN created /\ source.keys # <<>> /\ DepKey(r) = source.keys[1]
  BY <1>5, <1>9, <1>10, <1>11 DEF DepKey, SourceKey
<1>13. d \in DOMAIN handles /\ d = IndexOf(source.keys[1])  BY <1>7, <1>8, <1>9, <1>10, <1>12
<1>14. Handle(r.source) = handles[d]  BY <1>11, <1>12, <1>13 DEF Handle, Compiled
<1>15. PICK q \in DOMAIN nodes : nodes[q].key = source.keys[1] /\ Stands(nodes[q], source.request, 1)
  BY <1>1, <1>11, <1>12 DEF CreatedInv, Offers
<1>16. q = d
  <2>1. IndexOf(nodes[q].key) = q  BY <1>1, IndexOfKey
  <2> QED  BY <1>13, <1>15, <2>1
<1>17. handles[d].table = KindOf[p.make].takes /\ handles[d].table \in TableNames \ {"shader"}
  <2>1. "bytes" \notin TableNames /\ "nothing" \notin TableNames  BY DEF TableNames
  <2>2. handles[d].table = KindOf[p.make].takes  BY <1>3, <1>5, <1>7, <1>8, <2>1 DEF SourceFits
  <2> QED  BY <1>3, <2>2, KindsKnown
<1>18. ~IsCarrier(d)
  <2>1. "none" \notin TableNames  BY DEF TableNames
  <2>2. IsCarrier(d) => handles[d] = NoHandle  BY <1>1, <1>13 DEF CacheInv
  <2> QED  BY <1>17, <2>1, <2>2 DEF NoHandle
<1>19. source.request.make # "file"  BY <1>15, <1>16, <1>18 DEF Stands, IsCarrier
<1>20. nodes[d].request = Part(source.request, 1) /\ Part(source.request, 1).make \in DOMAIN KindOf
  BY <1>15, <1>16, <1>19 DEF Stands
<1>21. handles[d].table = KindOf[nodes[d].request.make].table
  BY <1>1, <1>13, <1>18 DEF CacheInv, Valued
<1>22. source.request.make # "shaders"
  <2>1. nodes[d].request.make # "hlsl"  BY <1>17, <1>21, ShadersAreOfFiles
  <2> QED  BY <1>20, <2>1 DEF Part, Shader
<1>23. nodes[d].request = source.request  BY <1>20, <1>22 DEF Part
<1>24. PICK b : b = <<r.source, 1>> /\ b[1] = r.source /\ b[2] = 1
  <2>1. PICK b : b = <<r.source, 1>>  OBVIOUS
  <2>2. b[1] = r.source /\ b[2] = 1  BY <2>1
  <2> QED  BY <2>1, <2>2
<1>25. Request(b) = source.request /\ NodeOf(b) = d  BY <1>11, <1>13, <1>24 DEF Request, NodeOf
<1>26. b \in Assets
  <2>1. 1 \in DOMAIN source.keys  BY <1>1, <1>11, <1>12 DEF CreatedInv, Offers
  <2>2. b \in (DOMAIN created) \X (1..2)  BY <1>12, <1>24
  <2>3. Compiled(IndexOf(created[b[1]].keys[b[2]]))  BY <1>11, <1>13, <1>24 DEF Compiled
  <2> QED  BY <1>11, <1>24, <2>1, <2>2, <2>3 DEF Assets
<1>27. SourceOf(a) = ValueOfAsset(b)  BY <1>2, <1>14, <1>25 DEF SourceOf, ValueOfAsset
<1> QED
  BY <1>2, <1>3, <1>8, <1>9, <1>11, <1>12, <1>16, <1>17, <1>20, <1>21, <1>23, <1>24, <1>25, <1>26, <1>27

-----------------------------------------------------------------------------
(* What a getter leads to *)

\* The compiler of an asset was given the bytes of the file its request names,
\* or the value of the asset it was made from.
LEMMA Answers ==
    ASSUME LibraryInv
    PROVE  GettersAnswer
<1> SUFFICES ASSUME NEW a \in Assets, Request(a).make # "file"
             PROVE  ValueOfAsset(a) \in MadeOf(Wanted(a), DepKey(Wanted(a)),
                                               payload[IndexOf(DepKey(Wanted(a)))], SourceOf(a),
                                               created[Request(a).source].request.args) \ {Rejected}
  BY DEF GettersAnswer
<1>1. NodesInv(nodes) /\ CacheInv /\ ValuesCurrent  BY DEF LibraryInv, StoreInv
<1>2. PICK n, r : /\ n = NodeOf(a) /\ r = Request(a) /\ n \in DOMAIN handles
                  /\ Stands(nodes[n], r, a[2])
  BY AssetNode
<1>3. PICK p : p = Part(r, a[2]) /\ p = Wanted(a)  BY <1>2 DEF Wanted
<1>4. p.make \in DOMAIN KindOf /\ nodes[n].request = p /\ nodes[n].dep = DepKey(p)
  BY <1>2, <1>3 DEF Stands
<1>5. ~IsCarrier(n)  BY <1>4, FileIsNoKind DEF IsCarrier
<1>6. Get(handles[n]) \in Results(n) \ {Rejected} /\ SourceFits(n)
  BY <1>1, <1>2, <1>5 DEF ValuesCurrent, Results
<1>7. PICK d : d = Dep(n) /\ d = IndexOf(DepKey(p))  BY <1>4 DEF Dep
<1>8. Results(n) = MadeOf(p, DepKey(p), payload[d], Get(handles[d]), nodes[d].request.args)
  BY <1>4, <1>6, <1>7 DEF Results
<1>9. KindOf[p.make].takes \in TableNames =>
         Get(handles[d]) = SourceOf(a) /\ nodes[d].request.args = created[r.source].request.args
  <2> HAVE KindOf[p.make].takes \in TableNames
  <2>0. PICK b : b = <<Request(a).source, 1>>  OBVIOUS
  <2>1. SourceOf(a) = ValueOfAsset(b) /\ NodeOf(b) = d /\ nodes[NodeOf(b)].request = Request(b)
    BY <1>3, <1>4, <1>7, <2>0, SourceAsset
  <2>2. Request(b) = created[r.source].request
    <3>1. b[1] = r.source  BY <1>2, <2>0
    <3> QED  BY <3>1 DEF Request
  <2> QED  BY <2>1, <2>2 DEF ValueOfAsset
<1>10. PICK s, t, m, o : /\ s = Get(handles[d]) /\ t = SourceOf(a) /\ m = nodes[d].request.args
                         /\ o = created[r.source].request.args
  OBVIOUS
<1>11. MadeOf(p, DepKey(p), payload[d], s, m) = MadeOf(p, DepKey(p), payload[d], t, o)
  BY <1>4, <1>9, <1>10, MadeOfWhatItTakes
<1>12. ValueOfAsset(a) = Get(handles[n])  BY <1>2 DEF ValueOfAsset
<1> QED  BY <1>2, <1>3, <1>6, <1>7, <1>8, <1>10, <1>11, <1>12

\* Every getter leads to a value made from the arguments of its own create_...()
\* and of its own file or source, for every program, whatever the compilers
\* compute: GettersAnswer.
THEOREM GettersAnswerRequests == Spec => []GettersAnswer
  BY Answers, LibraryHolds, PTL

-----------------------------------------------------------------------------
(* The library as a caller of wz::fs *)

\* What an export makes is something that a file may hold.
TextsFit == \A id \in DOMAIN tables["export"] : [bytes |-> tables["export"][id].csv_text] \in Contents

LEMMA ExportFits ==
    ASSUME LibraryInv, TextsFit, NEW i, Handle(i).table = "export"
    PROVE  [bytes |-> Get(Handle(i)).csv_text] \in Contents
<1>1. Handle(i) # NoHandle  BY DEF NoHandle
<1>2. PICK m \in DOMAIN handles : Handle(i) = handles[m]  BY <1>1 DEF Handle, Compiled
<1>3. CacheInv  BY DEF LibraryInv, StoreInv
<1>4. ~IsCarrier(m)  BY <1>1, <1>2, <1>3 DEF CacheInv
<1>5. handles[m] \in Slots  BY <1>2, <1>3, <1>4 DEF CacheInv, Valued
<1>6. PICK h : h = Handle(i)  OBVIOUS
<1>7. h.table = "export" /\ h.id \in DOMAIN tables["export"]  BY <1>2, <1>5, <1>6, SlotOf
<1> QED  BY <1>6, <1>7 DEF Get, TextsFit

LEMMA StepUsesFiles ==
    ASSUME LibraryInv, TextsFit, [Next]_vars
    PROVE  [FileNext]_fileVars
<1>c. \A r \in Requests : Call(r) => FileNext  BY DEF FileNext
<1>0. Main \in Threads /\ Workers \subseteq Threads /\ Empty \in Contents
  BY FileAssumption DEF Threads
<1>p. program \in Programs  BY DEF LibraryInv
<1>1. CASE Create \/ Commit \/ BeginPass \/ VisitNode \/ EndPass \/ CompileNode
  BY <1>1 DEF Create, Commit, BeginPass, VisitNode, EndPass, CompileNode
<1>2. CASE ReadCarrier
  <2>1. Current \in DOMAIN nodes /\ NodesInv(nodes) /\ IsCarrier(Current)
    BY <1>2, CurrentNode DEF ReadCarrier, LibraryInv, StoreInv
  <2>2. FullPath(nodes[Current].request.args.path) \in Places
    BY <2>1, FileIsNoKind DEF NodesInv, Compilable, IsCarrier
  <2>3. PICK r : r = [doing |-> "read", place |-> FullPath(nodes[Current].request.args.path),
                      data |-> Empty, overwrite |-> TRUE]
    OBVIOUS
  <2>4. r \in Requests  BY <1>0, <2>2, <2>3 DEF Requests, Kinds
  <2> QED  BY <1>2, <1>c, <2>3, <2>4 DEF ReadCarrier
<1>3. CASE CarrierRead  BY <1>3 DEF CarrierRead, FileNext
<1>4. CASE WriteExport
  <2>1. PICK handle : handle = Handle(Command.export)  OBVIOUS
  <2>2. CASE handle.table # "export"
    BY <1>4, <2>1, <2>2 DEF WriteExport
  <2>3. CASE handle.table = "export"
    <3>1. PICK r : r = [doing |-> "write", place |-> Command.place,
                        data |-> [bytes |-> Get(handle).csv_text], overwrite |-> TRUE]
      OBVIOUS
    <3>2. [bytes |-> Get(handle).csv_text] \in Contents  BY <2>1, <2>3, ExportFits
    <3>3. Command.place \in Places
      BY <1>4, <1>p, ProgramAssumption DEF WriteExport, Ready, Command
    <3>4. r \in Requests  BY <3>1, <3>2, <3>3 DEF Requests, Kinds
    <3> QED  BY <1>4, <1>c, <2>1, <2>3, <3>1, <3>4 DEF WriteExport
  <2> QED  BY <2>2, <2>3
<1>5. CASE CallFile
  <2>1. Command.request \in Requests
    BY <1>5, <1>p, ProgramAssumption DEF CallFile, Ready, Command
  <2> QED  BY <1>5, <1>c, <2>1 DEF CallFile
<1>6. CASE CallEnds  BY <1>6 DEF CallEnds, FileNext
<1>7. CASE Post
  <2>1. Command.call \in Calls /\ Command.request \in Requests
    BY <1>7, <1>p, ProgramAssumption DEF Post, Ready, Command
  <2> QED  BY <1>7, <2>1 DEF Post, FileNext
<1>8. CASE InstallExecutor  BY <1>8 DEF InstallExecutor, FileNext
<1>9. CASE MainIO  BY <1>0, <1>9 DEF MainIO, FileNext
<1>10. ASSUME NEW w \in Workers, Work(w) PROVE FileNext
  BY <1>0, <1>10 DEF Work, WorkerStep, FileNext
<1>11. CASE Restart  BY <1>11 DEF Restart, FileNext
<1>12. CASE UNCHANGED vars  BY <1>12 DEF vars
<1> QED
  BY <1>1, <1>2, <1>3, <1>4, <1>5, <1>6, <1>7, <1>8, <1>9, <1>10, <1>11, <1>12 DEF Next

\* Every program over the library uses wz::fs as FileStore allows, as long as
\* what it exports is something a file may hold: FileSpec.
THEOREM LibraryUsesFiles == Spec /\ []TextsFit => FileSpec
<1>1. Init => \E disk \in [Places -> Contents \cup {NoFile}] : FileInit(disk)
  BY ProgramAssumption DEF Init
<1> QED  BY <1>1, StepUsesFiles, LibraryHolds, PTL DEF Spec, FileSpec

\* Whatever the library and its workers do to the same files, a read returns
\* the whole of what was stored: ReadsAreWhole.
THEOREM LibraryReadsWhole == Spec /\ []TextsFit => []ReadsAreWhole
  BY LibraryUsesFiles, ReadsWhole, PTL
-----------------------------------------------------------------------------
(* Tables that are exported and read back *)

\* What each compiler of a table, a diagnostic or a text makes.
LEMMA MadeOfTables ==
    ASSUME NEW r, NEW key, NEW bytes, NEW s, NEW m
    PROVE  /\ r.make = "table" => MadeOf(r, key, bytes, s, m) = {r.args.table}
           /\ r.make = "series" => MadeOf(r, key, bytes, s, m) = SeriesResults(r.args, s)
           /\ r.make = "summary" => MadeOf(r, key, bytes, s, m) = {SummaryResult(r.args, s)}
           /\ r.make = "seriesView" => MadeOf(r, key, bytes, s, m) = {SeriesViewResult(s, m)}
           /\ r.make = "summaryView" => MadeOf(r, key, bytes, s, m) = {SummaryViewResult(s, m)}
           /\ r.make = "export" => MadeOf(r, key, bytes, s, m) = {ExportResult(r.args, s)}
           /\ r.make = "csv" => MadeOf(r, key, bytes, s, m) = {CsvResult(r.args, bytes)}
  BY DEF MadeOf, TableResult

\* The kinds that fill the tables of the diagnostics, and what they take.
LEMMA TableKinds ==
    /\ \A make \in DOMAIN KindOf :
          /\ KindOf[make].table = "data" => make \in {"table", "seriesView", "summaryView"}
          /\ KindOf[make].table = "series" => make = "series"
          /\ KindOf[make].table = "summary" => make = "summary"
    /\ \A make \in {"series", "summary", "export"} :
          make \in DOMAIN KindOf /\ KindOf[make].takes = "data"
    /\ "seriesView" \in DOMAIN KindOf /\ KindOf["seriesView"].takes = "series"
    /\ "summaryView" \in DOMAIN KindOf /\ KindOf["summaryView"].takes = "summary"
    /\ {"csv", "table"} \subseteq DOMAIN KindOf
    /\ {"data", "series", "summary"} \subseteq TableNames
  BY DEF KindOf, TableNames, FromPath, FromAsset, FromNothing,
     CsvKind, JsonKind, TomlKind, ShaderKind, FieldKind, PatternKind, ShapeKind, GlbKind, CloudKind,
     PlyKind, TableKind, SeriesKind, SeriesViewKind, SummaryKind, SummaryViewKind, ExportKind,
     MeshShownKind, CloudShownKind, FieldShownKind

\* What the getter of an asset that is neither a file nor a pair of shaders
\* leads to.
LEMMA AssetValue ==
    ASSUME LibraryInv, NEW a \in Assets, Request(a).make \in DOMAIN KindOf
    PROVE  LET r == Request(a)  source == DepKey(r) IN
           /\ Wanted(a) = r /\ ValueOfAsset(a) # Rejected
           /\ ValueOfAsset(a) \in MadeOf(r, source, payload[IndexOf(source)], SourceOf(a),
                                         created[r.source].request.args)
           /\ nodes[NodeOf(a)].dep = source /\ NodeOf(a) \in DOMAIN handles
           /\ Dep(NodeOf(a)) = IndexOf(source)
<1>1. Request(a).make # "file" /\ Request(a).make # "shaders"  BY FileIsNoKind
<1>2. Wanted(a) = Request(a)  BY <1>1 DEF Wanted, Part
<1>3. Stands(nodes[NodeOf(a)], Request(a), a[2]) /\ NodeOf(a) \in DOMAIN handles  BY AssetNode
<1>4. nodes[NodeOf(a)].dep = DepKey(Request(a))  BY <1>1, <1>2, <1>3 DEF Stands, Wanted
<1>5. Dep(NodeOf(a)) = IndexOf(DepKey(Request(a)))  BY <1>4 DEF Dep
<1>6. ValueOfAsset(a) \in MadeOf(Wanted(a), DepKey(Wanted(a)), payload[IndexOf(DepKey(Wanted(a)))],
                                 SourceOf(a), created[Request(a).source].request.args) \ {Rejected}
  BY <1>1, Answers, Zenon DEF GettersAnswer
<1> QED  BY <1>2, <1>3, <1>4, <1>5, <1>6

\* A series that is made was made of a table it could be made of.
LEMMA MadeSeries ==
    ASSUME LibraryInv, RequestsInv, NEW a \in Assets, Request(a).make = "series"
    PROVE  LET d == Request(a).args IN
           /\ CanResample(SourceOf(a), d)
           /\ \E how \in Casts : ValueOfAsset(a) = Resample(SourceOf(a), d, how)
           /\ IsTexts(d.metrics) /\ {d.width, d.start, d.end} \subseteq Int
<1>1. PICK r : r = Request(a) /\ r.make = "series" /\ r.make \in DOMAIN KindOf  BY TableKinds
<1>2. ValueOfAsset(a) # Rejected /\ ValueOfAsset(a) \in SeriesResults(r.args, SourceOf(a))
  BY <1>1, AssetValue, MadeOfTables
<1>3. ArgumentsTyped(r)  BY <1>1, AssetNode DEF RequestsInv, Request
<1>4. IsTexts(r.args.metrics) /\ {r.args.width, r.args.start, r.args.end} \subseteq Int
  BY <1>1, <1>3 DEF ArgumentsTyped
<1> QED  BY <1>1, <1>2, <1>4 DEF SeriesResults

LEMMA MadeSummary ==
    ASSUME LibraryInv, RequestsInv, NEW a \in Assets, Request(a).make = "summary"
    PROVE  LET d == Request(a).args IN
           /\ CanSummarize(SourceOf(a), d) /\ ValueOfAsset(a) = Summarize(SourceOf(a), d)
           /\ IsTexts(d.metrics) /\ {d.frame_start, d.frame_end, d.fpb} \subseteq 0..Word - 1
<1>1. PICK r : r = Request(a) /\ r.make = "summary" /\ r.make \in DOMAIN KindOf  BY TableKinds
<1>2. ValueOfAsset(a) # Rejected /\ ValueOfAsset(a) = SummaryResult(r.args, SourceOf(a))
  BY <1>1, AssetValue, MadeOfTables
<1>3. ArgumentsTyped(r)  BY <1>1, AssetNode DEF RequestsInv, Request
<1>4. IsTexts(r.args.metrics) /\ {r.args.frame_start, r.args.frame_end, r.args.fpb} \subseteq 0..Word - 1
  BY <1>1, <1>3 DEF ArgumentsTyped
<1> QED  BY <1>1, <1>2, <1>4 DEF SummaryResult

\* The value of an asset in the data tables' table is a table: the one its
\* create_...() was given, or the view of a series or of a summary.
LEMMA TableAsset ==
    ASSUME LibraryInv, RequestsInv, NEW b \in Assets, Request(b).make \in DOMAIN KindOf,
           KindOf[Request(b).make].table = "data"
    PROVE  IsTable(ValueOfAsset(b))
<1>1. PICK r : r = Request(b) /\ r.make \in DOMAIN KindOf /\ r.make \in {"table", "seriesView", "summaryView"}
  BY TableKinds
<1>2. Wanted(b) = r /\ ValueOfAsset(b) # Rejected
  BY <1>1, AssetValue
<1>3. CASE r.make = "table"
  <2>1. ValueOfAsset(b) = r.args.table  BY <1>1, <1>3, AssetValue, MadeOfTables
  <2>2. ArgumentsTyped(r)  BY <1>1, AssetNode DEF RequestsInv, Request
  <2> QED  BY <1>3, <2>1, <2>2 DEF ArgumentsTyped
<1>4. PICK c, e : c = <<r.source, 1>> /\ e = created[r.source].request.args  OBVIOUS
<1>5. ASSUME KindOf[r.make].takes \in TableNames
      PROVE  /\ c \in Assets /\ SourceOf(b) = ValueOfAsset(c) /\ Request(c).make \in DOMAIN KindOf
             /\ KindOf[Request(c).make].table = KindOf[r.make].takes /\ Request(c).args = e
  <2>1. /\ c \in Assets /\ SourceOf(b) = ValueOfAsset(c) /\ Request(c).make \in DOMAIN KindOf
        /\ KindOf[Request(c).make].table = KindOf[r.make].takes
    BY <1>1, <1>2, <1>4, <1>5, SourceAsset
  <2>2. c[1] = r.source  BY <1>4
  <2>3. Request(c).args = e  BY <1>4, <2>2 DEF Request
  <2> QED  BY <2>1, <2>3
<1>6. CASE r.make = "seriesView"
  <2>1. KindOf[r.make].takes = "series" /\ "series" \in TableNames  BY <1>6, TableKinds
  <2>2. c \in Assets /\ SourceOf(b) = ValueOfAsset(c) /\ Request(c).make = "series" /\ Request(c).args = e
    BY <1>5, <2>1, TableKinds
  <2>3. PICK how \in Casts : /\ ValueOfAsset(c) = Resample(SourceOf(c), e, how)
                             /\ IsTexts(e.metrics)
    BY <2>2, MadeSeries
  <2>4. ValueOfAsset(b) = SeriesViewResult(SourceOf(b), e)
    BY <1>1, <1>4, <1>6, AssetValue, MadeOfTables
  <2>5. ValueOfAsset(b) = SeriesTable(Resample(SourceOf(c), e, how), e)
    BY <1>2, <2>2, <2>3, <2>4 DEF SeriesViewResult
  <2> QED  BY <2>3, <2>5, SeriesTableIsTable
<1>7. CASE r.make = "summaryView"
  <2>1. KindOf[r.make].takes = "summary" /\ "summary" \in TableNames  BY <1>7, TableKinds
  <2>2. c \in Assets /\ SourceOf(b) = ValueOfAsset(c) /\ Request(c).make = "summary" /\ Request(c).args = e
    BY <1>5, <2>1, TableKinds
  <2>3. /\ CanSummarize(SourceOf(c), e) /\ ValueOfAsset(c) = Summarize(SourceOf(c), e)
        /\ IsTexts(e.metrics) /\ {e.frame_start, e.frame_end, e.fpb} \subseteq 0..Word - 1
    BY <2>2, MadeSummary
  <2>4. ValueOfAsset(b) = SummaryViewResult(SourceOf(b), e)
    BY <1>1, <1>4, <1>7, AssetValue, MadeOfTables
  <2>5. ValueOfAsset(b) = SummaryTable(Summarize(SourceOf(c), e), e)
    BY <1>2, <2>2, <2>3, <2>4 DEF SummaryViewResult
  <2> QED  BY <2>3, <2>5, SummaryTableIsTable
<1> QED  BY <1>1, <1>3, <1>6, <1>7

\* So is what a diagnostic or an export is made from.
LEMMA SourceIsTable ==
    ASSUME LibraryInv, RequestsInv, NEW a \in Assets, Request(a).make \in {"series", "summary", "export"}
    PROVE  IsTable(SourceOf(a))
<1>1. PICK r : /\ r = Request(a) /\ r.make \in DOMAIN KindOf /\ KindOf[r.make].takes = "data"
               /\ "data" \in TableNames
  BY TableKinds
<1>2. Wanted(a) = r  BY <1>1, AssetValue
<1>3. PICK b : b = <<r.source, 1>>  OBVIOUS
<1>4. /\ b \in Assets /\ SourceOf(a) = ValueOfAsset(b) /\ Request(b).make \in DOMAIN KindOf
      /\ KindOf[Request(b).make].table = "data"
  BY <1>1, <1>2, <1>3, SourceAsset
<1> QED  BY <1>4, TableAsset

\* Whatever is created, exported, written over, read again and compiled, in any
\* order and across crashes, a CSV asset that reads the text of an export gives
\* back the cells of the table that was exported: ExportReadsBack.
THEOREM ExportsReadBack == Spec => []ExportReadsBack
<1>1. LibraryInv /\ RequestsInv => ExportReadsBack
  <2> SUFFICES ASSUME LibraryInv, RequestsInv, NEW e \in Made("export"), NEW c \in Made("csv"),
                      payload[Dep(NodeOf(c))] = [bytes |-> ValueOfAsset(e).csv_text],
                      Request(e).args.separator = Comma, Plain(Request(e).args, Request(c).args)
               PROVE  /\ ValueOfAsset(c).rows = SourceOf(e).rows
                      /\ ValueOfAsset(c).headers =
                            IF Request(e).args.include_header THEN SourceOf(e).columns ELSE <<>>
    BY DEF ExportReadsBack
  <2>1. e \in Assets /\ c \in Assets /\ Request(e).make = "export" /\ Request(c).make = "csv"
    BY DEF Made, Request
  <2>2. PICK t, a, m : t = SourceOf(e) /\ a = Request(e).args /\ m = Request(c).args.header_mode
    OBVIOUS
  <2>3. IsTable(t)  BY <2>1, <2>2, SourceIsTable
  <2>4. "export" \in DOMAIN KindOf /\ "csv" \in DOMAIN KindOf  BY TableKinds
  <2>5. ValueOfAsset(e) = ExportResult(a, t) /\ ValueOfAsset(e) # Rejected
    BY <2>1, <2>2, <2>4, AssetValue, MadeOfTables
  <2>6. TableValid(t) /\ ValueOfAsset(e).csv_text = BuildCsv(t, Comma, a.include_header)
    BY <2>2, <2>5 DEF ExportResult
  <2>7. PICK bytes : /\ bytes = payload[Dep(NodeOf(c))]
                     /\ bytes = payload[IndexOf(DepKey(Request(c)))]
    BY <2>1, <2>4, AssetValue
  <2>8. ValueOfAsset(c) = CsvResult(Request(c).args, bytes)
    BY <2>1, <2>4, <2>7, AssetValue, MadeOfTables
  <2>9. Field(bytes, "bytes", <<>>) = BuildCsv(t, Comma, a.include_header)
    BY <2>6, <2>7 DEF Field
  <2>10. ValueOfAsset(c) = ParseCsv(BuildCsv(t, Comma, a.include_header), m)
    BY <2>2, <2>8, <2>9 DEF CsvResult
  <2>11. a.include_header \in BOOLEAN
    <3>1. ArgumentsTyped(Request(e))  BY <2>1, AssetNode DEF RequestsInv, Request
    <3> QED  BY <2>1, <2>2, <3>1 DEF ArgumentsTyped
  <2>12. m = IF a.include_header THEN "ForceHeader" ELSE "ForceData"
    BY <2>2, <2>11 DEF Plain
  <2> QED  BY <2>2, <2>3, <2>6, <2>10, <2>11, <2>12, CsvRoundTrip
<1> QED  BY <1>1, RequestsHold, PTL

-----------------------------------------------------------------------------
(* Rows of a table, in series and in summaries *)

\* However passes are repeated and carriers and sources shared, each bucket of
\* each series and summary is made from the rows it covers, and no row of the
\* table is lost or counted twice: RowsAccounted.
THEOREM RowsAreAccounted == Spec => []RowsAccounted
<1>1. LibraryInv /\ RequestsInv => RowsAccounted
  <2> SUFFICES ASSUME LibraryInv, RequestsInv PROVE RowsAccounted  OBVIOUS
  <2>1. ASSUME NEW a \in Made("series")
        PROVE  SeriesAccounts(SourceOf(a), Request(a).args, ValueOfAsset(a))
    <3>1. a \in Assets /\ Request(a).make = "series"  BY DEF Made, Request
    <3>2. IsTable(SourceOf(a))  BY <3>1, SourceIsTable
    <3>3. PICK t, d : t = SourceOf(a) /\ d = Request(a).args  OBVIOUS
    <3>4. PICK how : /\ CanResample(t, d) /\ ValueOfAsset(a) = Resample(t, d, how)
                     /\ IsTexts(d.metrics) /\ {d.width, d.start, d.end} \subseteq Int
      BY <3>1, <3>3, MadeSeries
    <3>5. SeriesAccounts(t, d, Resample(t, d, how))  BY <3>2, <3>3, <3>4, SeriesAccounted
    <3> QED  BY <3>3, <3>4, <3>5
  <2>2. ASSUME NEW a \in Made("summary"), Request(a).args.frame_end + Request(a).args.fpb < Word
        PROVE  SummaryAccounts(SourceOf(a), Request(a).args, ValueOfAsset(a))
    <3>1. a \in Assets /\ Request(a).make = "summary"  BY DEF Made, Request
    <3>2. IsTable(SourceOf(a))  BY <3>1, SourceIsTable
    <3>3. PICK t, d : t = SourceOf(a) /\ d = Request(a).args  OBVIOUS
    <3>4. /\ CanSummarize(t, d) /\ ValueOfAsset(a) = Summarize(t, d)
          /\ IsTexts(d.metrics) /\ {d.frame_start, d.frame_end, d.fpb} \subseteq 0..Word - 1
      BY <3>1, <3>3, MadeSummary
    <3>5. SummaryAccounts(t, d, Summarize(t, d))  BY <2>2, <3>2, <3>3, <3>4, SummaryAccounted
    <3> QED  BY <3>3, <3>4, <3>5
  <2> QED  BY <2>1, <2>2 DEF RowsAccounted
<1> QED  BY <1>1, RequestsHold, PTL

-----------------------------------------------------------------------------
(* Carriers hold what files hold *)

\* The external parsers find in a file what ContentTyped says of it.
ContentsTyped == \A content \in Contents : ContentTyped(content)

\* What a call returns is what some file may hold.
ValuesExist == \A t \in Threads : done[t].value \in Contents

LEMMA ReturnsContents ==
    ASSUME FileTypeOK, ValuesExist, NEW t \in Threads, NEW e, NEW v \in Contents, Return(t, e, v)
    PROVE  ValuesExist'
<1>1. done' = [done EXCEPT ![t] = [of |-> op[t].request, error |-> e, value |-> v]]
      /\ DOMAIN done = Threads
  BY DEF Return, FileTypeOK
<1>2. \A u \in Threads : done'[u].value = IF u = t THEN v ELSE done[u].value  BY <1>1
<1> QED  BY <1>2 DEF ValuesExist

LEMMA NextValues ==
    ASSUME FileInv, ValuesExist, [FileNext]_fileVars
    PROVE  ValuesExist'
<1>0. FileTypeOK /\ HeldExist /\ Empty \in Contents /\ NoResult.value = Empty
  BY FileAssumption DEF FileInv, NoResult
<1>1. CASE done' = done  BY <1>1 DEF ValuesExist
<1>2. ASSUME NEW t \in Threads, FileStep(t) PROVE ValuesExist'
  <2>1. Holds(t) => files[Place(t)] \in Contents
    <3>1. files[Place(t)] \in Contents \cup {NoFile}  BY <1>0, OpTyped DEF Files
    <3> QED  BY <1>0, <3>1 DEF HeldExist, Exists
  <2>2. CASE OpenFails(t)  BY <1>0, <2>2, ReturnsContents DEF OpenFails
  <2>3. CASE Open(t)  BY <1>1, <2>3 DEF Open
  <2>4. CASE GetSize(t)
    <3>1. CASE Return(t, "None", files[Place(t)])
      BY <1>0, <2>1, <2>4, <3>1, ReturnsContents DEF GetSize
    <3> QED  BY <1>1, <2>4, <3>1 DEF GetSize
  <2>5. CASE ReadFile(t)  BY <1>0, <2>1, <2>5, ReturnsContents DEF ReadFile
  <2>6. CASE WriteFile(t)  BY <1>0, <2>6, ReturnsContents DEF WriteFile
  <2>7. CASE TransferFails(t)  BY <1>0, <2>7, ReturnsContents DEF TransferFails
  <2>8. CASE DeleteFile(t)
    <3>1. \E e : Return(t, e, Empty)  BY <2>8, Zenon DEF DeleteFile
    <3> QED  BY <1>0, <3>1, ReturnsContents
  <2> QED  BY <1>2, <2>2, <2>3, <2>4, <2>5, <2>6, <2>7, <2>8 DEF FileStep
<1>3. ASSUME NEW u \in Threads, done' = [done EXCEPT ![u] = NoResult] PROVE ValuesExist'
  <2>1. DOMAIN done = Threads  BY <1>0 DEF FileTypeOK
  <2>2. \A t \in Threads : done'[t] = IF t = u THEN NoResult ELSE done[t]  BY <1>3, <2>1
  <2> QED  BY <1>0, <2>2 DEF ValuesExist
<1>4. CASE FileCrash
  <2>1. done' = [t \in Threads |-> NoResult]  BY <1>4 DEF FileCrash
  <2> QED  BY <1>0, <2>1 DEF ValuesExist
<1>5. CASE Look
  <2>1. Main \in Threads  BY DEF Threads
  <2> QED  BY <1>3, <1>5, <2>1 DEF Look
<1>6. ASSUME NEW w \in Workers, NEW c \in Calls, Callback(w, c) PROVE ValuesExist'
  <2>1. w \in Threads  BY DEF Threads
  <2> QED  BY <1>3, <1>6, <2>1 DEF Callback
<1>7. CASE \/ \E r \in Requests : Call(r)
           \/ \E c \in Calls, r \in Requests : Async(c, r)
           \/ \E w \in Workers, c \in Calls : TakeJob(w, c)
           \/ SetExecutor \/ UNCHANGED fileVars
  <2>1. done' = done  BY <1>7 DEF Call, Async, TakeJob, SetExecutor, fileVars
  <2> QED  BY <1>1, <2>1
<1> QED  BY <1>2, <1>4, <1>5, <1>6, <1>7 DEF FileNext

LEMMA ValuesHold == FileSpec => []ValuesExist
<1>1. ASSUME NEW disk \in [Places -> Contents \cup {NoFile}], FileInit(disk)
      PROVE  FileInv /\ ValuesExist
  <2>1. FileInv  BY <1>1, InitFileInv DEF Files
  <2>2. Empty \in Contents /\ NoResult.value = Empty  BY FileAssumption DEF NoResult
  <2> QED  BY <1>1, <2>1, <2>2 DEF FileInit, ValuesExist
<1>2. (\E disk \in [Places -> Contents \cup {NoFile}] : FileInit(disk)) => FileInv /\ ValuesExist
  BY <1>1
<1>3. FileInv /\ ValuesExist /\ [FileNext]_fileVars => (FileInv /\ ValuesExist)'
  BY NextKeeps, NextValues
<1> QED  BY <1>2, <1>3, PTL DEF FileSpec

\* The bytes of a compiled carrier, and the spheres that were not refused.
PayloadInv == \A n \in DOMAIN payload : payload[n] \in Contents
SpheresInv ==
    \A i \in DOMAIN created :
        created[i].request.make = "cloud" /\ created[i].keys # <<>>
            => SphereAccepted(created[i].request.args)

LEMMA NextPayload ==
    ASSUME LibraryInv, ValuesExist, PayloadInv, [Next]_vars
    PROVE  PayloadInv'
<1>1. CASE payload' = payload  BY <1>1 DEF PayloadInv
<1>2. CASE CarrierRead
  <2>1. CASE Fail(Current)  BY <1>1, <2>1 DEF Fail
  <2>2. CASE payload' = With(payload, Current, done[Main].value)
    <3>1. Main \in Threads  BY DEF Threads
    <3>2. PICK v \in Contents : v = done[Main].value  BY <3>1 DEF ValuesExist
    <3>3. \A n \in DOMAIN payload' : payload'[n] = v \/ (n \in DOMAIN payload /\ payload'[n] = payload[n])
      BY <2>2, <3>2 DEF With
    <3> QED  BY <3>3 DEF PayloadInv
  <2> QED  BY <1>2, <2>1, <2>2 DEF CarrierRead
<1>3. CASE Restart
  <2>1. payload' = <<>>  BY <1>3 DEF Restart, Memory
  <2> QED  BY <2>1 DEF PayloadInv
<1>4. CASE CompileNode
  <2>1. payload' = payload  BY <1>4 DEF CompileNode, Fail
  <2> QED  BY <1>1, <2>1
<1>5. ASSUME ~CarrierRead, ~Restart, ~CompileNode PROVE payload' = payload
  BY <1>5 DEF Next, Create, Commit, BeginPass, VisitNode, EndPass, ReadCarrier,
     WriteExport, CallFile, CallEnds, Post, InstallExecutor, MainIO, Work, libVars, vars
<1> QED  BY <1>1, <1>2, <1>3, <1>4, <1>5

LEMMA NextSpheres ==
    ASSUME LibraryInv, SpheresInv, [Next]_vars
    PROVE  SpheresInv'
<1>1. CASE Create
  <2>1. PICK r \in Command.one_of : created' = Append(created, [request |-> r, keys |-> Created(nodes, r).keys])
    BY <1>1 DEF Create
  <2>2. ASSUME r.make = "cloud", Created(nodes, r).keys # <<>> PROVE SphereAccepted(r.args)
    <3>1. Created(nodes, r) = Register(nodes, r)  BY <2>2 DEF Created
    <3>2. Accepted(r)
      <4>1. ~Accepted(r) => Register(nodes, r) = [nodes |-> nodes, keys |-> <<>>]
        BY Zenon DEF Register
      <4> QED  BY <2>2, <3>1, <4>1
    <3> QED  BY <2>2, <3>2 DEF Accepted
  <2>3. PICK e : e = [request |-> r, keys |-> Created(nodes, r).keys]  OBVIOUS
  <2>4. Sequence(created)  BY DEF LibraryInv, StoreInv, CreatedInv
  <2>5. /\ DOMAIN created' = DOMAIN created \cup {Len(created) + 1}
        /\ \A i \in DOMAIN created' : created'[i] = IF i \in DOMAIN created THEN created[i] ELSE e
    <3>1. created' = Append(created, e)  BY <2>1, <2>3
    <3> QED  BY <2>4, <3>1, Appended DEF Extends
  <2>6. e.request.make = "cloud" /\ e.keys # <<>> => SphereAccepted(e.request.args)
    BY <2>2, <2>3
  <2> QED  BY <2>5, <2>6 DEF SpheresInv
<1>2. CASE Restart
  <2>1. created' = <<>>  BY <1>2 DEF Restart, Memory
  <2> QED  BY <2>1 DEF SpheresInv
<1>3. ASSUME ~Create, ~Restart PROVE created' = created
  BY <1>3 DEF Next, Commit, BeginPass, VisitNode, EndPass, CompileNode, ReadCarrier, CarrierRead,
     WriteExport, CallFile, CallEnds, Post, InstallExecutor, MainIO, Work, libVars, vars
<1>4. CASE created' = created  BY <1>4 DEF SpheresInv
<1> QED  BY <1>1, <1>2, <1>3, <1>4

\* All that the values are described from.
BuildInv == LibraryInv /\ RequestsInv /\ SpheresInv /\ PayloadInv

LEMMA BuildHolds == Spec /\ []TextsFit => []BuildInv
<1>1. Init => SpheresInv /\ PayloadInv  BY DEF Init, SpheresInv, PayloadInv
<1>2. LibraryInv /\ ValuesExist /\ SpheresInv /\ PayloadInv /\ [Next]_vars => (SpheresInv /\ PayloadInv)'
  BY NextPayload, NextSpheres
<1>3. Spec /\ []TextsFit => []ValuesExist  BY LibraryUsesFiles, ValuesHold, PTL
<1> QED  BY <1>1, <1>2, <1>3, RequestsHold, PTL DEF Spec, BuildInv

-----------------------------------------------------------------------------
(* Values that are what was asked for *)

\* What the other compilers make.
LEMMA MadeOfOthers ==
    ASSUME NEW r, NEW key, NEW bytes, NEW s, NEW m
    PROVE  /\ r.make = "json" => MadeOf(r, key, bytes, s, m) = {JsonResult(bytes)}
           /\ r.make = "toml" => MadeOf(r, key, bytes, s, m) = {TomlResult(bytes)}
           /\ r.make = "hlsl" => MadeOf(r, key, bytes, s, m) = {ShaderResult(r.args, bytes)}
           /\ r.make = "field" => MadeOf(r, key, bytes, s, m) = {FieldResult(r.args, bytes)}
           /\ r.make = "pattern" => MadeOf(r, key, bytes, s, m) = {MadeField(r.args)}
           /\ r.make = "mesh" => MadeOf(r, key, bytes, s, m) = {ProceduralMesh(r.args.kind)}
           /\ r.make = "glb" => MadeOf(r, key, bytes, s, m) = {GlbResult(bytes)}
           /\ r.make = "cloud" => MadeOf(r, key, bytes, s, m) = {SphereCloud(r.args)}
           /\ r.make = "ply" => MadeOf(r, key, bytes, s, m) = PlyResults(bytes)
           /\ r.make = "meshShown" => MadeOf(r, key, bytes, s, m) = {MeshShownResult(key, s)}
           /\ r.make = "fieldShown" => MadeOf(r, key, bytes, s, m) = {FieldRenderable(key)}
           /\ r.make = "cloudShown" => MadeOf(r, key, bytes, s, m) = {CloudRenderable(key, s)}
  BY DEF MadeOf

\* The kinds that are made from bytes, and those that show an asset.
LEMMA ByteKinds ==
    /\ \A make \in {"csv", "json", "toml", "hlsl", "field", "glb", "ply"} :
          make \in DOMAIN KindOf /\ KindOf[make].takes = "bytes"
    /\ \A make \in {"meshShown", "fieldShown", "cloudShown"} :
          make \in DOMAIN KindOf /\ KindOf[make].takes \in TableNames
    /\ {"pattern", "mesh", "cloud"} \subseteq DOMAIN KindOf
  BY DEF KindOf, TableNames, FromPath, FromAsset, FromNothing,
     CsvKind, JsonKind, TomlKind, ShaderKind, FieldKind, PatternKind, ShapeKind, GlbKind, CloudKind,
     PlyKind, MeshShownKind, CloudShownKind, FieldShownKind

\* The bytes that an asset was made from are what some file may hold.
LEMMA BytesRead ==
    ASSUME LibraryInv, PayloadInv, NEW a \in Assets, Request(a).make \in DOMAIN KindOf,
           KindOf[Request(a).make].takes = "bytes"
    PROVE  payload[Dep(NodeOf(a))] \in Contents
<1>1. PICK n, r : /\ n = NodeOf(a) /\ r = Request(a) /\ n \in DOMAIN handles
                  /\ Stands(nodes[n], r, a[2])
  BY AssetNode
<1>2. r.make # "file" /\ r.make # "shaders"  BY <1>1, FileIsNoKind
<1>3. nodes[n].request = r  BY <1>1, <1>2 DEF Stands, Part
<1>4. ~IsCarrier(n)  BY <1>2, <1>3 DEF IsCarrier
<1>5. SourceFits(n)  BY <1>1, <1>4 DEF LibraryInv, ValuesCurrent, Results
<1>6. Dep(n) \in DOMAIN payload  BY <1>1, <1>3, <1>5 DEF SourceFits
<1> QED  BY <1>1, <1>6 DEF PayloadInv

\* Documents, shaders and the header of a CSV file.
LEMMA TextsDescribed ==
    ASSUME ContentsTyped, BuildInv, NEW a \in Assets,
           Request(a).make \in {"json", "toml", "csv", "shaders"}
    PROVE  Describes(a)
<1>1. LibraryInv /\ PayloadInv  BY DEF BuildInv
<1>2. PICK r : r = Request(a)  OBVIOUS
<1>3. PICK v : v = ValueOfAsset(a)  OBVIOUS
<1>4. PICK b : b = payload[Dep(NodeOf(a))]  OBVIOUS
<1>5. ASSUME r.make \in DOMAIN KindOf
      PROVE  \E key, s, m : v \in MadeOf(r, key, b, s, m) \ {Rejected}
  <2>1. LET source == DepKey(r) IN
        /\ v # Rejected
        /\ v \in MadeOf(r, source, payload[IndexOf(source)], SourceOf(a), created[r.source].request.args)
        /\ Dep(NodeOf(a)) = IndexOf(source)
    BY <1>1, <1>2, <1>3, <1>5, AssetValue, Zenon
  <2> QED  BY <1>4, <2>1
<1>6. CASE r.make = "json"
  <2>1. v = JsonResult(b) /\ v # Rejected  BY <1>5, <1>6, ByteKinds, MadeOfOthers
  <2>2. v.document = b.json  BY <2>1 DEF JsonResult
  <2> QED  BY <1>2, <1>3, <1>4, <1>6, <2>2 DEF Describes
<1>7. CASE r.make = "toml"
  <2>1. v = TomlResult(b) /\ v # Rejected  BY <1>5, <1>7, ByteKinds, MadeOfOthers
  <2>2. v.document = b.toml  BY <2>1 DEF TomlResult
  <2> QED  BY <1>2, <1>3, <1>4, <1>7, <2>2 DEF Describes
<1>8. CASE r.make = "csv"
  <2>1. v = CsvResult(r.args, b)  BY <1>5, <1>8, ByteKinds, MadeOfTables
  <2>2. PICK text : text = Field(b, "bytes", <<>>)  OBVIOUS
  <2>3. IsSequence(text)
    <3>1. b \in Contents  BY <1>1, <1>2, <1>4, <1>8, ByteKinds, BytesRead
    <3> QED  BY <2>2, <3>1 DEF ContentsTyped, ContentTyped
  <2>4. PICK mode : mode = r.args.header_mode  OBVIOUS
  <2>5. v = ParseCsv(text, mode)  BY <2>1, <2>2, <2>4 DEF CsvResult
  <2>6. v.has_header => v.headers # <<>> /\ mode # "ForceData"  BY <2>3, <2>5, HeaderIsRow
  <2> QED  BY <1>2, <1>3, <1>8, <2>4, <2>6 DEF Describes
<1>9. CASE r.make = "shaders"
  <2>1. PICK wanted : wanted = IF a[2] = 1 THEN r.args.vertex ELSE r.args.pixel  OBVIOUS
  <2>2. Wanted(a) = Shader(wanted)  BY <1>2, <1>9, <2>1 DEF Wanted, Part
  <2>3. \E key, bytes, s, m : v \in MadeOf(Shader(wanted), key, bytes, s, m) \ {Rejected}
    <3>1. r.make # "file"  BY <1>9
    <3>2. v \in MadeOf(Wanted(a), DepKey(Wanted(a)), payload[IndexOf(DepKey(Wanted(a)))],
                       SourceOf(a), created[Request(a).source].request.args) \ {Rejected}
      BY <1>1, <1>2, <1>3, <3>1, Answers, Zenon DEF GettersAnswer
    <3> QED  BY <2>2, <3>2
  <2>4. PICK bytes : v = ShaderResult(wanted, bytes) /\ v # Rejected
    <3>1. PICK q : q = Shader(wanted)  OBVIOUS
    <3>2. q.make = "hlsl" /\ q.args = wanted  BY <3>1 DEF Shader
    <3> QED  BY <2>3, <3>1, <3>2, MadeOfOthers
  <2>5. v.stage = wanted.stage /\ v.target = wanted.target  BY <2>4 DEF ShaderResult
  <2> QED  BY <1>2, <1>3, <1>9, <2>1, <2>5 DEF Describes
<1> QED  BY <1>2, <1>6, <1>7, <1>8, <1>9

\* A value is made by the compiler of its own request, from bytes that a file
\* may hold when it takes bytes.
LEMMA MadeAsAsked ==
    ASSUME BuildInv, NEW a \in Assets, Request(a).make \in DOMAIN KindOf
    PROVE  LET r == Request(a)  b == payload[Dep(NodeOf(a))]  v == ValueOfAsset(a) IN
           /\ v # Rejected
           /\ v \in MadeOf(r, DepKey(r), b, SourceOf(a), created[r.source].request.args)
           /\ KindOf[r.make].takes = "bytes" => b \in Contents
           /\ ArgumentsTyped(r)
<1>1. LibraryInv /\ PayloadInv /\ RequestsInv  BY DEF BuildInv
<1>2. KindOf[Request(a).make].takes = "bytes" => payload[Dep(NodeOf(a))] \in Contents
  BY <1>1, BytesRead
<1>3. ArgumentsTyped(Request(a))  BY <1>1, AssetNode DEF RequestsInv, Request
<1>4. LET source == DepKey(Request(a)) IN
      /\ ValueOfAsset(a) # Rejected
      /\ ValueOfAsset(a) \in MadeOf(Request(a), source, payload[IndexOf(source)], SourceOf(a),
                                    created[Request(a).source].request.args)
      /\ Dep(NodeOf(a)) = IndexOf(source)
  BY <1>1, AssetValue, Zenon
<1> QED  BY <1>2, <1>3, <1>4, Zenon

\* Fields and meshes.
LEMMA ShapesDescribed ==
    ASSUME ContentsTyped, BuildInv, NEW a \in Assets,
           Request(a).make \in {"field", "pattern", "mesh", "glb"}
    PROVE  Describes(a)
<1>1. PICK r : r = Request(a) /\ r.make \in DOMAIN KindOf  BY ByteKinds
<1>2. PICK v : v = ValueOfAsset(a)  OBVIOUS
<1>3. PICK b : b = payload[Dep(NodeOf(a))]  OBVIOUS
<1>4. PICK key, s, m : /\ v # Rejected /\ v \in MadeOf(r, key, b, s, m)
                       /\ KindOf[r.make].takes = "bytes" => b \in Contents
                       /\ ArgumentsTyped(r)
  BY <1>1, <1>2, <1>3, MadeAsAsked, Zenon
<1>5. PICK d : d = r.args  OBVIOUS
<1>6. CASE r.make = "field"
  <2>1. v = FieldResult(d, b)  BY <1>4, <1>5, <1>6, MadeOfOthers
  <2>2. PICK content : content = AsFloats(b)  OBVIOUS
  <2>3. content.floats \in Seq(Int) /\ content.spare \in 0..3
    <3>1. b \in Contents  BY <1>4, <1>6, ByteKinds
    <3> QED  BY <2>2, <3>1 DEF ContentsTyped, ContentTyped
  <2>4. v = RawField(d, content)  BY <2>1, <2>2 DEF FieldResult
  <2>5. {d.width, d.height, d.depth} \subseteq Nat  BY <1>4, <1>5, <1>6 DEF ArgumentsTyped
  <2>6. SizesFit(d) => FieldDescribes(d, v) /\ v.values = content.floats
    BY <1>4, <2>3, <2>4, <2>5, FieldIsDescribed
  <2> QED  BY <1>1, <1>2, <1>3, <1>5, <1>6, <2>2, <2>6 DEF Describes
<1>7. CASE r.make = "pattern"
  <2>1. v = MadeField(d)  BY <1>4, <1>5, <1>7, MadeOfOthers
  <2>2. PatternTyped(d)  BY <1>4, <1>5, <1>7 DEF ArgumentsTyped, PatternTyped, Generators
  <2>3. SizesFit(d) => FieldDescribes(d, v) /\ PatternDescribes(d, v)
    BY <1>4, <2>1, <2>2, PatternIsDescribed
  <2> QED  BY <1>1, <1>2, <1>5, <1>7, <2>3 DEF Describes
<1>8. CASE r.make = "mesh"
  <2>1. v = ProceduralMesh(d.kind)  BY <1>4, <1>5, <1>8, MadeOfOthers
  <2>2. d.kind \in {"Triangle", "Quad", "Cube"}  BY <1>4, <1>5, <1>8 DEF ArgumentsTyped
  <2>3. MeshDescribes(v) /\ (d.kind = "Cube" => Closed(v))  BY <2>1, <2>2, MeshIsDescribed
  <2> QED  BY <1>1, <1>2, <1>5, <1>8, <2>3 DEF Describes
<1>9. CASE r.make = "glb"
  <2>1. v = GlbResult(b)  BY <1>4, <1>9, MadeOfOthers
  <2>2. PICK meshes : meshes = Field(b, "glb", <<>>)  OBVIOUS
  <2>3. IsSequence(meshes) /\ \A primitives \in Range(meshes) : IsSequence(primitives)
    <3>1. b \in Contents  BY <1>4, <1>9, ByteKinds
    <3> QED  BY <2>2, <3>1 DEF ContentsTyped, ContentTyped
  <2>4. v = ImportMesh(meshes)  BY <2>1, <2>2 DEF GlbResult
  <2>5. v.vertices = FlattenSeq(meshes)[1].positions /\ MeshValid(v)
    BY <1>4, <2>3, <2>4, MeshIsImported
  <2>6. meshes = b.glb
    <3>1. CASE "glb" \in DOMAIN b  BY <2>2, <3>1 DEF Field
    <3>2. CASE "glb" \notin DOMAIN b
      <4>1. meshes = <<>>  BY <2>2, <3>2 DEF Field
      <4>2. FlattenSeq(meshes) = <<>>  BY <4>1 DEF FlattenSeq
      <4>3. ImportMesh(meshes) = Rejected  BY <4>2 DEF ImportMesh
      <4> QED  BY <1>4, <2>4, <4>3
    <3> QED  BY <3>1, <3>2
  <2> QED  BY <1>1, <1>2, <1>3, <1>9, <2>5, <2>6 DEF Describes
<1> QED  BY <1>1, <1>6, <1>7, <1>8, <1>9

\* Clouds.
LEMMA CloudsDescribed ==
    ASSUME ContentsTyped, BuildInv, NEW a \in Assets, Request(a).make \in {"cloud", "ply"}
    PROVE  Describes(a)
<1>1. PICK r : r = Request(a) /\ r.make \in DOMAIN KindOf  BY ByteKinds
<1>2. PICK v : v = ValueOfAsset(a)  OBVIOUS
<1>3. PICK b : b = payload[Dep(NodeOf(a))]  OBVIOUS
<1>4. PICK key, s, m : /\ v # Rejected /\ v \in MadeOf(r, key, b, s, m)
                       /\ KindOf[r.make].takes = "bytes" => b \in Contents
                       /\ ArgumentsTyped(r)
  BY <1>1, <1>2, <1>3, MadeAsAsked, Zenon
<1>5. PICK d : d = r.args  OBVIOUS
<1>6. CASE r.make = "cloud"
  <2>1. v = SphereCloud(d)  BY <1>4, <1>5, <1>6, MadeOfOthers
  <2>2. SphereAccepted(d)
    <3>1. a[1] \in DOMAIN created /\ a[2] \in DOMAIN created[a[1]].keys  BY AssetNode DEF BuildInv
    <3>2. created[a[1]].keys # <<>>
      <4>1. DOMAIN <<>> = {}  OBVIOUS
      <4> QED  BY <3>1, <4>1
    <3> QED  BY <1>1, <1>5, <1>6, <3>1, <3>2 DEF BuildInv, SpheresInv, Request
  <2>3. d.count \in Nat /\ d.radius \in Int /\ d.splat_scale \in Int
    BY <1>4, <1>5, <1>6 DEF ArgumentsTyped
  <2>4. d.radius \in Nat /\ d.splat_scale \in Nat  BY <2>2, <2>3 DEF SphereAccepted
  <2>5. SphereDescribes(d, v)  BY <2>1, <2>2, <2>3, <2>4, SphereIsDescribed
  <2> QED  BY <1>1, <1>2, <1>5, <1>6, <2>5 DEF Describes
<1>7. CASE r.make = "ply"
  <2>1. PICK document : document = Field(b, "ply", <<>>)  OBVIOUS
  <2>2. PICK g : v = ImportCloud(document, g)
    <3>1. v \in PlyResults(b)  BY <1>4, <1>7, MadeOfOthers
    <3> QED  BY <2>1, <3>1 DEF PlyResults
  <2>3. IsSequence(document) /\ \A t \in Range(document) : IsPly(t)
    <3>1. b \in Contents  BY <1>4, <1>7, ByteKinds
    <3> QED  BY <2>1, <3>1 DEF ContentsTyped, ContentTyped, IsPly
  <2>4. PICK i \in DOMAIN document :
           /\ document[i].element = "vertex"
           /\ \A j \in 1..i - 1 : document[j].element # "vertex"
           /\ CloudDescribes(document[i], v)
    BY <1>4, <2>2, <2>3, CloudIsDescribed
  <2>5. document = b.ply
    <3>1. "ply" \notin DOMAIN b => document = <<>>  BY <2>1 DEF Field
    <3>2. DOMAIN <<>> = {}  OBVIOUS
    <3>3. "ply" \in DOMAIN b  BY <2>4, <3>1, <3>2
    <3> QED  BY <2>1, <3>3 DEF Field
  <2>6. \E k \in DOMAIN b.ply :
           /\ b.ply[k].element = "vertex"
           /\ \A j \in 1..k - 1 : b.ply[j].element # "vertex"
           /\ CloudDescribes(b.ply[k], v)
    BY <2>4, <2>5
  <2> QED  BY <1>1, <1>2, <1>3, <1>7, <2>6 DEF Describes
<1> QED  BY <1>1, <1>6, <1>7

\* A view has a row for each bucket.
LEMMA SeriesRows ==
    ASSUME NEW t, NEW d, IsTable(t), CanResample(t, d), {d.width, d.start, d.end} \subseteq Int,
           NEW how, NEW e
    PROVE  Len(SeriesTable(Resample(t, d, how), e).rows) = Len(Resample(t, d, how).buckets)
<1>1. PICK s, view : s = Resample(t, d, how) /\ view = SeriesTable(s, e)  OBVIOUS
<1>2. PICK k \in Nat : DOMAIN s.buckets = 1..k /\ Len(s.buckets) = k
  <2>1. CASE SeriesSeen(t, d) = {}
    <3>1. s.buckets = <<>>  BY <1>1, <2>1, ResampleIs DEF NoSeries
    <3> QED  BY <3>1
  <2>2. CASE SeriesSeen(t, d) # {}
    <3>1. PICK all : all = [i \in 1..SeriesCount(t, d, how) |-> SeriesBucket(t, d, how, i - 1)]  OBVIOUS
    <3>2. s = [source_start |-> SeriesStart(t, d), source_end |-> SeriesEnd(t, d),
               parsed |-> Cardinality(SeriesSeen(t, d)), skipped |-> Cardinality(SeriesSkipped(t, d)),
               buckets |-> all]
      BY <1>1, <2>2, <3>1, ResampleIs
    <3>3. SeriesCount(t, d, how) \in Nat  BY <2>2, SeriesPlaced DEF CanResample
    <3> QED  BY <3>1, <3>2, <3>3
  <2> QED  BY <2>1, <2>2
<1>3. DOMAIN view.rows = DOMAIN s.buckets  BY <1>1 DEF SeriesTable
<1>4. view.rows = [i \in 1..k |-> view.rows[i]]  BY <1>1, <1>2 DEF SeriesTable
<1>5. Len([i \in 1..k |-> view.rows[i]]) = k  OBVIOUS
<1> QED  BY <1>1, <1>2, <1>4, <1>5

LEMMA SummaryRows ==
    ASSUME NEW t, NEW d, CanSummarize(t, d),
           {d.frame_start, d.frame_end, d.fpb} \subseteq 0..Word - 1, NEW e
    PROVE  Len(SummaryTable(Summarize(t, d), e).rows) = Len(Summarize(t, d).buckets)
<1>1. PICK s, view : s = Summarize(t, d) /\ view = SummaryTable(s, e)  OBVIOUS
<1>2. PICK k \in Nat : DOMAIN s.buckets = 1..k /\ Len(s.buckets) = k
  <2>1. s = [buckets |-> [i \in 1..BucketCount(d) |-> SummaryBucket(t, d, i - 1)]]  BY <1>1, SummarizeIs
  <2>2. BucketCount(d) \in Nat  BY FramesCounted DEF CanSummarize
  <2> QED  BY <2>1, <2>2
<1>3. view.rows = [i \in 1..k |-> view.rows[i]]  BY <1>1, <1>2 DEF SummaryTable
<1>4. Len([i \in 1..k |-> view.rows[i]]) = k  OBVIOUS
<1> QED  BY <1>1, <1>2, <1>3, <1>4

\* Tables, what is shown of a series or a summary, and renderables.
LEMMA ViewsDescribed ==
    ASSUME BuildInv, NEW a \in Assets,
           Request(a).make \in {"table", "seriesView", "summaryView", "meshShown", "fieldShown", "cloudShown"}
    PROVE  Describes(a)
<1>1. PICK r : r = Request(a) /\ r.make \in DOMAIN KindOf  BY ByteKinds, TableKinds
<1>2. PICK v : v = ValueOfAsset(a)  OBVIOUS
<1>3. PICK s : s = SourceOf(a)  OBVIOUS
<1>4. PICK e : e = created[r.source].request.args  OBVIOUS
<1>5. PICK b : /\ v # Rejected /\ v \in MadeOf(r, DepKey(r), b, s, e)
  BY <1>1, <1>2, <1>3, <1>4, MadeAsAsked, Zenon
<1>6. LibraryInv /\ RequestsInv  BY DEF BuildInv
<1>7. PICK c : c = <<r.source, 1>>  OBVIOUS
<1>8. c[1] = r.source  BY <1>7
<1>9. ASSUME KindOf[r.make].takes \in TableNames
      PROVE  /\ c \in Assets /\ s = ValueOfAsset(c) /\ Request(c).make \in DOMAIN KindOf
             /\ KindOf[Request(c).make].table = KindOf[r.make].takes /\ Request(c).args = e
             /\ DepKey(r) = created[r.source].keys[1]
  <2>1. Wanted(a) = r  BY <1>1, <1>6, AssetValue
  <2>2. /\ c \in Assets /\ SourceOf(a) = ValueOfAsset(c) /\ Request(c).make \in DOMAIN KindOf
        /\ KindOf[Request(c).make].table = KindOf[r.make].takes
        /\ DepKey(r) = created[Request(a).source].keys[1]
    BY <1>1, <1>6, <1>7, <1>9, <2>1, SourceAsset
  <2>3. Request(c).args = e  BY <1>4, <1>8 DEF Request
  <2> QED  BY <1>1, <1>3, <2>2, <2>3
<1>10. CASE r.make = "table"
  <2>1. v = r.args.table  BY <1>5, <1>10, MadeOfTables
  <2> QED  BY <1>1, <1>2, <1>10, <2>1 DEF Describes
<1>11. CASE r.make = "seriesView"
  <2>1. v = SeriesViewResult(s, e)  BY <1>5, <1>11, MadeOfTables
  <2>2. PICK t : t = SeriesTable(s, e)  OBVIOUS
  <2>3. TableValid(v) /\ v = t  BY <1>5, <2>1, <2>2 DEF SeriesViewResult
  <2>4. Len(v.rows) = Len(s.buckets)
    <3>1. KindOf[r.make].takes = "series" /\ "series" \in TableNames  BY <1>11, TableKinds
    <3>2. c \in Assets /\ s = ValueOfAsset(c) /\ Request(c).make = "series" /\ Request(c).args = e
      BY <1>9, <3>1, TableKinds
    <3>3. PICK u, how : /\ u = SourceOf(c) /\ CanResample(u, e) /\ s = Resample(u, e, how)
                        /\ {e.width, e.start, e.end} \subseteq Int
      BY <1>6, <3>2, MadeSeries
    <3>4. IsTable(u)  BY <1>6, <3>2, <3>3, SourceIsTable
    <3> QED  BY <2>2, <2>3, <3>3, <3>4, SeriesRows
  <2> QED  BY <1>1, <1>2, <1>3, <1>11, <2>3, <2>4 DEF Describes
<1>12. CASE r.make = "summaryView"
  <2>1. v = SummaryViewResult(s, e)  BY <1>5, <1>12, MadeOfTables
  <2>2. PICK t : t = SummaryTable(s, e)  OBVIOUS
  <2>3. TableValid(v) /\ v = t  BY <1>5, <2>1, <2>2 DEF SummaryViewResult
  <2>4. Len(v.rows) = Len(s.buckets)
    <3>1. KindOf[r.make].takes = "summary" /\ "summary" \in TableNames  BY <1>12, TableKinds
    <3>2. c \in Assets /\ s = ValueOfAsset(c) /\ Request(c).make = "summary" /\ Request(c).args = e
      BY <1>9, <3>1, TableKinds
    <3>3. PICK u : /\ CanSummarize(u, e) /\ s = Summarize(u, e)
                   /\ {e.frame_start, e.frame_end, e.fpb} \subseteq 0..Word - 1
      BY <1>6, <3>2, MadeSummary
    <3> QED  BY <2>2, <2>3, <3>3, SummaryRows
  <2> QED  BY <1>1, <1>2, <1>3, <1>12, <2>3, <2>4 DEF Describes
<1>13. CASE r.make \in {"meshShown", "fieldShown", "cloudShown"}
  <2>1. PICK key : key = created[r.source].keys[1] /\ key = DepKey(r)  BY <1>9, <1>13, ByteKinds
  <2>2. CASE r.make = "meshShown"
    <3>1. v = MeshShownResult(key, s)  BY <1>5, <2>1, <2>2, MadeOfOthers
    <3>2. v.source_asset = key /\ v.kind = "Mesh"
      BY <1>5, <3>1 DEF MeshShownResult, MeshRenderable, Renderable
    <3> QED  BY <1>1, <1>2, <2>1, <2>2, <3>2 DEF Describes
  <2>3. CASE r.make = "fieldShown"
    <3>1. v = FieldRenderable(key)  BY <1>5, <2>1, <2>3, MadeOfOthers
    <3>2. v.source_asset = key /\ v.kind = "ScalarField"  BY <3>1 DEF FieldRenderable, Renderable
    <3> QED  BY <1>1, <1>2, <2>1, <2>3, <3>2 DEF Describes
  <2>4. CASE r.make = "cloudShown"
    <3>1. v = CloudRenderable(key, s)  BY <1>5, <2>1, <2>4, MadeOfOthers
    <3>2. v.source_asset = key /\ v.bounds_min = s.ranges.min /\ v.bounds_max = s.ranges.max
      BY <3>1 DEF CloudRenderable, Renderable
    <3> QED  BY <1>1, <1>2, <1>3, <2>1, <2>4, <3>2 DEF Describes
  <2> QED  BY <1>13, <2>2, <2>3, <2>4
<1> QED  BY <1>1, <1>10, <1>11, <1>12, <1>13

\* Whatever a program creates, reads, compiles and compiles again, in any order
\* and across crashes, each asset that a getter returns is what its own
\* create_...() asked for: fields have all their samples, meshes agree on their
\* sides, clouds are the rows of their file with ranges that are theirs, views
\* have a row per bucket and renderables are of their own source:
\* BuiltFromArguments.
THEOREM AssetsAreAsAsked ==
    ASSUME ContentsTyped
    PROVE  Spec /\ []TextsFit => []BuiltFromArguments
<1>1. BuildInv => BuiltFromArguments
  <2> SUFFICES ASSUME BuildInv, NEW a \in Assets PROVE Describes(a)
    BY DEF BuiltFromArguments
  <2>1. PICK make : make = Request(a).make  OBVIOUS
  <2>2. CASE make \in {"json", "toml", "csv", "shaders"}  BY <2>1, <2>2, TextsDescribed
  <2>3. CASE make \in {"field", "pattern", "mesh", "glb"}  BY <2>1, <2>3, ShapesDescribed
  <2>4. CASE make \in {"cloud", "ply"}  BY <2>1, <2>4, CloudsDescribed
  <2>5. CASE make \in {"table", "seriesView", "summaryView", "meshShown", "fieldShown", "cloudShown"}
    BY <2>1, <2>5, ViewsDescribed
  <2>6. CASE make \notin {"json", "toml", "csv", "shaders", "field", "pattern", "mesh", "glb", "cloud", "ply",
                          "table", "seriesView", "summaryView", "meshShown", "fieldShown", "cloudShown"}
    BY <2>1, <2>6 DEF Describes
  <2> QED  BY <2>2, <2>3, <2>4, <2>5, <2>6
<1> QED  BY <1>1, BuildHolds, PTL
=============================================================================
