----------------------------- MODULE FileStore -----------------------------
(***************************************************************************)
(* Files as several threads see them through wz::fs                        *)
(* (src/src/file/filesystem.cpp): read_file(), file_size(), write_file()   *)
(* and remove_file(), each a sequence of Win32 calls that others may come  *)
(* between, and the async calls that run them on an executor               *)
(* (src/src/async/async.cpp).                                              *)
(*                                                                         *)
(* External: the file system, which lets a file be opened only when every  *)
(* handle shares the access of the others, and whose transfers may fail;   *)
(* the executor, which runs every job once, in any order; a crash of the   *)
(* program, which closes its handles and leaves the files as they are.     *)
(***************************************************************************)
EXTENDS Integers

CONSTANTS
    Main,         \* the thread that owns the engine
    Workers,      \* the threads of the executor
    Places,       \* files, however they are spelled
    Contents,     \* what a file may hold: fewer than 2^32 bytes, since ReadFile() and WriteFile()
                  \* are given the size as a DWORD (filesystem.cpp:123, 168)
    Empty,        \* a file without bytes
    NoFile,       \* a place without a file
    Left(_),      \* what a write that fails may leave of its data
    Calls,        \* bound: the async calls the program makes
    MaxFaults,    \* bound: transfers that fail
    MaxCrashes    \* bound: crashes

Threads == {Main} \cup Workers

ASSUME FileAssumption ==
    /\ Main \notin Workers /\ Places # {}
    /\ Empty \in Contents /\ NoFile \notin Contents
    /\ MaxFaults \in Nat /\ MaxCrashes \in Nat

VARIABLES
    files,      \* place -> its content
    op,         \* thread -> the call of wz::fs under way
    done,       \* thread -> what its call returned, until the caller looks
    calls,      \* async call -> its job
    executor,   \* an executor is installed

(* History and bounds. *)
    stored,     \* place -> what the last call that completed left there
    damaged,    \* places where a write broke off
    reads,      \* thread -> its last successful read
    faults,
    crashes

fileVars == <<files, op, done, calls, executor, stored, damaged, reads, faults, crashes>>

Kinds == {"read", "size", "write", "remove"}
Requests == [doing : Kinds, place : Places, data : Contents, overwrite : BOOLEAN]

NoRequest == [doing |-> "none", place |-> CHOOSE p \in Places : TRUE, data |-> Empty, overwrite |-> TRUE]
Started(r) == [request |-> r, open |-> FALSE, sized |-> FALSE, stored |-> NoFile, whole |-> FALSE]
NoOp == Started(NoRequest)
NoResult == [of |-> NoRequest, error |-> "none", value |-> Empty]
NoRead == [whole |-> FALSE, stored |-> NoFile, value |-> Empty]
NoCall == [state |-> "none", request |-> NoRequest, on |-> Main, error |-> "none"]

FileInit(disk) ==
    /\ files = disk /\ stored = disk /\ damaged = {}
    /\ op = [t \in Threads |-> NoOp] /\ done = [t \in Threads |-> NoResult]
    /\ calls = [c \in Calls |-> NoCall]
    /\ executor = FALSE
    /\ reads = [t \in Threads |-> NoRead]
    /\ faults = 0 /\ crashes = 0

-----------------------------------------------------------------------------
(* Opening a file *)

Doing(t) == op[t].request.doing
Busy(t) == Doing(t) # "none"
Holds(t) == Busy(t) /\ op[t].open
Place(t) == op[t].request.place
Free(t) == ~Busy(t) /\ done[t] = NoResult

Access(doing) == IF doing = "write" THEN "write" ELSE "read"

SharesAll(doing) == {"read", "write"}

\* The share modes that read_file(), file_size() and write_file() ask for.
Shares(doing) == IF doing = "write" THEN {} ELSE {"read"}

\* No other handle excludes the access, and the access excludes no other.
Compatible(t) ==
    \A u \in Threads \ {t} : Holds(u) /\ Place(u) = Place(t) =>
        /\ Access(Doing(t)) \in Shares(Doing(u))
        /\ Access(Doing(u)) \in Shares(Doing(t))

Exists(p) == files[p] # NoFile

\* from_win32(): a sharing violation and a file that is already there are not
\* told apart from other failures.
OpenError(t) ==
    CASE Doing(t) # "write" /\ ~Exists(Place(t))                          -> "NotFound"
      [] Exists(Place(t)) /\ ~Compatible(t)                               -> "IOError"
      [] Doing(t) = "write" /\ ~op[t].request.overwrite /\ Exists(Place(t)) -> "IOError"
      [] OTHER                                                            -> "None"

Return(t, error, value) ==
    /\ op' = [op EXCEPT ![t] = NoOp]
    /\ done' = [done EXCEPT ![t] = [of |-> op[t].request, error |-> error, value |-> value]]

OpenFails(t) ==
    /\ Busy(t) /\ ~op[t].open /\ Doing(t) # "remove"
    /\ OpenError(t) # "None"
    /\ Return(t, OpenError(t), Empty)
    /\ UNCHANGED <<files, calls, executor, stored, damaged, reads, faults, crashes>>

\* CREATE_ALWAYS and CREATE_NEW leave an empty file.
Open(t) ==
    /\ Busy(t) /\ ~op[t].open /\ Doing(t) # "remove"
    /\ OpenError(t) = "None"
    /\ op' = [op EXCEPT ![t] = [@ EXCEPT !.open = TRUE, !.stored = stored[Place(t)],
                                         !.whole = Place(t) \notin damaged]]
    /\ files' = IF Doing(t) = "write" THEN [files EXCEPT ![Place(t)] = Empty] ELSE files
    /\ UNCHANGED <<done, calls, executor, stored, damaged, reads, faults, crashes>>

-----------------------------------------------------------------------------
(* Transfers, each followed by CloseHandle() *)

\* GetFileSizeEx() makes the buffer of read_file(), and is all of file_size().
GetSize(t) ==
    /\ Holds(t) /\ Doing(t) \in {"read", "size"} /\ ~op[t].sized
    /\ \/ /\ Doing(t) = "size"
          /\ Return(t, "None", files[Place(t)])
       \/ /\ Doing(t) = "read"
          /\ op' = [op EXCEPT ![t].sized = TRUE]
          /\ UNCHANGED done
    /\ UNCHANGED <<files, calls, executor, stored, damaged, reads, faults, crashes>>

ReadFile(t) ==
    /\ Holds(t) /\ Doing(t) = "read" /\ op[t].sized
    /\ Return(t, "None", files[Place(t)])
    /\ reads' = [reads EXCEPT ![t] = [whole |-> op[t].whole, stored |-> op[t].stored,
                                      value |-> files[Place(t)]]]
    /\ UNCHANGED <<files, calls, executor, stored, damaged, faults, crashes>>

WriteFile(t) ==
    /\ Holds(t) /\ Doing(t) = "write"
    /\ Return(t, "None", Empty)
    /\ files' = [files EXCEPT ![Place(t)] = op[t].request.data]
    /\ stored' = [stored EXCEPT ![Place(t)] = op[t].request.data]
    /\ damaged' = damaged \ {Place(t)}
    /\ UNCHANGED <<calls, executor, reads, faults, crashes>>

TransferFails(t) ==
    /\ Holds(t) /\ faults < MaxFaults
    /\ Return(t, "IOError", Empty)
    /\ \/ /\ Doing(t) # "write"
          /\ UNCHANGED <<files, damaged>>
       \/ /\ Doing(t) = "write"
          /\ \E rest \in Left(op[t].request.data) \cap Contents :
                 files' = [files EXCEPT ![Place(t)] = rest]
          /\ damaged' = damaged \cup {Place(t)}
    /\ faults' = faults + 1
    /\ UNCHANGED <<calls, executor, stored, reads, crashes>>

\* DeleteFileW() needs every handle to share deletion, which none does.
DeleteFile(t) ==
    /\ Busy(t) /\ Doing(t) = "remove"
    /\ LET held == \E u \in Threads : Holds(u) /\ Place(u) = Place(t) IN
       \/ /\ ~Exists(Place(t))
          /\ Return(t, "NotFound", Empty)
          /\ UNCHANGED <<files, stored, damaged>>
       \/ /\ Exists(Place(t)) /\ held
          /\ Return(t, "IOError", Empty)
          /\ UNCHANGED <<files, stored, damaged>>
       \/ /\ Exists(Place(t)) /\ ~held
          /\ Return(t, "None", Empty)
          /\ files' = [files EXCEPT ![Place(t)] = NoFile]
          /\ stored' = [stored EXCEPT ![Place(t)] = NoFile]
          /\ damaged' = damaged \ {Place(t)}
    /\ UNCHANGED <<calls, executor, reads, faults, crashes>>

FileStep(t) ==
    OpenFails(t) \/ Open(t) \/ GetSize(t) \/ ReadFile(t) \/ WriteFile(t) \/ TransferFails(t) \/ DeleteFile(t)

-----------------------------------------------------------------------------
(* Callers *)

\* The main thread calls wz::fs, and looks at what it returned.
Call(r) ==
    /\ Free(Main)
    /\ op' = [op EXCEPT ![Main] = Started(r)]
    /\ UNCHANGED <<files, done, calls, executor, stored, damaged, reads, faults, crashes>>

Look ==
    /\ done[Main] # NoResult
    /\ done' = [done EXCEPT ![Main] = NoResult]
    /\ UNCHANGED <<files, op, calls, executor, stored, damaged, reads, faults, crashes>>

\* async_read_file() and async_write_file(): without an executor the callback
\* is called at once.
Async(c, r) ==
    /\ calls[c].state = "none"
    /\ calls' = [calls EXCEPT ![c] =
                   IF executor THEN [NoCall EXCEPT !.state = "posted", !.request = r]
                   ELSE [NoCall EXCEPT !.state = "answered", !.error = "IOError"]]
    /\ UNCHANGED <<files, op, done, executor, stored, damaged, reads, faults, crashes>>

SetExecutor ==
    /\ ~executor
    /\ executor' = TRUE
    /\ UNCHANGED <<files, op, done, calls, stored, damaged, reads, faults, crashes>>

TakeJob(w, c) ==
    /\ Free(w) /\ calls[c].state = "posted"
    /\ op' = [op EXCEPT ![w] = Started(calls[c].request)]
    /\ calls' = [calls EXCEPT ![c].state = "running", ![c].on = w]
    /\ UNCHANGED <<files, done, executor, stored, damaged, reads, faults, crashes>>

CallbackOnSuccess(w, c) ==
    /\ done[w] # NoResult /\ done[w].error = "None" /\ calls[c].state = "running" /\ calls[c].on = w
    /\ calls' = [calls EXCEPT ![c].state = "answered", ![c].error = done[w].error]
    /\ done' = [done EXCEPT ![w] = NoResult]
    /\ UNCHANGED <<files, op, executor, stored, damaged, reads, faults, crashes>>

Callback(w, c) ==
    /\ done[w] # NoResult /\ calls[c].state = "running" /\ calls[c].on = w
    /\ calls' = [calls EXCEPT ![c].state = "answered", ![c].error = done[w].error]
    /\ done' = [done EXCEPT ![w] = NoResult]
    /\ UNCHANGED <<files, op, executor, stored, damaged, reads, faults, crashes>>

\* The program ends in the middle of its calls and is started again.
FileCrash ==
    /\ crashes < MaxCrashes
    /\ op' = [t \in Threads |-> NoOp]
    /\ done' = [t \in Threads |-> NoResult]
    /\ calls' = [c \in Calls |-> NoCall]
    /\ executor' = FALSE
    /\ damaged' = damaged \cup {Place(t) : t \in {u \in Threads : Holds(u) /\ Doing(u) = "write"}}
    /\ reads' = [t \in Threads |-> NoRead]
    /\ crashes' = crashes + 1
    /\ UNCHANGED <<files, stored, faults>>

WorkerStep(w) == FileStep(w) \/ \E c \in Calls : TakeJob(w, c) \/ Callback(w, c)

FileNext ==
    \/ \E r \in Requests : Call(r)
    \/ Look
    \/ \E c \in Calls, r \in Requests : Async(c, r)
    \/ \E t \in Threads : FileStep(t)
    \/ \E w \in Workers, c \in Calls : TakeJob(w, c) \/ Callback(w, c)
    \/ SetExecutor
    \/ FileCrash

-----------------------------------------------------------------------------
(* Properties *)

\* What a file was left as is still there, unless a write broke off or is under
\* way.
Steady ==
    \A p \in Places :
        \/ p \in damaged \/ files[p] = stored[p]
        \/ \E t \in Threads : Holds(t) /\ Doing(t) = "write" /\ Place(t) = p

\* A file that is being written is open nowhere else: write_file() shares
\* nothing and read_file() shares reading only (filesystem.cpp:96, 151).
WritesAlone ==
    \A t, u \in Threads :
        t # u /\ Holds(t) /\ Holds(u) /\ Place(t) = Place(u) => Doing(t) # "write"

\* A read that returns data returns all that the last completed write of the
\* file stored, never the empty or half written file in between, whichever
\* threads read and write; only a write that failed or was cut off by a crash
\* may leave less (filesystem.cpp:90-178).
ReadsAreWhole == \A t \in Threads : reads[t].whole => reads[t].value = reads[t].stored

FileSpec == (\E disk \in [Places -> Contents \cup {NoFile}] : FileInit(disk)) /\ [][FileNext]_fileVars
=============================================================================
