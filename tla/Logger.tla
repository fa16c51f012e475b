------------------------------- MODULE Logger -------------------------------
(***************************************************************************)
(* CLogger (xLog.cpp) as the worker sets it up: a log file of limited size *)
(* that all threads of the server write to.  A thread writes through _fd   *)
(* without the mutex and looks at the size under it; rotateLog renames the *)
(* file, opens a new one and closes the old descriptor one after another.  *)
(* Sockets come and go among the descriptors meanwhile.                    *)
(***************************************************************************)
EXTENDS Integers, FiniteSets, FiniteSetsExt

CONSTANTS
    Threads,       \* threads that log
    Sizes,         \* sizes of a message
    _maxFileSize,  \* the limit, of the configuration
    Fds,           \* descriptors the process may have
    MaxFiles,      \* bound: log files ever opened
    MaxSeconds     \* bound: the clock

LoggerAssumption ==
    /\ Threads # {} /\ IsFiniteSet(Threads) /\ "nobody" \notin Threads
    /\ Sizes # {} /\ Sizes \subseteq Nat \ {0} /\ IsFiniteSet(Sizes)
    /\ Fds # {} /\ Fds \subseteq Nat /\ IsFiniteSet(Fds)
    /\ _maxFileSize \in Nat \ {0} /\ MaxFiles \in Nat \ {0} /\ MaxSeconds \in Nat

VARIABLES
    _fd,           \* the descriptor of the log, or -1
    table,         \* descriptor -> the log file it is open on, Socket or Closed
    size,          \* the size of each log file opened so far
    name,          \* the log file under the name _name, or NoFile
    rotated,       \* second -> the log file renamed to it, or NoFile
    pc,            \* what each thread does next
    fd,            \* descriptor each thread has loaded or opened
    mutex,         \* holder of _fileSizeMutex, or Nobody
    second         \* time()

vars == <<_fd, table, size, name, rotated, pc, fd, mutex, second>>

Closed == 0
Socket == -1
NoFile == 0
NoFd == -1
Nobody == "nobody"
LogFiles == 1 .. MaxFiles
Opened == DOMAIN size

States == {"idle", "write", "lock", "lseek", "rename", "open", "close", "assign", "unlock"}

TypeOK ==
    /\ _fd \in Fds \cup {NoFd}
    /\ table \in [Fds -> LogFiles \cup {Socket, Closed}]
    /\ Opened \subseteq LogFiles /\ size \in [Opened -> Nat]
    /\ name \in Opened \cup {NoFile}
    /\ rotated \in [0 .. MaxSeconds -> Opened \cup {NoFile}]
    /\ pc \in [Threads -> States] /\ fd \in [Threads -> Fds \cup {NoFd}]
    /\ mutex \in Threads \cup {Nobody} /\ second \in 0 .. MaxSeconds

Free == {n \in Fds : table[n] = Closed}

Go(t, label) == pc' = [pc EXCEPT ![t] = label]
-----------------------------------------------------------------------------
(* Faulty variants of the operations.                                      *)

\* A size that jumps over the limit is not noticed.
IsFullExactly(offset) == offset = _maxFileSize

\* rotateLog that keeps the old descriptor.
AssignNever(t) ==
    /\ pc[t] = "assign"
    /\ Go(t, "unlock")
    /\ UNCHANGED <<_fd, table, size, name, rotated, fd, mutex, second>>
-----------------------------------------------------------------------------
(* logMessage.                                                             *)

\* Format the message and load _fd for writev.
LoadFd(t) ==
    /\ pc[t] = "idle"
    /\ fd' = [fd EXCEPT ![t] = _fd]
    /\ Go(t, "write")
    /\ UNCHANGED <<_fd, table, size, name, rotated, mutex, second>>

\* writev appends to the log file, or puts the text into the socket that has
\* the number by now, or fails.
Writev(t) ==
    /\ pc[t] = "write"
    /\ IF fd[t] # NoFd /\ table[fd[t]] \in Opened
       THEN \E n \in Sizes : size' = [size EXCEPT ![table[fd[t]]] = @ + n]
       ELSE UNCHANGED size
    /\ Go(t, "lock")
    /\ UNCHANGED <<_fd, table, name, rotated, fd, mutex, second>>

Lock(t) ==
    /\ pc[t] = "lock" /\ mutex = Nobody
    /\ mutex' = t
    /\ Go(t, "lseek")
    /\ UNCHANGED <<_fd, table, size, name, rotated, fd, second>>

IsFull(offset) == offset >= _maxFileSize

\* An error of lseek is ignored.
Lseek(t) ==
    /\ pc[t] = "lseek"
    /\ Go(t, IF _fd # NoFd /\ table[_fd] \in Opened /\ IsFull(size[table[_fd]])
             THEN IF name # NoFile THEN "rename" ELSE "open"
             ELSE "unlock")
    /\ UNCHANGED <<_fd, table, size, name, rotated, fd, mutex, second>>

Unlock(t) ==
    /\ pc[t] = "unlock"
    /\ mutex' = Nobody
    /\ Go(t, "idle")
    /\ UNCHANGED <<_fd, table, size, name, rotated, fd, second>>
-----------------------------------------------------------------------------
(* rotateLog.                                                              *)

\* The new name has the second; a file that has it already is replaced.
Rename(t) ==
    /\ pc[t] = "rename"
    /\ rotated' = [rotated EXCEPT ![second] = name]
    /\ name' = NoFile
    /\ Go(t, "open")
    /\ UNCHANGED <<_fd, table, size, fd, mutex, second>>

\* open takes the lowest free descriptor, and creates the file.
Open(t) ==
    /\ pc[t] = "open"
    /\ Cardinality(Opened) < MaxFiles
    /\ IF Free = {}
       THEN /\ fd' = [fd EXCEPT ![t] = NoFd]
            /\ UNCHANGED <<table, size, name>>
       ELSE LET f == Cardinality(Opened) + 1
            IN  /\ fd' = [fd EXCEPT ![t] = Min(Free)]
                /\ table' = [table EXCEPT ![Min(Free)] = f]
                /\ size' = [g \in Opened \cup {f} |-> IF g = f THEN 0 ELSE size[g]]
                /\ name' = f
    /\ Go(t, "close")
    /\ UNCHANGED <<_fd, rotated, mutex, second>>

Close(t) ==
    /\ pc[t] = "close"
    /\ table' = [table EXCEPT ![_fd] = Closed]
    /\ Go(t, "assign")
    /\ UNCHANGED <<_fd, size, name, rotated, fd, mutex, second>>

Assign(t) ==
    /\ pc[t] = "assign"
    /\ _fd' = fd[t]
    /\ Go(t, "unlock")
    /\ UNCHANGED <<table, size, name, rotated, fd, mutex, second>>
-----------------------------------------------------------------------------
(* The rest of the process.                                                *)

Connect ==
    /\ Free # {}
    /\ table' = [table EXCEPT ![Min(Free)] = Socket]
    /\ UNCHANGED <<_fd, size, name, rotated, pc, fd, mutex, second>>

Disconnect ==
    /\ \E n \in Fds : table[n] = Socket /\ table' = [table EXCEPT ![n] = Closed]
    /\ UNCHANGED <<_fd, size, name, rotated, pc, fd, mutex, second>>

Tick ==
    /\ second < MaxSeconds
    /\ second' = second + 1
    /\ UNCHANGED <<_fd, table, size, name, rotated, pc, fd, mutex>>

\* setFileName has opened the first log file.
Init ==
    /\ _fd = Min(Fds)
    /\ table = [n \in Fds |-> IF n = Min(Fds) THEN 1 ELSE Closed]
    /\ size = [f \in {1} |-> 0] /\ name = 1
    /\ rotated = [s \in 0 .. MaxSeconds |-> NoFile]
    /\ pc = [t \in Threads |-> "idle"] /\ fd = [t \in Threads |-> NoFd]
    /\ mutex = Nobody /\ second = 0

Next ==
    \/ \E t \in Threads :
        \/ LoadFd(t) \/ Writev(t) \/ Lock(t) \/ Lseek(t) \/ Unlock(t)
        \/ Rename(t) \/ Open(t) \/ Close(t) \/ Assign(t)
    \/ Connect \/ Disconnect \/ Tick

Spec == Init /\ [][Next]_vars
-----------------------------------------------------------------------------
(* Properties.                                                             *)

\* No log file, rotated or not, outgrows the limit by more than one message
\* of each thread, although nobody holds the mutex while it writes: a thread
\* that has found the file below the limit, or waits for the one that
\* rotates it, writes at most once before it looks again.
\* A file that was renamed was full: the size was that of the very file which
\* has the name, and two threads do not rotate for the same full file.
SizeBounded ==
    /\ \A f \in Opened : size[f] < _maxFileSize + Cardinality(Threads) * Max(Sizes)
    /\ \A s \in DOMAIN rotated : rotated[s] # NoFile => size[rotated[s]] >= _maxFileSize

\* While nobody rotates, _fd is open on the file that has the name of the
\* log, unless there was no descriptor for a new one; no socket has its number.
LogIsOpen == mutex = Nobody => _fd = NoFd \/ (name # NoFile /\ table[_fd] = name)
=============================================================================
