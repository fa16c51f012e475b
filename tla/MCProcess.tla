----------------------------- MODULE MCProcess -----------------------------
(***************************************************************************)
(* One model of the process around the servers: its start and guard        *)
(* (Startup) and the log (Logger).  They have no state in common: Init     *)
(* chooses which part moves and the other stays as it is.                  *)
(***************************************************************************)
EXTENDS Startup

CONSTANTS
    Threads, Sizes, _maxFileSize, Fds, MaxFiles, MaxSeconds

VARIABLES
    part,          \* the part that moves
    _fd, table, size, name, rotated, at, fd, mutex, second

logging == <<_fd, table, size, name, rotated, at, fd, mutex, second>>

Log == INSTANCE Logger WITH pc <- at

ASSUME Log!LoggerAssumption
-----------------------------------------------------------------------------
(* The configuration files of Startup.                                     *)

MCSections == {"", "xhttpcache", "xhttpd_frontend", "xhttpd_backend"}

MCValueNames == {"guard", "daemonize", "etag_cache_count", "etag_cache_size",
                 "max_upload_file_size", "pemfile", "privfile", "username", "password"}

MCCheckCase == [n \in MCSections \cup MCValueNames |-> n]

MCAtoi == ("" :> 0) @@ ("0" :> 0) @@ ("1" :> 1) @@ ("4" :> 4) @@ ("8" :> 8)
              @@ ("10" :> 10) @@ ("200" :> 200) @@ ("1000" :> 1000)

Common(guard, daemonize) ==
    <<SectionLine("xhttpcache"), ValueLine("guard", guard), ValueLine("daemonize", daemonize)>>

\* As the shipped xhttpcache.cnf sets these options, with a guard.
Shipped ==
    Common("1", "1")
        \o <<SectionLine("xhttpd_frontend"), ValueLine("etag_cache_count", "8"),
             ValueLine("pemfile", ""), ValueLine("privfile", ""),
             SectionLine("xhttpd_backend"), ValueLine("username", "admin"),
             ValueLine("password", "admin123"), ValueLine("max_upload_file_size", "200")>>

\* No password any more, and a certificate for the backend.
Later ==
    Common("1", "0")
        \o <<SectionLine("xhttpd_backend"), ValueLine("username", ""),
             ValueLine("pemfile", "backend.pem"), ValueLine("privfile", "backend.key")>>

\* A line that is not text.
Broken == Common("0", "0") \o <<BinaryLine>> \o <<SectionLine("xhttpd_backend")>>

MCFiles == {Shipped, Later, Broken}
-----------------------------------------------------------------------------
MCInit == part \in {"startup", "log"} /\ Init /\ Log!Init /\ (part = "log" => file = Shipped)

MCNext ==
    /\ UNCHANGED part
    /\ \/ part = "startup" /\ Next     /\ UNCHANGED logging
       \/ part = "log"     /\ Log!Next /\ UNCHANGED vars

MCSpec ==
    /\ MCInit /\ [][MCNext]_<<part, vars, logging>>
    /\ \A p \in Pids : WF_vars(Program(p))
-----------------------------------------------------------------------------
(* The properties of the log, see Logger.                                  *)

\* No log file outgrows the limit by more than a message of each thread, and
\* only full ones are renamed.
SizeBounded == Log!SizeBounded

\* While nobody rotates, _fd is open on the file that has the log's name.
LogIsOpen == Log!LogIsOpen
=============================================================================
