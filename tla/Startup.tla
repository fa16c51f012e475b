------------------------------ MODULE Startup ------------------------------
(***************************************************************************)
(* The start of the program: main, daemonize, guard, the worker it forks   *)
(* and starts again, and the configuration each process works with         *)
(* (xHttpCache.cpp, util.cpp, xConfig.cpp).  A forked process has a copy   *)
(* of its parent's xConfig, and the worker loads the file once more over   *)
(* that copy.                                                              *)
(***************************************************************************)
EXTENDS IniFileOps

CONSTANTS
    Pids,          \* process ids
    NoPid,         \* no parent
    Files,         \* the contents a user gives the configuration file
    Atoi,          \* the number each text stands for
    MaxLaunches,   \* bound: how often the user starts the program
    MaxDeaths,     \* bound: processes that die of a signal or a crash
    MaxEdits       \* bound: edits of the file

ASSUME StartupAssumption ==
    /\ Pids \subseteq Nat /\ NoPid \notin Pids
    /\ MaxLaunches \in Nat /\ MaxDeaths \in Nat /\ MaxEdits \in Nat

VARIABLES
    file,          \* the configuration file
    pc,            \* where each process is; "none" when there is no such process
    conf,          \* its xConfig
    loads,         \* history: the files loaded into it, before a fork or since
    parent,        \* the guard that waits for it
    ssl,           \* the certificates its two HTTP servers use
    launch,        \* history: the launch it belongs to
    launches, deaths, edits

proc == <<pc, conf, loads, parent, ssl, launch>>
vars == <<file, proc, launches, deaths, edits>>
-----------------------------------------------------------------------------
(* xConfig.                                                                *)

\* The static xConfig before any Load.
ZeroConf ==
    [guard |-> 0, daemonize |-> 0, etag_cache_count |-> 0, etag_cache_size |-> 0,
     max_upload_file_size |-> 0, frontend |-> <<"", "">>, backend |-> <<"", "">>,
     encode_pass |-> <<>>]

GetValueI(x, s, n, def) == Atoi[GetValue(x, s, n, def)]

\* The credentials a file sets.
Credentials(x) ==
    LET user == GetValue(x, "xhttpd_backend", "username", "")
        pass == GetValue(x, "xhttpd_backend", "password", "")
    IN  IF user # "" /\ pass # "" THEN <<user, pass>> ELSE <<>>

\* LoadxHttpdAppConfig.  encode_pass is assigned only when both credentials
\* are there.
LoadApp(c, x) ==
    LET size == GetValueI(x, "xhttpcache", "etag_cache_size", "1000")
        upload == GetValueI(x, "xhttpd_backend", "max_upload_file_size", "10")
    IN  [guard     |-> GetValueI(x, "xhttpcache", "guard", "0"),
         daemonize |-> GetValueI(x, "xhttpcache", "daemonize", "0"),
         etag_cache_count |-> GetValueI(x, "xhttpcache", "etag_cache_count", "4"),
         etag_cache_size  |-> IF size = 0 THEN 1000 ELSE size,
         max_upload_file_size |-> IF upload > 0 THEN upload * 1024 ELSE 128 * 1024,
         frontend  |-> <<GetValue(x, "xhttpd_frontend", "pemfile", ""),
                         GetValue(x, "xhttpd_frontend", "privfile", "")>>,
         backend   |-> <<GetValue(x, "xhttpd_backend", "pemfile", ""),
                         GetValue(x, "xhttpd_backend", "privfile", "")>>,
         encode_pass |-> IF Credentials(x) # <<>> THEN Credentials(x)
                                                  ELSE c.encode_pass]

\* What ReadFile makes of each file.
ReadFile == [f \in Files |-> Read(Empty, f)]

\* Load that applies what ReadFile had read when it gave up.
LoadPart(c, f) == LoadApp(c, ReadFile[f].ini)

Readable(f) == ~ReadFile[f].failed /\ ReadFile[f].ini.sections # <<>>

\* Load leaves the configuration alone when the file cannot be read.
Load(c, f) == IF Readable(f) THEN LoadApp(c, ReadFile[f].ini) ELSE c
-----------------------------------------------------------------------------
(* Processes.                                                              *)

NoSSL == [frontend |-> "", backend |-> ""]

\* The process id the next process gets.
IsNew(q) == pc[q] = "none" /\ \A r \in Pids : pc[r] = "none" => q <= r

Loaded(p, c) ==
    /\ conf' = [conf EXCEPT ![p] = c]
    /\ loads' = [loads EXCEPT ![p] = Append(@, file)]

\* fork: the child q goes on at c, the parent p at d.
Fork(p, q, c, d, waits) ==
    /\ IsNew(q)
    /\ pc' = [pc EXCEPT ![q] = c, ![p] = d]
    /\ conf' = [conf EXCEPT ![q] = conf[p]]
    /\ loads' = [loads EXCEPT ![q] = loads[p]]
    /\ launch' = [launch EXCEPT ![q] = launch[p]]
    /\ parent' = [parent EXCEPT ![q] = IF waits THEN p ELSE NoPid]
    /\ UNCHANGED <<file, ssl, launches, deaths, edits>>

\* Process p ends and stays at l; its children have no guard any more, and
\* the dead ones among them are gone.
Ends(p, l) ==
    /\ pc' = [q \in Pids |->
                 IF q = p THEN l
                 ELSE IF parent[q] = p /\ pc[q] \in {"killed", "exited"} THEN "none" ELSE pc[q]]
    /\ parent' = [q \in Pids |-> IF parent[q] = p THEN NoPid ELSE parent[q]]
    /\ UNCHANGED <<file, conf, loads, ssl, launch, launches, edits>>

Goto(p, l) ==
    /\ pc' = [pc EXCEPT ![p] = l]
    /\ UNCHANGED <<file, conf, loads, parent, ssl, launch, launches, deaths, edits>>

\* guard that does not wait for its child.
GuardNoWait(p, q) ==
    /\ pc[p] = "guard"
    /\ Fork(p, q, "worker", "guard", TRUE)

\* guard that looks only for workers that exited.
GuardWaitExit(p, q) ==
    /\ pc[p] = "waiting" /\ parent[q] = p /\ pc[q] = "exited"
    /\ pc' = [pc EXCEPT ![q] = "none", ![p] = "none"]
    /\ UNCHANGED <<file, conf, loads, parent, ssl, launch, launches, deaths, edits>>
-----------------------------------------------------------------------------
(* main.                                                                   *)

Launch(p) ==
    /\ IsNew(p)
    /\ launches < MaxLaunches
    /\ launches' = launches + 1
    /\ launch' = [launch EXCEPT ![p] = launches + 1]
    /\ pc' = [pc EXCEPT ![p] = "main"]
    /\ conf' = [conf EXCEPT ![p] = ZeroConf]
    /\ loads' = [loads EXCEPT ![p] = <<>>]
    /\ parent' = [parent EXCEPT ![p] = NoPid]
    /\ UNCHANGED <<file, ssl, deaths, edits>>

Main(p) ==
    LET c == Load(conf[p], file) IN
    /\ pc[p] = "main"
    /\ Loaded(p, c)
    /\ pc' = [pc EXCEPT ![p] = IF c.daemonize = 1 THEN "daemonize" ELSE "run"]
    /\ UNCHANGED <<file, parent, ssl, launch, launches, deaths, edits>>

\* daemonize forks twice; the parent exits.  After any error it returns, and
\* main goes on with the process it is in.
DaemonizeFork(p, q) ==
    /\ pc[p] = "daemonize"
    /\ Fork(p, q, "detach", "none", FALSE)

DetachFork(p, q) ==
    /\ pc[p] = "detach"
    /\ Fork(p, q, "run", "none", FALSE)

DaemonizeError(p) == pc[p] \in {"daemonize", "detach"} /\ Goto(p, "run")

Run(p) ==
    /\ pc[p] = "run"
    /\ Goto(p, IF conf[p].guard = 1 THEN "guard" ELSE "worker")
-----------------------------------------------------------------------------
(* guard.                                                                  *)

GuardFork(p, q) ==
    /\ pc[p] = "guard"
    /\ Fork(p, q, "worker", "waiting", TRUE)

GuardForkFails(p) == pc[p] = "guard" /\ Goto(p, "none")

\* waitpid returns: the guard ends after exit status 0, and otherwise forks
\* again.
GuardWait(p, q) ==
    /\ pc[p] = "waiting" /\ parent[q] = p /\ pc[q] \in {"killed", "exited"}
    /\ pc' = [pc EXCEPT ![q] = "none", ![p] = IF pc[q] = "exited" THEN "none" ELSE "guard"]
    /\ UNCHANGED <<file, conf, loads, parent, ssl, launch, launches, deaths, edits>>

\* waitpid fails, and the guard leaves its worker alone.
GuardWaitFails(p) == pc[p] = "waiting" /\ Ends(p, "none") /\ UNCHANGED deaths
-----------------------------------------------------------------------------
(* The worker: xhttpcache().                                               *)

\* InitSSL does nothing unless both files are named; it is called on the
\* frontend both times.
InitSSL(cert, files) == IF "" \in {files[1], files[2]} THEN cert ELSE files[1]

Serve(p) ==
    LET c == Load(conf[p], file) IN
    /\ pc[p] = "worker"
    /\ Loaded(p, c)
    /\ ssl' = [ssl EXCEPT ![p] =
                  [frontend |-> InitSSL(InitSSL("", c.frontend), c.backend),
                   backend  |-> ""]]
    /\ pc' = [pc EXCEPT ![p] = "serving"]
    /\ UNCHANGED <<file, parent, launch, launches, deaths, edits>>

\* A crash, or a signal: signal_handler exits with -1.  bRun stays true, so
\* that the worker never returns.  A guard has no handler.
Die(p) ==
    /\ pc[p] \in {"serving", "guard", "waiting"}
    /\ deaths < MaxDeaths
    /\ deaths' = deaths + 1
    /\ Ends(p, IF parent[p] # NoPid /\ pc[parent[p]] = "waiting" THEN "killed" ELSE "none")

Edit ==
    /\ edits < MaxEdits
    /\ edits' = edits + 1
    /\ file' \in Files \ {file}
    /\ UNCHANGED <<proc, launches, deaths>>
-----------------------------------------------------------------------------
Init ==
    /\ file \in Files
    /\ pc = [p \in Pids |-> "none"]
    /\ conf = [p \in Pids |-> ZeroConf]
    /\ loads = [p \in Pids |-> <<>>]
    /\ parent = [p \in Pids |-> NoPid]
    /\ ssl = [p \in Pids |-> NoSSL]
    /\ launch = [p \in Pids |-> 0]
    /\ launches = 0 /\ deaths = 0 /\ edits = 0

Program(p) ==
    \/ Main(p) \/ DaemonizeError(p) \/ Run(p) \/ GuardForkFails(p) \/ Serve(p)
    \/ \E q \in Pids \ {p} :
        DaemonizeFork(p, q) \/ DetachFork(p, q) \/ GuardFork(p, q) \/ GuardWait(p, q)

Next ==
    \/ Edit
    \/ \E p \in Pids : Launch(p) \/ Die(p) \/ GuardWaitFails(p) \/ Program(p)

\* The operating system schedules every process; waitpid need not fail.
Spec == Init /\ [][Next]_vars /\ \A p \in Pids : WF_vars(Program(p))
-----------------------------------------------------------------------------
At(l, places) == {p \in Pids : launch[p] = l /\ pc[p] \in places}

(***************************************************************************)
(* A launch never has two workers, which would want the same ports and     *)
(* database, nor two processes on the way to one: daemonize ends the       *)
(* parents, and the guard forks again only once the worker is gone.        *)
(* (A worker whose guard was killed stays, and is not counted twice.)      *)
(***************************************************************************)
OneWorkerPerLaunch ==
    \A l \in 1 .. MaxLaunches :
        /\ Cardinality(At(l, {"worker", "serving"})) <= 1
        /\ Cardinality(At(l, {"main", "daemonize", "detach", "run", "guard", "waiting"})) <= 1
        /\ At(l, {"main", "daemonize", "detach", "run", "guard"}) = {}
              \/ At(l, {"worker", "serving"}) = {}

\* Of a sequence of loads, those of a file that could be read, and among them
\* those of a file that sets a password.
ReadLoads(s) == {i \in DOMAIN s : Readable(s[i])}
PasswordLoads(s) == {i \in ReadLoads(s) : Credentials(ReadFile[s[i]].ini) # <<>>}

\* The configuration that the last of some loads alone makes, without any load
\* the one at the start.
Latest(s, I) ==
    IF I = {} THEN ZeroConf
    ELSE LET last == CHOOSE i \in I : \A j \in I : j <= i
         IN  LoadApp(ZeroConf, ReadFile[s[last]].ini)

\* What a sequence of loads is to result in.
Expected(s) ==
    [Latest(s, ReadLoads(s)) EXCEPT !.encode_pass = Latest(s, PasswordLoads(s)).encode_pass]

(***************************************************************************)
(* Files are loaded one after the other into the configuration a worker    *)
(* ends up with, by main before the forks and by the worker itself.  Its   *)
(* password is that of the last file read that sets one, which stays when  *)
(* a later file sets none; all its other options are those of the last     *)
(* file that could be read to its end.                                     *)
(***************************************************************************)
ConfigWhole == \A p \in Pids : pc[p] = "serving" => conf[p] = Expected(loads[p])

(***************************************************************************)
(* A launch that has a guard gets a worker that serves, after every death  *)
(* of one, unless the guard itself goes.                                   *)
(***************************************************************************)
GuardKeepsServing ==
    \A l \in 1 .. MaxLaunches :
        At(l, {"guard", "waiting"}) # {}
            ~> (At(l, {"serving"}) # {} \/ At(l, {"guard", "waiting"}) = {})
=============================================================================
