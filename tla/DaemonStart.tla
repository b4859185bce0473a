----------------------------- MODULE DaemonStart ------------------------------
(***************************************************************************)
(* daemon/daemon.c as its callers use it (daemon/sample/daemon_test.c,     *)
(* libevent/myhttpd_daemon.c): Daemonize, then SingletonDaemon. Several    *)
(* shells may start the same command at once, and anyone may kill any of   *)
(* the processes at any point. process_func/daemon.c, which forks once and *)
(* takes no lock, is the program "plain".                                  *)
(***************************************************************************)
EXTENDS Naturals

CONSTANTS
  Starts,    \* bound: the commands ever entered at a shell
  NoOne

VARIABLES
  kind,       \* per start "single" (daemon.c) or "plain" (process_func/daemon.c)
  pc,         \* what the process of a start has done; see TypeOK
  forks,      \* per start its forks so far: a fork makes another process
  leader,     \* per start: leads a session
  tty,        \* per start: has a controlling terminal
  cwd,        \* per start its working directory
  lock,       \* the process that holds the record lock, NoOne or <<start, forks>>
  pidfile     \* what the file has in it, NoOne when it is empty

vars == <<kind, pc, forks, leader, tty, cwd, lock, pidfile>>

getpid(i) == <<i, forks[i]>>
Pids == Starts \X (0 .. 2)

Init ==
  /\ kind \in [Starts -> {"single", "plain"}]
  /\ pc = [i \in Starts |-> "none"]
  /\ forks = [i \in Starts |-> 0]
  /\ leader = [i \in Starts |-> FALSE]
  /\ tty = [i \in Starts |-> TRUE]
  /\ cwd = [i \in Starts |-> "home"]
  /\ lock = NoOne
  /\ pidfile = NoOne

To(i, from, to) == pc[i] = from /\ pc' = [pc EXCEPT ![i] = to]

Enters(i) ==
  /\ To(i, "none", "started")
  /\ UNCHANGED <<kind, forks, leader, tty, cwd, lock, pidfile>>

(* fork; the parent exits, and what it has locked is unlocked.             *)
Forks(i) ==
  /\ forks' = [forks EXCEPT ![i] = @ + 1]
  /\ leader' = [leader EXCEPT ![i] = FALSE]
  /\ lock' = IF lock = getpid(i) THEN NoOne ELSE lock

FirstFork(i) ==
  /\ To(i, "started", "forked")
  /\ Forks(i)
  /\ UNCHANGED <<kind, tty, cwd, pidfile>>

setsid(i) ==
  /\ To(i, "forked", "session")
  /\ leader' = [leader EXCEPT ![i] = TRUE]
  /\ tty' = [tty EXCEPT ![i] = FALSE]
  /\ UNCHANGED <<kind, forks, cwd, lock, pidfile>>

(* The session's leader goes on, for mutation.                             *)
ForksOnce(i) ==
  /\ kind[i] = "single"
  /\ To(i, "session", "forked twice")
  /\ UNCHANGED <<kind, forks, leader, tty, cwd, lock, pidfile>>

SecondFork(i) ==
  /\ kind[i] = "single"
  /\ To(i, "session", "forked twice")
  /\ Forks(i)
  /\ UNCHANGED <<kind, tty, cwd, pidfile>>

(* chdir("/"), and all descriptors closed.                                 *)
Detaches(i) ==
  /\ kind[i] = "single"
  /\ To(i, "forked twice", "detached")
  /\ cwd' = [cwd EXCEPT ![i] = "/"]
  /\ UNCHANGED <<kind, forks, leader, tty, lock, pidfile>>

(* process_func/daemon.c has done with setsid, and stays where it is.      *)
RunsPlain(i) ==
  /\ kind[i] = "plain"
  /\ To(i, "session", "running")
  /\ UNCHANGED <<kind, forks, leader, tty, cwd, lock, pidfile>>

(* The result of lockfile is not looked at, for mutation.                  *)
LocksAnyway(i) ==
  /\ To(i, "detached", "locked")
  /\ lock' = getpid(i)
  /\ UNCHANGED <<kind, forks, leader, tty, cwd, pidfile>>

(* open with O_CREAT leaves what is in the file, and F_SETLK does not wait.*)
lockfile(i) ==
  /\ lock = NoOne
  /\ To(i, "detached", "locked")
  /\ lock' = getpid(i)
  /\ UNCHANGED <<kind, forks, leader, tty, cwd, pidfile>>

AlreadyStarted(i) ==
  /\ lock # NoOne
  /\ To(i, "detached", "exited")
  /\ UNCHANGED <<kind, forks, leader, tty, cwd, lock, pidfile>>

ftruncate(i) ==
  /\ To(i, "locked", "truncated")
  /\ pidfile' = NoOne
  /\ UNCHANGED <<kind, forks, leader, tty, cwd, lock>>

(* At offset 0, so that the pid is all there is in the file.               *)
WritesPid(i) ==
  /\ To(i, "truncated", "running")
  /\ pidfile' = getpid(i)
  /\ UNCHANGED <<kind, forks, leader, tty, cwd, lock>>

(* myhttpd_daemon.c goes to the directory it serves.                       *)
ChangesDir(i) ==
  /\ kind[i] = "single" /\ pc[i] = "running" /\ cwd[i] = "/"
  /\ cwd' = [cwd EXCEPT ![i] = "served"]
  /\ UNCHANGED <<kind, pc, forks, leader, tty, lock, pidfile>>

-----------------------------------------------------------------------------
Alive(i) == pc[i] \notin {"none", "exited"}

(* A signal ends a process, and the kernel gives its lock back.            *)
Kill(i) ==
  /\ Alive(i)
  /\ pc' = [pc EXCEPT ![i] = "exited"]
  /\ lock' = IF lock = getpid(i) THEN NoOne ELSE lock
  /\ UNCHANGED <<kind, forks, leader, tty, cwd, pidfile>>

(* A daemon opens a terminal, /dev/console say: the leader of a session    *)
(* gets it for its controlling terminal.                                   *)
OpensTerminal(i) ==
  /\ pc[i] = "running" /\ leader[i]
  /\ tty' = [tty EXCEPT ![i] = TRUE]
  /\ UNCHANGED <<kind, pc, forks, leader, cwd, lock, pidfile>>

Next ==
  \E i \in Starts :
    \/ Enters(i) \/ FirstFork(i) \/ setsid(i) \/ SecondFork(i) \/ Detaches(i) \/ RunsPlain(i)
    \/ lockfile(i) \/ AlreadyStarted(i) \/ ftruncate(i) \/ WritesPid(i) \/ ChangesDir(i)
    \/ Kill(i) \/ OpensTerminal(i)

Spec == Init /\ [][Next]_vars
-----------------------------------------------------------------------------
(* What each process is and has, by the command that started it.           *)
TypeOK ==
  /\ kind \in [Starts -> {"single", "plain"}]
  /\ pc \in [Starts -> {"none", "started", "forked", "session", "forked twice", "detached",
                        "locked", "truncated", "running", "exited"}]
  /\ forks \in [Starts -> 0 .. 2]
  /\ leader \in [Starts -> BOOLEAN]
  /\ tty \in [Starts -> BOOLEAN]
  /\ cwd \in [Starts -> {"home", "/", "served"}]
  /\ lock \in Pids \union {NoOne}
  /\ pidfile \in Pids \union {NoOne}

Serves(i) == kind[i] = "single" /\ pc[i] = "running"

(***************************************************************************)
(* The pid file names the daemon that runs, whatever was started or killed *)
(* before and meanwhile; so there is at most one.                          *)
(***************************************************************************)
PidFileNamesTheDaemon == \A i \in Starts : Serves(i) => pidfile = getpid(i)

(***************************************************************************)
(* "we, as a non-session group leader, can never regain a controlling      *)
(* terminal" (daemon.c:37), nor keep the directory of the shell in use.    *)
(***************************************************************************)
Detached == \A i \in Starts : Serves(i) => ~ leader[i] /\ ~ tty[i] /\ cwd[i] # "home"
=============================================================================
