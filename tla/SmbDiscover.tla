---------------------------- MODULE SmbDiscover ----------------------------
(***************************************************************************)
(* The process of smb_discover.c: main() and _execute_smb_request(), with  *)
(* what they share with the rest of the system -- the descriptor table,    *)
(* the fork inside daemon(), the standard output buffer of the C library,  *)
(* the signal handlers -- and the channel to the invoker.                  *)
(*                                                                         *)
(* The release build is modelled (SMB_DISCO_DEBUG undefined): SMBD_INFO is *)
(* a printf to standard output, SMBD_ERROR a write to standard error.      *)
(* A message is one record; its form says whether all of its bytes arrived  *)
(* ("whole"), only some ("cut"), or all bytes of a report that snprintf    *)
(* had already truncated ("garbled").  What the three utilities compute is *)
(* the response "doc", or "null" when they return no cJSON object.         *)
(***************************************************************************)
EXTENDS Integers, Sequences

CONSTANTS
  LaunchFds,   (* the sets of descriptors among 0..2 that the invoker may  *)
               (* leave open when it starts the program                    *)
  CredLens,    (* lengths of address, username and password together       *)
  PidLen,      (* digits of a process id                                   *)
  MaxSigpipe   (* bound: SIGPIPEs sent to the program from outside         *)

ASSUME LaunchAssumption ==
  /\ LaunchFds \subseteq SUBSET (0..2)
  /\ CredLens \subseteq Nat
  /\ 0 \in CredLens
  /\ PidLen \in Nat
  /\ MaxSigpipe \in Nat

VARIABLES
  env,       (* what the invoker set up: open descriptors, terminal or not *)
  cfg,       (* SmbDiscoverContext_st, as far as this file reads it        *)
  pc,        (* where the worker -- the process that goes on -- is         *)
  self,      (* the worker: "launcher", or "child" after daemon() forked   *)
  life,      (* of each process: unborn, running, or how it ended          *)
  fd,        (* of each process: the file behind each descriptor           *)
  srvFd,     (* smbSrvFd                                                   *)
  stdio,     (* of each process: log lines not yet flushed from stdout     *)
  reader,    (* of each channel: is somebody reading it                    *)
  stream,    (* of each channel: the messages written to it                *)
  noise,     (* of each channel: the number of log lines written to it     *)
  response,  (* cJSON *response                                            *)
  reportBy,  (* the process whose pid the report carries, once attempted   *)
  printed,   (* number of SMBD_INFO lines printed so far                   *)
  sigpipes   (* number of outside SIGPIPEs so far                          *)

vars == <<env, cfg, pc, self, life, fd, srvFd, stdio, reader, stream,
          noise, response, reportBy, printed, sigpipes>>

Procs    == {"launcher", "child"}
Fds      == 0..3
Channels == {"stdout", "sock"}
Files    == Channels \cup {"stdin", "stderr", "none"}
Modes    == {"smbclient", "nmblookup", "smbtree"}
Configs  == [mode : Modes, srv : BOOLEAN, daemonize : BOOLEAN, cred : CredLens]
Messages == [kind : {"report", "response"}, form : {"whole", "cut", "garbled"}]

Message(kind, form) == [kind |-> kind, form |-> form]

StdFile == [n \in Fds |-> IF n = 0 THEN "stdin" ELSE IF n = 1 THEN "stdout"
                          ELSE IF n = 2 THEN "stderr" ELSE "none"]
AllClosed == [n \in Fds |-> "none"]

-----------------------------------------------------------------------------
(* Descriptors, the C library's stdout buffer, and write().                *)

Running(p) == life[p] = "running"
Holds(p, file) == \E n \in Fds : fd[p][n] = file

(* socket() and connect() take the lowest free descriptor.                 *)
LowestFree(p) ==
  CHOOSE n \in Fds : /\ fd[p][n] = "none"
                     /\ \A m \in Fds : m < n => fd[p][m] # "none"

Target(p, n) == IF n \in Fds THEN fd[p][n] ELSE "none"

(* What process p puts into its descriptor n arrives only if that          *)
(* descriptor is a channel somebody reads.                                 *)
Arrives(p, n) ==
  Target(p, n) \in Channels /\ reader[Target(p, n)] = "reading"

(* The noise m after process p has written k log lines to descriptor n.    *)
Lines(m, p, n, k) ==
  IF Arrives(p, n) THEN [m EXCEPT ![Target(p, n)] = @ + k] ELSE m

(* SMBD_INFO: printed at once on a terminal, otherwise kept in the buffer. *)
InfoNoise(m, p) == IF env.tty THEN Lines(m, p, 1, 1) ELSE m
InfoStdio(p) == IF env.tty THEN stdio ELSE [stdio EXCEPT ![p] = @ + 1]

(* SMBD_ERROR: standard error is not buffered.                             *)
ErrorNoise(m, p) == Lines(m, p, 2, 1)

(* exit(): the buffered lines and one last line are written out.           *)
FlushedNoise(p) == Lines(noise, p, 1, stdio[p] + 1)

(* What may remain of message t after one write() of it by the worker.     *)
Kept(t) ==
  IF Arrives(self, srvFd) THEN {<<t>>, <<Message(t.kind, "cut")>>, <<>>} ELSE {<<>>}

(* A write nobody can read any more raises SIGPIPE; its handler logs a     *)
(* line and returns.                                                       *)
BrokenPipe ==
  Target(self, srvFd) \in Channels /\ reader[Target(self, srvFd)] = "gone"

Written(kept) ==
  /\ stream' = IF kept = <<>> THEN stream
               ELSE [stream EXCEPT ![Target(self, srvFd)] = @ \o kept]
  /\ stdio' = IF BrokenPipe THEN InfoStdio(self) ELSE stdio
  /\ printed' = IF BrokenPipe THEN printed + 1 ELSE printed
SigpipeNoise == IF BrokenPipe THEN InfoNoise(noise, self) ELSE noise

(* Process p is over: the kernel closes its descriptors.                   *)
Ends(p, how) ==
  /\ life' = [life EXCEPT ![p] = how]
  /\ fd' = [fd EXCEPT ![p] = AllClosed]
  /\ stdio' = [stdio EXCEPT ![p] = 0]

-----------------------------------------------------------------------------
(* The report: snprintf into reportMsg[256] with size sizeof - 1.          *)

ReportMax == 254
ReportLen(c) ==
  PidLen + CASE c.mode = "smbtree"   -> 49
             [] c.mode = "nmblookup" -> 51
             [] c.mode = "smbclient" -> 89 + c.cred
ReportToken(c) ==
  Message("report", IF ReportLen(c) <= ReportMax THEN "whole" ELSE "garbled")

-----------------------------------------------------------------------------
Init ==
  /\ env \in [fds : LaunchFds, tty : BOOLEAN]
  /\ env.tty => 1 \in env.fds
  /\ cfg = [mode |-> "smbclient", srv |-> FALSE, daemonize |-> FALSE, cred |-> 0]
  /\ pc = "start"
  /\ self = "launcher"
  /\ life = [p \in Procs |-> IF p = "launcher" THEN "running" ELSE "unborn"]
  /\ fd = [p \in Procs |-> IF p = "launcher"
             THEN [n \in Fds |-> IF n \in env.fds THEN StdFile[n] ELSE "none"]
             ELSE AllClosed]
  /\ srvFd = -1
  /\ stdio = [p \in Procs |-> 0]
  /\ reader = [stdout |-> "reading", sock |-> "none"]
  /\ stream = [c \in Channels |-> <<>>]
  /\ noise = [c \in Channels |-> 0]
  /\ response = "null"
  /\ reportBy = "none"
  /\ printed = 0
  /\ sigpipes = 0

Step(from, to) == pc = from /\ Running(self) /\ pc' = to

(* main(): the hello line, then _register_signals().                       *)
Start ==
  /\ Step("start", "options")
  /\ noise' = InfoNoise(noise, self)
  /\ stdio' = InfoStdio(self)
  /\ printed' = printed + 1
  /\ UNCHANGED <<env, cfg, self, life, fd, srvFd, reader, stream, response, reportBy,
                 sigpipes>>

(* main(): _parse_options() and _configs_check() accept the command line.  *)
AcceptConfig ==
  /\ Step("options", "open")
  /\ cfg' \in Configs
  /\ UNCHANGED <<env, self, life, fd, srvFd, stdio, reader, stream, noise, response,
                 reportBy, printed, sigpipes>>

(* main(): one of them refuses it; goto ENDS.                              *)
RejectConfig ==
  /\ Step("options", "exit")
  /\ cfg' \in Configs
  /\ noise' = ErrorNoise(noise, self)
  /\ UNCHANGED <<env, self, life, fd, srvFd, stdio, reader, stream, response,
                 reportBy, printed, sigpipes>>

(* Without -K the channel is descriptor 1, whatever that is.               *)
UseStdout ==
  /\ Step("open", "daemon")
  /\ ~cfg.srv
  /\ srvFd' = 1
  /\ UNCHANGED <<env, cfg, self, life, fd, stdio, reader, stream, noise, response,
                 reportBy, printed, sigpipes>>

(* Mutant of Connect: the socket is also put in place of standard output.  *)
ConnectOntoStdout ==
  /\ Step("open", "daemon")
  /\ cfg.srv
  /\ srvFd' = LowestFree(self)
  /\ fd' = [fd EXCEPT ![self] = [@ EXCEPT ![LowestFree(self)] = "sock", ![1] = "sock"]]
  /\ reader' = [reader EXCEPT !.sock = "reading"]
  /\ UNCHANGED <<env, cfg, self, life, stdio, stream, noise, response, reportBy,
                 printed, sigpipes>>

(* socket() and connect() succeed.                                         *)
Connect ==
  /\ Step("open", "daemon")
  /\ cfg.srv
  /\ srvFd' = LowestFree(self)
  /\ fd' = [fd EXCEPT ![self][LowestFree(self)] = "sock"]
  /\ reader' = [reader EXCEPT !.sock = "reading"]
  /\ UNCHANGED <<env, cfg, self, life, stdio, stream, noise, response, reportBy,
                 printed, sigpipes>>

(* Mutant of ConnectFails: a socket that did not connect is kept.          *)
ConnectFailsKeeping ==
  /\ Step("open", "daemon")
  /\ cfg.srv
  /\ srvFd' = LowestFree(self)
  /\ fd' = [fd EXCEPT ![self][LowestFree(self)] = "sock"]
  /\ noise' = ErrorNoise(noise, self)
  /\ UNCHANGED <<env, cfg, self, life, stdio, reader, stream, response, reportBy,
                 printed, sigpipes>>

(* socket() fails, or connect() does and the socket is closed again -- but *)
(* only if its descriptor is greater than 0.  The request goes on.         *)
ConnectFails ==
  /\ Step("open", "daemon")
  /\ cfg.srv
  /\ \/ srvFd' = -1 /\ UNCHANGED fd
     \/ /\ LowestFree(self) = 0
        /\ srvFd' = 0
        /\ fd' = [fd EXCEPT ![self][0] = "sock"]
  /\ noise' = ErrorNoise(noise, self)
  /\ UNCHANGED <<env, cfg, self, life, stdio, reader, stream, response, reportBy,
                 printed, sigpipes>>

(* daemon(FALSE, TRUE) forks: the child inherits the descriptors and a     *)
(* copy of the unflushed lines and carries on; the launcher is about to    *)
(* leave.  A failed fork is ignored.                                       *)
Daemonize ==
  /\ Step("daemon", "report")
  /\ cfg.daemonize
  /\ self' = "child"
  /\ life' = [life EXCEPT !["child"] = "running"]
  /\ fd' = [fd EXCEPT !["child"] = fd[self]]
  /\ stdio' = [stdio EXCEPT !["child"] = stdio[self]]
  /\ UNCHANGED <<env, cfg, srvFd, reader, stream, noise, response, reportBy, printed,
                 sigpipes>>

StayInForeground ==
  /\ Step("daemon", "report")
  /\ UNCHANGED <<env, cfg, self, life, fd, srvFd, stdio, reader, stream, noise,
                 response, reportBy, printed, sigpipes>>

(* Mutant of LauncherLeaves: exit(0) in place of _exit(0).                 *)
LauncherLeavesFlushing ==
  /\ self = "child"
  /\ Running("launcher")
  /\ noise' = Lines(noise, "launcher", 1, stdio["launcher"])
  /\ Ends("launcher", "exited")
  /\ UNCHANGED <<env, cfg, pc, self, srvFd, reader, stream, response, reportBy, printed,
                 sigpipes>>

(* The launcher's half of daemon(): _exit(0), which flushes nothing.       *)
LauncherLeaves ==
  /\ self = "child"
  /\ Running("launcher")
  /\ Ends("launcher", "exited")
  /\ UNCHANGED <<env, cfg, pc, self, srvFd, reader, stream, noise, response, reportBy,
                 printed, sigpipes>>

(* Mutant of Report: the pid is that of the process that was started.      *)
ReportLauncher ==
  /\ Step("report", "utility")
  /\ reportBy' = "launcher"
  /\ \E kept \in Kept(ReportToken(cfg)) : Written(kept)
  /\ noise' = SigpipeNoise
  /\ UNCHANGED <<env, cfg, self, life, fd, srvFd, reader, response, sigpipes>>

(* _report_self_to_server(): one write, its result ignored.                *)
Report ==
  /\ Step("report", "utility")
  /\ reportBy' = self
  /\ \E kept \in Kept(ReportToken(cfg)) : Written(kept)
  /\ noise' = SigpipeNoise
  /\ UNCHANGED <<env, cfg, self, life, fd, srvFd, reader, response, sigpipes>>

(* util_smbtree(), util_nmblookup() or util_smbclient() returns; on its way *)
(* it may have logged an error.                                            *)
UtilityReturns ==
  /\ Step("utility", "respond")
  /\ response' \in {"null", "doc"}
  /\ noise' \in {noise, ErrorNoise(noise, self)}
  /\ UNCHANGED <<env, cfg, self, life, fd, srvFd, stdio, reader, stream, reportBy,
                 printed, sigpipes>>

Response == Message("response", "whole")

(* Mutant of Respond: a write that was not full is tried again.            *)
RespondAgain ==
  /\ pc = "respond" /\ Running(self) /\ response = "doc"
  /\ \E kept \in Kept(Response) :
       /\ pc' = IF kept = <<Response>> THEN "cleanup" ELSE "respond"
       /\ Written(kept)
  /\ noise' = SigpipeNoise
  /\ UNCHANGED <<env, cfg, self, life, fd, srvFd, reader, response, reportBy,
                 sigpipes>>

(* The response is rendered and written once; a short or failed write is   *)
(* only logged.                                                            *)
Respond ==
  /\ Step("respond", "cleanup")
  /\ response = "doc"
  /\ \E kept \in Kept(Response) :
       /\ Written(kept)
       /\ noise' = IF kept = <<Response>> THEN noise
                   ELSE ErrorNoise(SigpipeNoise, self)
  /\ UNCHANGED <<env, cfg, self, life, fd, srvFd, reader, response, reportBy,
                 sigpipes>>

(* No response object, or cJSON_PrintUnformatted() finds no memory.        *)
NoResponse ==
  /\ Step("respond", "cleanup")
  /\ response \in {"null", "doc"}
  /\ noise' = ErrorNoise(noise, self)
  /\ UNCHANGED <<env, cfg, self, life, fd, srvFd, stdio, reader, stream, response,
                 reportBy, printed, sigpipes>>

(* Mutant of Cleanup: the channel is left for exit() to close.             *)
CleanupWithoutClose ==
  /\ Step("cleanup", "exit")
  /\ response' = "null"
  /\ UNCHANGED <<env, cfg, self, life, fd, srvFd, stdio, reader, stream, noise,
                 reportBy, printed, sigpipes>>

(* Mutant of Cleanup: cJSON_Delete() is forgotten.                         *)
CleanupKeepingResponse ==
  /\ Step("cleanup", "exit")
  /\ IF srvFd > 0
       THEN srvFd' = -1 /\ fd' = [fd EXCEPT ![self][srvFd] = "none"]
       ELSE UNCHANGED <<srvFd, fd>>
  /\ UNCHANGED <<env, cfg, self, life, stdio, reader, stream, noise, response,
                 reportBy, printed, sigpipes>>

(* Mutant of Cleanup: it waits for the invoker to hang up first.           *)
CleanupWhenReaderGone ==
  /\ Step("cleanup", "exit")
  /\ reader.sock # "reading"
  /\ response' = "null"
  /\ IF srvFd > 0
       THEN srvFd' = -1 /\ fd' = [fd EXCEPT ![self][srvFd] = "none"]
       ELSE UNCHANGED <<srvFd, fd>>
  /\ UNCHANGED <<env, cfg, self, life, stdio, reader, stream, noise, reportBy,
                 printed, sigpipes>>

(* ENDS: the channel is closed if its descriptor is greater than 0, and    *)
(* the response deleted.                                                   *)
Cleanup ==
  /\ Step("cleanup", "exit")
  /\ response' = "null"
  /\ IF srvFd > 0
       THEN srvFd' = -1 /\ fd' = [fd EXCEPT ![self][srvFd] = "none"]
       ELSE UNCHANGED <<srvFd, fd>>
  /\ UNCHANGED <<env, cfg, self, life, stdio, reader, stream, noise, reportBy,
                 printed, sigpipes>>

(* main() logs its last line and returns: exit() flushes what is buffered. *)
Exit ==
  /\ Step("exit", "gone")
  /\ noise' = FlushedNoise(self)
  /\ printed' = printed + 1
  /\ Ends(self, "exited")
  /\ UNCHANGED <<env, cfg, self, srvFd, reader, stream, response, reportBy, sigpipes>>

-----------------------------------------------------------------------------
(* Signals and the other end of the channel.                               *)

PcAfterEndOf(p) == IF p = self THEN "gone" ELSE pc

(* SIGINT or SIGTERM: the handler logs a line and calls exit(1).           *)
Terminate(p) ==
  /\ Running(p)
  /\ pc # "start"
  /\ pc' = PcAfterEndOf(p)
  /\ noise' = FlushedNoise(p)
  /\ printed' = printed + 1
  /\ Ends(p, "signalled")
  /\ UNCHANGED <<env, cfg, self, srvFd, reader, stream, response, reportBy, sigpipes>>

(* A SIGPIPE from outside: the handler logs a line and returns.            *)
Sigpipe(p) ==
  /\ Running(p)
  /\ pc # "start"
  /\ sigpipes < MaxSigpipe
  /\ sigpipes' = sigpipes + 1
  /\ noise' = InfoNoise(noise, p)
  /\ stdio' = InfoStdio(p)
  /\ printed' = printed + 1
  /\ UNCHANGED <<env, cfg, pc, self, life, fd, srvFd, reader, stream, response,
                 reportBy>>

(* SIGKILL, a fault, or a signal before the handlers are registered.       *)
Kill(p) ==
  /\ Running(p)
  /\ pc' = PcAfterEndOf(p)
  /\ Ends(p, "killed")
  /\ UNCHANGED <<env, cfg, self, srvFd, reader, stream, noise, response, reportBy,
                 printed, sigpipes>>

(* The invoker closes its end; a terminal stays.                           *)
ReaderCloses(c) ==
  /\ reader[c] = "reading"
  /\ c = "stdout" => ~env.tty
  /\ reader' = [reader EXCEPT ![c] = "gone"]
  /\ UNCHANGED <<env, cfg, pc, self, life, fd, srvFd, stdio, stream, noise, response,
                 reportBy, printed, sigpipes>>

Worker ==
  \/ Start \/ AcceptConfig \/ RejectConfig \/ UseStdout \/ Connect
  \/ ConnectFails \/ Daemonize \/ StayInForeground \/ Report
  \/ UtilityReturns \/ Respond \/ NoResponse \/ Cleanup \/ Exit

Environment ==
  \/ \E p \in Procs : Terminate(p) \/ Sigpipe(p) \/ Kill(p)
  \/ \E c \in Channels : ReaderCloses(c)

(* Nothing is left to run.                                                 *)
Finished == (\A p \in Procs : ~Running(p)) /\ UNCHANGED vars

Next == Worker \/ LauncherLeaves \/ Environment \/ Finished

Spec == Init /\ [][Next]_vars

(* The kernel schedules both processes, and the calls into Samba return.   *)
Fairness == WF_vars(Worker) /\ WF_vars(LauncherLeaves)

FairSpec == Spec /\ Fairness

-----------------------------------------------------------------------------
(* Properties.                                                             *)

(* The types of the variables.  The response object exists only from the   *)
(* return of the utility (smb_discover.c:422) to the cleanup (:480) or to  *)
(* an end of the worker in between.                                        *)
TypeOK ==
  /\ env \in [fds : LaunchFds, tty : BOOLEAN]
  /\ cfg \in Configs
  /\ pc \in {"start", "options", "open", "daemon", "report", "utility", "respond",
             "cleanup", "exit", "gone"}
  /\ self \in Procs
  /\ life \in [Procs -> {"unborn", "running", "exited", "signalled", "killed"}]
  /\ fd \in [Procs -> [Fds -> Files]]
  /\ srvFd \in Fds \cup {-1}
  /\ stdio \in [Procs -> Nat]
  /\ reader \in [Channels -> {"none", "reading", "gone"}]
  /\ stream \in [Channels -> Seq(Messages)]
  /\ noise \in [Channels -> Nat]
  /\ response \in {"null", "doc"}
  /\ response = "doc" => pc \in {"respond", "cleanup", "gone"}
  /\ reportBy \in Procs \cup {"none"}
  /\ printed \in Nat
  /\ sigpipes \in 0..MaxSigpipe

(* No log line reaches the socket of option -K, whatever the signals and   *)
(* however the process ends, provided the invoker started the program with *)
(* standard output and standard error open (smb_discover.c:369, 391).      *)
SocketCarriesOnlyMessages == {1, 2} \subseteq env.fds => noise.sock = 0

(* When standard output is a pipe, the invoker reads nothing from it but   *)
(* the report and the response: the log lines wait in the buffer of stdio  *)
(* and go down with the descriptor, which is closed before exit().  Only a *)
(* SIGINT or SIGTERM, or a configuration error, brings them out (:475-478). *)
StdoutCarriesOnlyMessages ==
  (/\ ~env.tty /\ ~cfg.srv /\ reportBy # "none"
   /\ \A p \in Procs : life[p] # "signalled") => noise.stdout = 0

(* The pid in the report is that of the process that does the work, which  *)
(* the invoker may want to stop: not that of the launcher that daemon()    *)
(* left behind (:310).                                                     *)
ReportNamesWorker ==
  reportBy # "none" => reportBy = self /\ (pc # "gone" => Running(reportBy))

(* Daemonizing with lines in the buffer duplicates none of them, unless a  *)
(* SIGINT or SIGTERM hits the launcher between fork() and _exit() (:404).  *)
LogsNotDuplicated ==
  life["launcher"] # "signalled" \/ self = "launcher" => noise.stdout <= printed

(* The worker holds the socket only once it is connected, under a single   *)
(* descriptor, the one in smbSrvFd, and no longer than the request lasts:  *)
(* a socket that did not connect is closed (smb_discover.c:391), and so is *)
(* the channel at ENDS (:475), so that the invoker sees the end of the     *)
(* stream before the process logs its last line.  Both tests take          *)
(* descriptor 0 for "no socket": hence 0 must be open at the start.        *)
SocketHeldOnlyForRequest ==
  0 \in env.fds =>
    \A n \in Fds : fd[self][n] = "sock" =>
      /\ n = srvFd
      /\ reader.sock # "none"
      /\ pc \in {"daemon", "report", "utility", "respond", "cleanup"}

(* What the invoker is promised: see InvokerChannel.                       *)
Channel == IF cfg.srv THEN "sock" ELSE "stdout"
Stage == IF pc \in {"exit", "gone"} THEN "ended"
         ELSE IF pc = "cleanup" THEN "answered"
         ELSE IF reportBy # "none" THEN "reported" ELSE "silent"
Abstract == INSTANCE InvokerChannel WITH stage <- Stage, sent <- stream[Channel]

(* Every run, however it ends, is one of the runs InvokerChannel allows:   *)
(* report before response, one of each at most, and nothing afterwards.    *)
ImplementsChannel == Abstract!Spec

(* An invoker that waits for the end of the stream gets it in the end,     *)
(* even when the program was daemonized and two processes held the socket. *)
EveryConnectionIsClosed ==
  reader.sock # "none" ~> \A p \in Procs : ~Holds(p, "sock")
=============================================================================
