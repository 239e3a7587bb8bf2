------------------------- MODULE SmbDiscoverProofs -------------------------
(***************************************************************************)
(* The safety properties of SmbDiscover, for every set of launch           *)
(* descriptors, every length of the credentials and any number of signals. *)
(* All of them follow from one inductive invariant, IInv.                  *)
(***************************************************************************)
EXTENDS SmbDiscover, TLAPS

Before == {"start", "options", "open"}
During == {"daemon", "report", "utility", "respond", "cleanup"}

(* Who runs, and which process the report names.                           *)
ProcInv ==
  /\ pc # "gone" <=> Running(self)
  /\ self = "launcher" => life["child"] = "unborn"
  /\ pc \in Before \cup {"daemon"} => self = "launcher"
  /\ pc \in Before \cup {"daemon", "report"} => reportBy = "none"
  /\ reportBy # "none" => reportBy = self

(* What is behind the descriptors.                                         *)
FdInv ==
  /\ pc \in Before =>
       /\ srvFd = -1
       /\ \A n \in Fds : fd[self][n] = IF n \in env.fds THEN StdFile[n] ELSE "none"
  /\ \A p \in Procs : fd[p][2] # "stdout"
  /\ {1, 2} \subseteq env.fds =>
       \A p \in Procs : fd[p][1] # "sock" /\ fd[p][2] # "sock"
  /\ \A n \in Fds : fd[self][n] = "sock" => n = srvFd
  /\ \A n \in Fds : fd[self][n] = "sock" =>
       pc \in During \cup {"exit"} /\ (0 \in env.fds => reader["sock"] # "none")
  /\ 0 \in env.fds => srvFd # 0
  /\ pc \in During /\ ~cfg.srv => srvFd = 1
  /\ pc = "exit" => /\ srvFd <= 0
                    /\ reportBy # "none" /\ ~cfg.srv => fd[self][1] = "none"

(* Where the log lines are.                                                *)
LogInv ==
  /\ {1, 2} \subseteq env.fds => noise["sock"] = 0
  /\ (/\ ~env.tty
      /\ \A p \in Procs : life[p] # "signalled"
      /\ pc \notin {"exit", "gone"} \/ (reportBy # "none" /\ ~cfg.srv))
     => noise["stdout"] = 0
  /\ life["launcher"] # "signalled" \/ self = "launcher" =>
       noise["stdout"] + stdio[self] <= printed

IInv == TypeOK /\ ProcInv /\ FdInv /\ LogInv

-----------------------------------------------------------------------------
(* Lemmas on the descriptor table, the log lines and write().              *)

(* While a descriptor is free, the lowest free one is.                     *)
LEMMA LowestFreeIsFree ==
  ASSUME NEW p \in Procs, \E n \in Fds : fd[p][n] = "none"
  PROVE  LowestFree(p) \in Fds /\ fd[p][LowestFree(p)] = "none"
<1>1. PICK k \in Fds : /\ fd[p][k] = "none"
                       /\ \A m \in Fds : m < k => fd[p][m] # "none"
  BY SMTT(30) DEF Fds
<1> QED BY <1>1 DEF LowestFree

(* Writing k lines adds them to the channel behind the descriptor, or to   *)
(* none.                                                                   *)
LEMMA LinesAdd ==
  ASSUME NEW m \in [Channels -> Nat], NEW p \in Procs, NEW n, NEW k \in Nat
  PROVE  /\ Lines(m, p, n, k) \in [Channels -> Nat]
         /\ \A c \in Channels :
              /\ Lines(m, p, n, k)[c] \in Nat
              /\ Lines(m, p, n, k)[c] <= m[c] + k
              /\ Target(p, n) # c => Lines(m, p, n, k)[c] = m[c]
BY DEF Lines, Arrives

(* write() leaves the types as they are.                                   *)
LEMMA WrittenTypes ==
  ASSUME TypeOK, NEW t \in Messages, NEW kept \in Kept(t), Written(kept)
  PROVE  /\ stream' \in [Channels -> Seq(Messages)]
         /\ stdio' \in [Procs -> Nat]
         /\ printed' \in Nat
<1>1. stdio' \in [Procs -> Nat] /\ printed' \in Nat
  BY DEF Written, TypeOK, InfoStdio
<1>2. CASE kept = <<>>
  BY <1>1, <1>2 DEF Written, TypeOK
<1>3. CASE kept # <<>>
  <2>1. /\ Target(self, srvFd) \in Channels
        /\ kept = <<t>> \/ kept = <<Message(t.kind, "cut")>>
    BY <1>3 DEF Kept, Arrives
  <2>2. Message(t.kind, "cut") \in Messages
    BY DEF Message, Messages
  <2>3. \A m \in Messages : <<m>> \in Seq(Messages)
    OBVIOUS
  <2>4. kept \in Seq(Messages)
    BY <2>1, <2>2, <2>3
  <2>5. stream[Target(self, srvFd)] \o kept \in Seq(Messages)
    BY <2>1, <2>4 DEF TypeOK
  <2> QED BY <1>1, <1>3, <2>1, <2>5 DEF Written, TypeOK
<1> QED BY <1>2, <1>3

(* The report is a message.                                                *)
LEMMA ReportTokenType == ReportToken(cfg) \in Messages
BY DEF ReportToken, Message, Messages

-----------------------------------------------------------------------------
(* The invariant holds at first.                                           *)
LEMMA InitIInv == Init => IInv
<1> SUFFICES ASSUME Init PROVE IInv
  OBVIOUS
<1>1. TypeOK
  BY LaunchAssumption
  DEF Init, TypeOK, Configs, Modes, Procs, Fds, Channels, Files, StdFile, AllClosed
<1>2. ProcInv /\ FdInv /\ LogInv
  BY <1>1 DEF Init, ProcInv, FdInv, LogInv, Procs, Fds, Channels, Running, StdFile,
              AllClosed, Before, During, TypeOK
<1> QED BY <1>1, <1>2 DEF IInv

-----------------------------------------------------------------------------
(* Every action keeps the types.                                           *)

(* So do the log lines.                                                    *)
LEMMA NoiseTypes ==
  ASSUME TypeOK, NEW p \in Procs
  PROVE  /\ InfoNoise(noise, p) \in [Channels -> Nat]
         /\ ErrorNoise(noise, p) \in [Channels -> Nat]
         /\ SigpipeNoise \in [Channels -> Nat]
         /\ ErrorNoise(SigpipeNoise, p) \in [Channels -> Nat]
         /\ FlushedNoise(p) \in [Channels -> Nat]
         /\ InfoStdio(p) \in [Procs -> Nat]
<1>1. \A q \in Procs : InfoNoise(noise, q) \in [Channels -> Nat]
  BY LinesAdd DEF TypeOK, InfoNoise
<1>2. SigpipeNoise \in [Channels -> Nat]
  BY <1>1 DEF SigpipeNoise, TypeOK
<1>3. stdio[p] + 1 \in Nat
  BY DEF TypeOK
<1>4. FlushedNoise(p) \in [Channels -> Nat]
  BY <1>3, LinesAdd DEF TypeOK, FlushedNoise
<1>5. /\ ErrorNoise(noise, p) \in [Channels -> Nat]
      /\ ErrorNoise(SigpipeNoise, p) \in [Channels -> Nat]
  BY <1>2, LinesAdd DEF TypeOK, ErrorNoise
<1>6. InfoStdio(p) \in [Procs -> Nat]
  BY DEF TypeOK, InfoStdio
<1> QED BY <1>1, <1>2, <1>4, <1>5, <1>6

(* So does the end of a process.                                           *)
LEMMA EndsTypes ==
  ASSUME TypeOK, NEW p \in Procs, NEW how \in {"exited", "signalled", "killed"},
         Ends(p, how)
  PROVE  /\ life' \in [Procs -> {"unborn", "running", "exited", "signalled", "killed"}]
         /\ fd' \in [Procs -> [Fds -> Files]]
         /\ stdio' \in [Procs -> Nat]
BY DEF Ends, TypeOK, AllClosed, Files

(* So does every step.                                                     *)
LEMMA NextTypeOK ==
  ASSUME TypeOK, ProcInv, FdInv, [Next]_vars
  PROVE  TypeOK'
<1> USE LaunchAssumption DEF Step
<1>0. self \in Procs
  BY DEF TypeOK
<1>1. CASE Start
  BY <1>0, <1>1, NoiseTypes DEF Start, TypeOK
<1>2. CASE AcceptConfig
  BY <1>2 DEF AcceptConfig, TypeOK
<1>3. CASE RejectConfig
  BY <1>0, <1>3, NoiseTypes DEF RejectConfig, TypeOK
<1>4. CASE UseStdout
  BY <1>4 DEF UseStdout, TypeOK, Fds
<1>5. CASE Connect
  <2>1. LowestFree(self) \in Fds
    <3>1. fd[self][3] = "none"
      BY <1>5 DEF Connect, FdInv, Before, Fds, TypeOK, StdFile
    <3> QED BY <1>0, <3>1, LowestFreeIsFree DEF Fds
  <2> QED BY <1>0, <1>5, <2>1 DEF Connect, TypeOK, Files, Channels
<1>6. CASE ConnectFails
  <2>1. /\ srvFd' \in Fds \cup {-1}
        /\ fd' \in [Procs -> [Fds -> Files]]
    <3>1. CASE srvFd' = -1 /\ UNCHANGED fd
      BY <3>1 DEF TypeOK
    <3>2. CASE srvFd' = 0 /\ fd' = [fd EXCEPT ![self][0] = "sock"]
      BY <1>0, <3>2 DEF TypeOK, Fds, Files, Channels
    <3> QED BY <1>6, <3>1, <3>2 DEF ConnectFails
  <2> QED BY <1>0, <1>6, <2>1, NoiseTypes DEF ConnectFails, TypeOK
<1>7. CASE Daemonize
  BY <1>0, <1>7 DEF Daemonize, TypeOK, Procs
<1>8. CASE StayInForeground
  BY <1>8 DEF StayInForeground, TypeOK
<1>9. CASE LauncherLeaves
  <2>1. Ends("launcher", "exited") /\ "launcher" \in Procs
    BY <1>9 DEF LauncherLeaves, Procs
  <2> QED BY <1>9, <2>1, EndsTypes DEF LauncherLeaves, TypeOK
<1>10. CASE Report
  <2>1. /\ stream' \in [Channels -> Seq(Messages)]
        /\ stdio' \in [Procs -> Nat]
        /\ printed' \in Nat
    BY <1>10, WrittenTypes, ReportTokenType DEF Report
  <2> QED BY <1>0, <1>10, <2>1, NoiseTypes DEF Report, TypeOK
<1>11. CASE UtilityReturns
  BY <1>0, <1>11, NoiseTypes DEF UtilityReturns, TypeOK
<1>12. CASE Respond
  <2>1. Response \in Messages
    BY DEF Response, Message, Messages
  <2>2. /\ stream' \in [Channels -> Seq(Messages)]
        /\ stdio' \in [Procs -> Nat]
        /\ printed' \in Nat
    BY <1>12, <2>1, WrittenTypes DEF Respond
  <2>3. noise' \in [Channels -> Nat]
    BY <1>0, <1>12, NoiseTypes DEF Respond, TypeOK
  <2> QED BY <1>12, <2>2, <2>3 DEF Respond, TypeOK
<1>13. CASE NoResponse
  BY <1>0, <1>13, NoiseTypes DEF NoResponse, TypeOK
<1>14. CASE Cleanup
  <2>1. /\ srvFd' \in Fds \cup {-1}
        /\ fd' \in [Procs -> [Fds -> Files]]
    <3>1. CASE srvFd > 0
      <4>1. srvFd' = -1 /\ fd' = [fd EXCEPT ![self][srvFd] = "none"]
        BY <1>14, <3>1 DEF Cleanup
      <4> QED BY <1>0, <4>1 DEF TypeOK, Files
    <3>2. CASE ~(srvFd > 0)
      BY <1>14, <3>2 DEF Cleanup, TypeOK
    <3> QED BY <3>1, <3>2
  <2> QED BY <1>14, <2>1 DEF Cleanup, TypeOK
<1>15. CASE Exit
  <2>1. Ends(self, "exited")
    BY <1>15 DEF Exit
  <2>2. noise' \in [Channels -> Nat]
    BY <1>0, <1>15, NoiseTypes DEF Exit
  <2>3. /\ life' \in [Procs -> {"unborn", "running", "exited", "signalled", "killed"}]
        /\ fd' \in [Procs -> [Fds -> Files]]
        /\ stdio' \in [Procs -> Nat]
    BY <1>0, <2>1, EndsTypes
  <2> QED BY <1>15, <2>2, <2>3 DEF Exit, TypeOK
<1>16. ASSUME NEW p \in Procs, Terminate(p) PROVE TypeOK'
  <2>1. Ends(p, "signalled")
    BY <1>16 DEF Terminate
  <2> QED BY <1>16, <2>1, EndsTypes, NoiseTypes, SMTT(40) DEF Terminate, TypeOK, PcAfterEndOf
<1>17. ASSUME NEW p \in Procs, Sigpipe(p) PROVE TypeOK'
  BY <1>17, NoiseTypes DEF Sigpipe, TypeOK
<1>18. ASSUME NEW p \in Procs, Kill(p) PROVE TypeOK'
  <2>1. Ends(p, "killed")
    BY <1>18 DEF Kill
  <2> QED BY <1>18, <2>1, EndsTypes DEF Kill, TypeOK, PcAfterEndOf
<1>19. ASSUME NEW c \in Channels, ReaderCloses(c) PROVE TypeOK'
  BY <1>19 DEF ReaderCloses, TypeOK
<1>20. CASE UNCHANGED vars
  BY <1>20 DEF vars, TypeOK
<1> QED
  BY <1>1, <1>2, <1>3, <1>4, <1>5, <1>6, <1>7, <1>8, <1>9, <1>10, <1>11, <1>12, <1>13,
     <1>14, <1>15, <1>16, <1>17, <1>18, <1>19, <1>20
  DEF Next, Worker, Environment, Finished

-----------------------------------------------------------------------------
(* Every action keeps the other three parts of IInv.                       *)

(* Every step keeps what is known about the processes.                     *)
LEMMA NextProcInv ==
  ASSUME TypeOK, ProcInv, [Next]_vars
  PROVE  ProcInv'
<1> USE DEF Step, ProcInv, Running, Procs, Before
<1>1. CASE Start \/ AcceptConfig \/ RejectConfig \/ UseStdout
  BY <1>1 DEF Start, AcceptConfig, RejectConfig, UseStdout, TypeOK
<1>2. CASE Connect \/ ConnectFails \/ StayInForeground
  BY <1>2 DEF Connect, ConnectFails, StayInForeground, TypeOK
<1>3. CASE Daemonize
  BY <1>3 DEF Daemonize, TypeOK
<1>4. CASE LauncherLeaves
  BY <1>4 DEF LauncherLeaves, Ends, TypeOK
<1>5. CASE Report \/ UtilityReturns \/ Respond \/ NoResponse \/ Cleanup
  BY <1>5 DEF Report, UtilityReturns, Respond, NoResponse, Cleanup, TypeOK
<1>6. CASE Exit
  BY <1>6 DEF Exit, Ends, TypeOK
<1>7. ASSUME NEW p \in Procs, Terminate(p) \/ Kill(p) PROVE ProcInv'
  BY <1>7 DEF Terminate, Kill, Ends, PcAfterEndOf, TypeOK
<1>8. ASSUME NEW p \in Procs, Sigpipe(p) PROVE ProcInv'
  BY <1>8 DEF Sigpipe, TypeOK
<1>9. ASSUME NEW c \in Channels, ReaderCloses(c) PROVE ProcInv'
  BY <1>9 DEF ReaderCloses
<1>10. CASE UNCHANGED vars
  BY <1>10 DEF vars
<1> QED
  BY <1>1, <1>2, <1>3, <1>4, <1>5, <1>6, <1>7, <1>8, <1>9, <1>10
  DEF Next, Worker, Environment, Finished

(* Every step keeps what is known about the descriptors.                   *)
LEMMA NextFdInv ==
  ASSUME TypeOK, ProcInv, FdInv, [Next]_vars
  PROVE  FdInv'
<1> USE DEF Step, FdInv, Before, During
<1>0. self \in Procs /\ "launcher" \in Procs /\ "child" \in Procs
  BY DEF TypeOK, Procs
<1>1. CASE Start \/ AcceptConfig
  BY <1>0, <1>1 DEF Start, AcceptConfig
<1>2. CASE RejectConfig
  BY <1>0, <1>2 DEF RejectConfig, ProcInv
<1>3. CASE UseStdout
  BY <1>0, <1>3 DEF UseStdout, Fds, StdFile, TypeOK
<1>4. CASE Connect
  <2>1. \A n \in Fds : fd[self][n] = IF n \in env.fds THEN StdFile[n] ELSE "none"
    BY <1>4 DEF Connect
  <2>2. LowestFree(self) \in Fds /\ fd[self][LowestFree(self)] = "none"
    BY <1>0, <2>1, LowestFreeIsFree DEF Fds, StdFile
  <2>3. \A n \in Fds : n \in env.fds => LowestFree(self) # n
    <3>1. env.fds \subseteq 0..2
      BY LaunchAssumption DEF TypeOK
    <3>2. \A n \in Fds : n \in env.fds => fd[self][n] # "none"
      BY <2>1, <3>1 DEF Fds, StdFile
    <3> QED BY <2>2, <3>2
  <2>4. /\ srvFd' = LowestFree(self)
        /\ \A p \in Procs : \A n \in Fds :
             fd'[p][n] = IF p = self /\ n = LowestFree(self) THEN "sock" ELSE fd[p][n]
    BY <1>0, <1>4, <2>2 DEF Connect, TypeOK
  <2>5. \A n \in Fds : fd[self][n] # "sock"
    BY <2>1 DEF Fds, StdFile
  <2> QED BY <1>0, <1>4, <2>2, <2>3, <2>4, <2>5 DEF Connect, Fds
<1>5. CASE ConnectFails
  <2>1. \A n \in Fds : fd[self][n] # "sock"
    BY <1>5 DEF ConnectFails, Fds, StdFile
  <2>2. CASE srvFd' = -1 /\ UNCHANGED fd
    BY <1>0, <1>5, <2>1, <2>2 DEF ConnectFails
  <2>3. CASE LowestFree(self) = 0 /\ srvFd' = 0 /\ fd' = [fd EXCEPT ![self][0] = "sock"]
    <3>1. fd[self][0] = "none"
      BY <1>0, <1>5, <2>3, LowestFreeIsFree DEF ConnectFails, Fds, StdFile
    <3>2. 0 \notin env.fds
      BY <1>5, <3>1 DEF ConnectFails, Fds, StdFile
    <3>3. \A p \in Procs : \A n \in Fds :
            fd'[p][n] = IF p = self /\ n = 0 THEN "sock" ELSE fd[p][n]
      BY <1>0, <2>3 DEF TypeOK
    <3> QED BY <1>0, <1>5, <2>1, <2>3, <3>2, <3>3 DEF ConnectFails, Fds
  <2> QED BY <1>5, <2>2, <2>3 DEF ConnectFails
<1>6. CASE Daemonize
  BY <1>0, <1>6 DEF Daemonize, TypeOK, ProcInv, Fds
<1>7. CASE StayInForeground
  BY <1>7 DEF StayInForeground
<1>8. ASSUME NEW p \in Procs, NEW how, Ends(p, how),
             UNCHANGED <<env, cfg, self, srvFd, reportBy, reader>>,
             p # self => pc' = pc,
             pc' \notin Before \/ (pc' = pc /\ p # self),
             pc' \notin During \/ pc' = pc,
             pc' = "exit" => pc = "exit"
      PROVE  FdInv'
  <2>1. \A q \in Procs : \A n \in Fds :
          fd'[q][n] = IF q = p THEN "none" ELSE fd[q][n]
    BY <1>8 DEF Ends, TypeOK, AllClosed
  <2> QED BY <1>0, <1>8, <2>1 DEF Fds
<1>9. CASE LauncherLeaves
  BY <1>0, <1>8, <1>9 DEF LauncherLeaves, ProcInv
<1>10. CASE Report \/ UtilityReturns \/ Respond \/ NoResponse
  BY <1>10 DEF Report, UtilityReturns, Respond, NoResponse
<1>11. CASE Cleanup
  <2>1. CASE srvFd > 0
    <3>1. srvFd' = -1 /\ fd' = [fd EXCEPT ![self][srvFd] = "none"]
      BY <1>11, <2>1 DEF Cleanup
    <3>2. \A p \in Procs : \A n \in Fds :
            fd'[p][n] = IF p = self /\ n = srvFd THEN "none" ELSE fd[p][n]
      BY <1>0, <3>1 DEF TypeOK
    <3> QED BY <1>0, <1>11, <3>1, <3>2 DEF Cleanup, Fds
  <2>2. CASE ~(srvFd > 0)
    BY <1>11, <2>2 DEF Cleanup, TypeOK, Fds
  <2> QED BY <2>1, <2>2
<1>12. CASE Exit
  BY <1>0, <1>8, <1>12 DEF Exit
<1>13. ASSUME NEW p \in Procs, Terminate(p) \/ Kill(p) PROVE FdInv'
  BY <1>8, <1>13 DEF Terminate, Kill, PcAfterEndOf
<1>14. ASSUME NEW p \in Procs, Sigpipe(p) PROVE FdInv'
  BY <1>14 DEF Sigpipe
<1>15. ASSUME NEW c \in Channels, ReaderCloses(c) PROVE FdInv'
  BY <1>15 DEF ReaderCloses
<1>16. CASE UNCHANGED vars
  BY <1>16 DEF vars
<1> QED
  BY <1>1, <1>2, <1>3, <1>4, <1>5, <1>6, <1>7, <1>9, <1>10, <1>11, <1>12, <1>13, <1>14,
     <1>15, <1>16
  DEF Next, Worker, Environment, Finished

(* Every step keeps what is known about the log.                           *)
LEMMA NextLogInv ==
  ASSUME TypeOK, ProcInv, FdInv, LogInv, [Next]_vars
  PROVE  LogInv'
<1> USE DEF Step, LogInv, During, Before
<1>0. /\ self \in Procs /\ "launcher" \in Procs /\ "child" \in Procs
      /\ noise["stdout"] \in Nat /\ noise["sock"] \in Nat /\ printed \in Nat
      /\ "stdout" \in Channels /\ "sock" \in Channels
      /\ \A p \in Procs : stdio[p] \in Nat
  BY DEF TypeOK, Procs, Channels
(* Standard error is never standard output, nor the socket if it was open. *)
<1>1. ASSUME NEW m \in [Channels -> Nat], NEW p \in Procs
      PROVE  /\ ErrorNoise(m, p)["stdout"] = m["stdout"]
             /\ {1, 2} \subseteq env.fds => ErrorNoise(m, p)["sock"] = m["sock"]
  BY <1>0, <1>1, LinesAdd DEF ErrorNoise, FdInv, Target, Fds
(* A line printed is either on the channel or in the buffer.               *)
<1>2. ASSUME NEW p \in Procs
      PROVE  /\ ~env.tty => InfoNoise(noise, p) = noise
             /\ InfoNoise(noise, p)["stdout"] + InfoStdio(p)[self]
                  <= noise["stdout"] + stdio[self] + 1
             /\ {1, 2} \subseteq env.fds =>
                  InfoNoise(noise, p)["sock"] = noise["sock"]
  <2>1. CASE env.tty
    <3>1. InfoNoise(noise, p) = Lines(noise, p, 1, 1) /\ InfoStdio(p) = stdio
      BY <2>1 DEF InfoNoise, InfoStdio
    <3>2. noise \in [Channels -> Nat] /\ 1 \in Nat
      BY DEF TypeOK
    <3>3. /\ Lines(noise, p, 1, 1)["stdout"] <= noise["stdout"] + 1
          /\ Lines(noise, p, 1, 1)["stdout"] \in Nat
          /\ Target(p, 1) # "sock" =>
               Lines(noise, p, 1, 1)["sock"] = noise["sock"]
      BY <1>0, <3>2, LinesAdd
    <3>4. {1, 2} \subseteq env.fds => Target(p, 1) # "sock"
      BY DEF FdInv, Target, Fds
    <3> QED BY <1>0, <2>1, <3>1, <3>3, <3>4
  <2>2. CASE ~env.tty
    BY <1>0, <2>2 DEF InfoNoise, InfoStdio, TypeOK
  <2> QED BY <2>1, <2>2
(* Flushing adds the buffered lines and one more to descriptor 1.          *)
<1>3. ASSUME NEW p \in Procs
      PROVE  /\ FlushedNoise(p)["stdout"] <= noise["stdout"] + stdio[p] + 1
             /\ fd[p][1] = "none" => FlushedNoise(p)["stdout"] = noise["stdout"]
             /\ {1, 2} \subseteq env.fds => FlushedNoise(p)["sock"] = noise["sock"]
             /\ FlushedNoise(p)["stdout"] \in Nat
  <2>1. stdio[p] + 1 \in Nat /\ noise \in [Channels -> Nat]
    BY <1>0 DEF TypeOK
  <2> QED BY <1>0, <2>1, LinesAdd DEF FlushedNoise, FdInv, Target, Fds
(* A step that adds no line, and does not come back from the end.          *)
<1>4. ASSUME env' = env, printed' = printed,
             noise'["stdout"] = noise["stdout"],
             {1, 2} \subseteq env.fds => noise'["sock"] = noise["sock"],
             stdio'[self'] \in Nat, stdio'[self'] <= stdio[self],
             \A p \in Procs : life[p] = "signalled" => life'[p] = "signalled",
             self' = "launcher" => self = "launcher",
             \/ pc \notin {"exit", "gone"}
             \/ pc' \in {"exit", "gone"} /\ UNCHANGED <<cfg, reportBy>>,
             pc' \notin {"exit", "gone"} \/ UNCHANGED <<cfg, reportBy>> \/ reportBy' = "none"
      PROVE  LogInv'
  BY <1>0, <1>4
(* A step in which process p prints one line.                              *)
<1>5. ASSUME NEW p \in Procs, UNCHANGED <<env, life, self>>, printed' = printed + 1,
             noise'["stdout"] = InfoNoise(noise, p)["stdout"],
             {1, 2} \subseteq env.fds =>
               noise'["sock"] = InfoNoise(noise, p)["sock"],
             stdio' = InfoStdio(p),
             pc \notin {"exit", "gone"} \/ UNCHANGED <<pc, cfg, reportBy>>
      PROVE  LogInv'
  <2>1. ~env.tty => noise'["stdout"] = noise["stdout"]
    BY <1>2, <1>5
  <2>2. noise'["stdout"] + stdio'[self'] <= noise["stdout"] + stdio[self] + 1
    BY <1>2, <1>5
  <2>3. {1, 2} \subseteq env.fds => noise'["sock"] = noise["sock"]
    BY <1>2, <1>5
  <2>4. noise'["stdout"] \in Nat /\ stdio'[self'] \in Nat
    BY <1>0, <1>5, NoiseTypes
  <2>5. life["launcher"] # "signalled" \/ self = "launcher" =>
          noise'["stdout"] + stdio'[self'] <= printed'
    BY <1>0, <1>5, <2>2, <2>4
  <2> QED BY <1>5, <2>1, <2>3, <2>5
<1>6. CASE Start
  BY <1>0, <1>5, <1>6 DEF Start
<1>7. CASE AcceptConfig \/ UseStdout \/ StayInForeground
  BY <1>0, <1>4, <1>7 DEF AcceptConfig, UseStdout, StayInForeground
<1>8. CASE RejectConfig
  <2>1. /\ noise'["stdout"] = noise["stdout"]
        /\ {1, 2} \subseteq env.fds => noise'["sock"] = noise["sock"]
    BY <1>0, <1>1, <1>8 DEF RejectConfig, TypeOK
  <2>2. reportBy' = "none"
    BY <1>8 DEF RejectConfig, ProcInv
  <2> QED BY <1>0, <1>4, <1>8, <2>1, <2>2 DEF RejectConfig
<1>9. CASE Connect
  BY <1>0, <1>4, <1>9 DEF Connect
<1>10. CASE ConnectFails
  <2>1. /\ noise'["stdout"] = noise["stdout"]
        /\ {1, 2} \subseteq env.fds => noise'["sock"] = noise["sock"]
    BY <1>0, <1>1, <1>10 DEF ConnectFails, TypeOK
  <2> QED BY <1>0, <1>4, <1>10, <2>1 DEF ConnectFails
<1>11. CASE Daemonize
  <2>1. stdio'[self'] = stdio[self] /\ life'["launcher"] = life["launcher"]
    BY <1>0, <1>11 DEF Daemonize, TypeOK, Procs
  <2>2. /\ \A p \in Procs : life[p] = "signalled" => life'[p] = "signalled"
        /\ self' = "launcher" => self = "launcher"
    BY <1>0, <1>11, <2>1 DEF Daemonize, TypeOK, ProcInv, Procs, Running
  <2> QED BY <1>0, <1>4, <1>11, <2>1, <2>2 DEF Daemonize
<1>12. CASE LauncherLeaves
  BY <1>0, <1>4, <1>12 DEF LauncherLeaves, Ends, TypeOK, Running
<1>13. CASE Report
  <2>1. UNCHANGED <<env, life, self>> /\ pc \notin {"exit", "gone"}
    BY <1>13 DEF Report
  <2>2. CASE BrokenPipe
    BY <1>0, <1>5, <1>13, <2>1, <2>2 DEF Report, Written, SigpipeNoise
  <2>3. CASE ~BrokenPipe
    BY <1>0, <1>4, <1>13, <2>1, <2>3 DEF Report, Written, SigpipeNoise
  <2> QED BY <2>2, <2>3
<1>14. CASE UtilityReturns
  BY <1>0, <1>1, <1>4, <1>14, ZenonT(60) DEF UtilityReturns, TypeOK
<1>15. CASE Respond
  <2>1. /\ UNCHANGED <<env, cfg, life, self, reportBy>>
        /\ pc \notin {"exit", "gone"}
    BY <1>15 DEF Respond
  <2>2. PICK kept \in Kept(Response) :
          /\ Written(kept)
          /\ noise' = IF kept = <<Response>> THEN noise
                      ELSE ErrorNoise(SigpipeNoise, self)
    BY <1>15 DEF Respond
  <2>3. SigpipeNoise \in [Channels -> Nat]
    BY <1>0, NoiseTypes
  <2>4. CASE BrokenPipe
    <3>1. kept = <<>> /\ <<>> # <<Response>>
      BY <2>2, <2>4 DEF Kept, Arrives, BrokenPipe
    <3>2. /\ noise'["stdout"] = InfoNoise(noise, self)["stdout"]
          /\ {1, 2} \subseteq env.fds =>
               noise'["sock"] = InfoNoise(noise, self)["sock"]
      BY <1>0, <1>1, <2>2, <2>3, <2>4, <3>1 DEF SigpipeNoise
    <3> QED BY <1>0, <1>5, <2>1, <2>2, <2>4, <3>2 DEF Written
  <2>5. CASE ~BrokenPipe
    <3>1. SigpipeNoise = noise
      BY <2>5 DEF SigpipeNoise
    <3>2. /\ noise'["stdout"] = noise["stdout"]
          /\ {1, 2} \subseteq env.fds => noise'["sock"] = noise["sock"]
      BY <1>0, <1>1, <2>2, <2>3, <3>1
    <3> QED BY <1>0, <1>4, <2>1, <2>2, <2>5, <3>2 DEF Written
  <2> QED BY <2>4, <2>5
<1>16. CASE NoResponse
  BY <1>0, <1>1, <1>4, <1>16 DEF NoResponse, TypeOK
<1>17. CASE Cleanup
  BY <1>0, <1>4, <1>17 DEF Cleanup
<1>18. CASE Exit
  <2>1. /\ UNCHANGED <<env, cfg, self, reportBy>> /\ pc = "exit" /\ pc' = "gone"
        /\ printed' = printed + 1 /\ noise' = FlushedNoise(self)
    BY <1>18 DEF Exit
  <2>2. life' = [life EXCEPT ![self] = "exited"] /\ stdio'[self] = 0
    BY <1>0, <1>18 DEF Exit, Ends, TypeOK
  <2>3. life[self] = "running"
    BY <1>18 DEF Exit, Running
  <2>4. \A p \in Procs : life'[p] # "signalled" => life[p] # "signalled"
    BY <1>0, <2>2, <2>3 DEF TypeOK
  <2>5. {1, 2} \subseteq env'.fds => noise'["sock"] = 0
    BY <1>0, <1>3, <2>1
  <2>6. reportBy # "none" /\ ~cfg.srv => FlushedNoise(self)["stdout"] = noise["stdout"]
    BY <1>0, <1>3, <2>1 DEF FdInv
  <2>7. FlushedNoise(self)["stdout"] <= noise["stdout"] + stdio[self] + 1
    BY <1>0, <1>3
  <2>8. life'["launcher"] # "signalled" \/ self' = "launcher" =>
          noise'["stdout"] + stdio'[self'] <= printed'
    BY <1>0, <1>3, <2>1, <2>2, <2>4, <2>7
  <2> QED BY <2>1, <2>4, <2>5, <2>6, <2>8
<1>19. ASSUME NEW p \in Procs, Terminate(p) PROVE LogInv'
  <2>1. life'[p] = "signalled" /\ stdio'[p] = 0
    BY <1>19 DEF Terminate, Ends, TypeOK
  <2>2. UNCHANGED <<env, self>> /\ printed' = printed + 1 /\ noise' = FlushedNoise(p)
    BY <1>19 DEF Terminate
  <2>3. CASE p = self
    <3>1. life[self] = "running"
      BY <1>19, <2>3 DEF Terminate, Running
    <3>2. \A q \in Procs : q # self => life'[q] = life[q]
      BY <1>19, <2>3 DEF Terminate, Ends, TypeOK
    <3>3. life'["launcher"] # "signalled" \/ self = "launcher" =>
            life["launcher"] # "signalled" \/ self = "launcher"
      BY <1>0, <3>2
    <3>4. FlushedNoise(self)["stdout"] <= noise["stdout"] + stdio[self] + 1
      BY <1>0, <1>3
    <3>5. /\ FlushedNoise(self)["stdout"] \in Nat
          /\ {1, 2} \subseteq env.fds => FlushedNoise(self)["sock"] = noise["sock"]
      BY <1>0, <1>3
    <3> QED BY <1>0, <2>1, <2>2, <2>3, <3>3, <3>4, <3>5
  <2>4. CASE p # self
    BY <1>0, <1>3, <1>19, <2>1, <2>2, <2>4
    DEF Terminate, Ends, TypeOK, ProcInv, Running, Procs
  <2> QED BY <2>3, <2>4
<1>20. ASSUME NEW p \in Procs, Sigpipe(p) PROVE LogInv'
  BY <1>0, <1>5, <1>20 DEF Sigpipe
<1>21. ASSUME NEW p \in Procs, Kill(p) PROVE LogInv'
  BY <1>0, <1>4, <1>21 DEF Kill, Ends, TypeOK, PcAfterEndOf, Running
<1>22. ASSUME NEW c \in Channels, ReaderCloses(c) PROVE LogInv'
  BY <1>0, <1>4, <1>22 DEF ReaderCloses
<1>23. CASE UNCHANGED vars
  BY <1>23 DEF vars
<1> QED
  BY <1>6, <1>7, <1>8, <1>9, <1>10, <1>11, <1>12, <1>13, <1>14, <1>15, <1>16, <1>17,
     <1>18, <1>19, <1>20, <1>21, <1>22, <1>23
  DEF Next, Worker, Environment, Finished

-----------------------------------------------------------------------------
(* IInv is an invariant.                                                   *)
LEMMA Invariance == Spec => []IInv
<1>1. Init => IInv
  BY InitIInv
<1>2. IInv /\ [Next]_vars => IInv'
  BY NextTypeOK, NextProcInv, NextFdInv, NextLogInv DEF IInv
<1> QED BY <1>1, <1>2, PTL DEF Spec

(* The variables keep their types.                                         *)
THEOREM TypeCorrect == Spec => []TypeOK
<1>1. IInv => TypeOK
  BY DEF IInv
<1> QED BY <1>1, Invariance, PTL

(* No log line ever reaches the socket (smb_discover.c:369, 391, 475).     *)
THEOREM SocketClean == Spec => []SocketCarriesOnlyMessages
<1>1. IInv => SocketCarriesOnlyMessages
  BY DEF IInv, LogInv, SocketCarriesOnlyMessages
<1> QED BY <1>1, Invariance, PTL

(* A pipe on standard output carries only the report and the response      *)
(* (smb_discover.c:475-478, 514).                                          *)
THEOREM StdoutClean == Spec => []StdoutCarriesOnlyMessages
<1>1. IInv => StdoutCarriesOnlyMessages
  BY DEF IInv, LogInv, StdoutCarriesOnlyMessages
<1> QED BY <1>1, Invariance, PTL

(* The report names the process that does the work (smb_discover.c:310).   *)
THEOREM WorkerNamed == Spec => []ReportNamesWorker
<1>1. IInv => ReportNamesWorker
  BY DEF IInv, ProcInv, ReportNamesWorker
<1> QED BY <1>1, Invariance, PTL

(* daemon() duplicates no log line (smb_discover.c:404).                   *)
THEOREM NoDuplicateLogs == Spec => []LogsNotDuplicated
<1>1. IInv => LogsNotDuplicated
  <2> SUFFICES ASSUME IInv PROVE LogsNotDuplicated
    OBVIOUS
  <2>1. stdio[self] \in Nat /\ noise["stdout"] \in Nat /\ printed \in Nat
    BY DEF IInv, TypeOK, Channels
  <2> QED BY <2>1 DEF IInv, LogInv, LogsNotDuplicated
<1> QED BY <1>1, Invariance, PTL

(* The worker holds the socket only while it is connected and only for the *)
(* request (smb_discover.c:391, 475).                                      *)
THEOREM SocketHeld == Spec => []SocketHeldOnlyForRequest
<1>1. IInv => SocketHeldOnlyForRequest
  BY DEF IInv, TypeOK, FdInv, During, SocketHeldOnlyForRequest, Fds
<1> QED BY <1>1, Invariance, PTL

-----------------------------------------------------------------------------
(* Refinement: srvFd stands for the channel of the configuration or for    *)
(* nothing, and nothing is on any channel before the report.               *)
ChannelInv ==
  /\ pc \in Before => \A c \in Channels : stream[c] = <<>>
  /\ pc \in During => Target(self, srvFd) \in {Channel, "none"}
  /\ pc \in {"utility", "respond", "cleanup"} => reportBy # "none"

(* Every step keeps what is known about the channel.                       *)
LEMMA NextChannelInv ==
  ASSUME IInv, ChannelInv, [Next]_vars
  PROVE  ChannelInv'
<1> USE DEF Step, ChannelInv, Before, During, Channel, IInv
<1>0. self \in Procs /\ "launcher" \in Procs /\ "child" \in Procs
  BY DEF TypeOK, Procs
<1>1. CASE Start \/ AcceptConfig \/ RejectConfig
  BY <1>1 DEF Start, AcceptConfig, RejectConfig
<1>2. CASE UseStdout
  BY <1>2 DEF UseStdout, FdInv, Target, StdFile, Fds
<1>3. CASE Connect
  <2>1. LowestFree(self) \in Fds
    BY <1>0, <1>3, LowestFreeIsFree DEF Connect, FdInv, Fds, StdFile, TypeOK
  <2>2. fd'[self'][srvFd'] = "sock"
    BY <1>0, <1>3, <2>1 DEF Connect, TypeOK
  <2> QED BY <1>3, <2>1, <2>2 DEF Connect, Target
<1>4. CASE ConnectFails
  <2>1. Target(self, srvFd)' \in {"sock", "none"}
    <3>1. CASE srvFd' = -1 /\ UNCHANGED fd
      BY <3>1 DEF Target, Fds
    <3>2. CASE srvFd' = 0 /\ fd' = [fd EXCEPT ![self][0] = "sock"]
      BY <1>0, <1>4, <3>2 DEF ConnectFails, Target, TypeOK, Fds
    <3> QED BY <1>4, <3>1, <3>2 DEF ConnectFails
  <2> QED BY <1>4, <2>1 DEF ConnectFails
<1>5. CASE Daemonize
  BY <1>0, <1>5 DEF Daemonize, TypeOK, Target
<1>6. CASE StayInForeground
  BY <1>6 DEF StayInForeground, Target
<1>7. CASE LauncherLeaves
  BY <1>0, <1>7 DEF LauncherLeaves, Ends, TypeOK, Target, ProcInv
<1>8. CASE Report
  BY <1>0, <1>8 DEF Report, Target, Procs
<1>9. CASE UtilityReturns \/ Respond \/ NoResponse \/ Cleanup
  BY <1>9 DEF UtilityReturns, Respond, NoResponse, Cleanup, Target
<1>10. CASE Exit
  BY <1>10 DEF Exit
<1>11. ASSUME NEW p \in Procs, Terminate(p) \/ Kill(p) PROVE ChannelInv'
  <2>1. CASE p = self
    BY <1>11, <2>1 DEF Terminate, Kill, PcAfterEndOf
  <2>2. CASE p # self
    <3>1. /\ UNCHANGED <<pc, self, cfg, srvFd, reportBy, stream>>
          /\ fd' = [fd EXCEPT ![p] = AllClosed]
      BY <1>11, <2>2 DEF Terminate, Kill, PcAfterEndOf, Ends
    <3>2. fd'[self] = fd[self]
      BY <1>0, <2>2, <3>1 DEF TypeOK
    <3> QED BY <3>1, <3>2 DEF Target
  <2> QED BY <2>1, <2>2
<1>12. ASSUME NEW p \in Procs, Sigpipe(p) PROVE ChannelInv'
  BY <1>12 DEF Sigpipe, Target
<1>13. ASSUME NEW c \in Channels, ReaderCloses(c) PROVE ChannelInv'
  BY <1>13 DEF ReaderCloses, Target
<1>14. CASE UNCHANGED vars
  BY <1>14 DEF vars, Target
<1> QED
  BY <1>1, <1>2, <1>3, <1>4, <1>5, <1>6, <1>7, <1>8, <1>9, <1>10, <1>11, <1>12, <1>13,
     <1>14
  DEF Next, Worker, Environment, Finished

(* A write of the worker is a Send of the abstract channel.                *)
LEMMA WriteSends ==
  ASSUME IInv, ChannelInv, pc \in During, NEW kind \in {"report", "response"},
         NEW form \in {"whole", "cut", "garbled"},
         NEW kept \in Kept(Message(kind, form)), Written(kept), cfg' = cfg
  PROVE  Abstract!Send(kind)
<1> USE DEF Abstract!Send, Abstract!Message, Abstract!Forms, Message
<1>1. CASE kept = <<>>
  BY <1>1 DEF Written, Channel
<1>2. CASE kept # <<>>
  <2>1. /\ Target(self, srvFd) \in Channels
        /\ kept = <<Message(kind, form)>> \/ kept = <<Message(kind, "cut")>>
    BY <1>2 DEF Kept, Arrives
  <2>2. PICK f \in {"whole", "cut", "garbled"} : kept = <<Message(kind, f)>>
    BY <2>1
  <2>3. Target(self, srvFd) = Channel
    BY <2>1 DEF ChannelInv, Channels
  <2>4. stream[Channel] \in Seq(Messages) /\ Message(kind, f) \in Messages
    BY <2>1, <2>3 DEF IInv, TypeOK, Messages
  <2>5. stream'[Channel] = stream[Channel] \o kept
    BY <1>2, <2>1, <2>3 DEF Written, IInv, TypeOK
  <2>6. stream'[Channel] = Append(stream[Channel], Message(kind, f))
    BY <2>2, <2>4, <2>5
  <2>7. Channel' = Channel
    BY DEF Channel
  <2> QED BY <2>6, <2>7
<1> QED BY <1>1, <1>2

(* Every step is one of InvokerChannel or changes nothing that it sees.    *)
LEMMA NextRefines ==
  ASSUME IInv, ChannelInv, [Next]_vars
  PROVE  Abstract!Next \/ UNCHANGED Abstract!channelVars
<1> USE DEF Step, Abstract!channelVars, Before, During
<1>0. self # "none"
  BY DEF IInv, TypeOK, Procs
<1>1. CASE Start \/ UseStdout \/ Connect \/ ConnectFails \/ Daemonize \/ StayInForeground
  BY <1>1 DEF Start, UseStdout, Connect, ConnectFails, Daemonize, StayInForeground,
              Stage, Channel
<1>2. CASE AcceptConfig \/ RejectConfig
  <2>1. \A c \in Channels : stream[c] = <<>> /\ stream'[c] = <<>>
    BY <1>2 DEF AcceptConfig, RejectConfig, ChannelInv
  <2>2. Channel \in Channels /\ Channel' \in Channels
    BY DEF Channel, Channels
  <2>3. UNCHANGED stream[Channel]
    BY <2>1, <2>2
  <2>4. reportBy = "none" /\ reportBy' = "none"
    BY <1>2 DEF AcceptConfig, RejectConfig, IInv, ProcInv
  <2> QED BY <1>2, <2>3, <2>4
          DEF AcceptConfig, RejectConfig, Stage, Abstract!Next, Abstract!End
<1>3. CASE LauncherLeaves
  BY <1>3 DEF LauncherLeaves, Stage, Channel
<1>4. CASE Report
  <2>1. Stage = "silent" /\ Stage' = "reported"
    BY <1>0, <1>4 DEF Report, Stage, IInv, ProcInv
  <2>2. PICK f \in {"whole", "cut", "garbled"} : ReportToken(cfg) = Message("report", f)
    BY DEF ReportToken
  <2>3. Abstract!Send("report")
    BY <1>4, <2>2, WriteSends DEF Report
  <2> QED BY <2>1, <2>3 DEF Abstract!Next, Abstract!Report
<1>5. CASE UtilityReturns
  BY <1>5 DEF UtilityReturns, Stage, Channel
<1>6. CASE Respond \/ NoResponse
  <2>1. Stage = "reported" /\ Stage' = "answered"
    BY <1>6 DEF Respond, NoResponse, Stage, ChannelInv
  <2>2. CASE Respond
    <3>1. Abstract!Send("response")
      BY <2>2, WriteSends DEF Respond, Response
    <3> QED BY <2>1, <3>1 DEF Abstract!Next, Abstract!Answer
  <2>3. CASE NoResponse
    BY <2>1, <2>3 DEF NoResponse, Channel, Abstract!Next, Abstract!Answer, Abstract!Send
  <2> QED BY <1>6, <2>2, <2>3
<1>7. CASE Cleanup
  BY <1>7 DEF Cleanup, Stage, Channel, Abstract!Next, Abstract!End
<1>8. CASE Exit
  BY <1>8 DEF Exit, Stage, Channel
<1>9. ASSUME NEW p \in Procs, Terminate(p) \/ Kill(p)
      PROVE  Abstract!Next \/ UNCHANGED Abstract!channelVars
  BY <1>9 DEF Terminate, Kill, PcAfterEndOf, Stage, Channel, Abstract!Next, Abstract!End
<1>10. ASSUME NEW p \in Procs, Sigpipe(p) PROVE UNCHANGED Abstract!channelVars
  BY <1>10 DEF Sigpipe, Stage, Channel
<1>11. ASSUME NEW c \in Channels, ReaderCloses(c) PROVE UNCHANGED Abstract!channelVars
  BY <1>11 DEF ReaderCloses, Stage, Channel
<1>12. CASE UNCHANGED vars
  BY <1>12 DEF vars, Stage, Channel
<1> QED
  BY <1>1, <1>2, <1>3, <1>4, <1>5, <1>6, <1>7, <1>8, <1>9, <1>10, <1>11, <1>12
  DEF Next, Worker, Environment, Finished

(* Every run of the program is, on the channel, a run of InvokerChannel:   *)
(* report, then response, one of each at most, and nothing after them.     *)
(* (That it ends is left to TLC.)                                          *)
THEOREM ChannelRefined == Spec => Abstract!Safety
<1>1. Init => Abstract!Init /\ ChannelInv
  BY DEF Init, Abstract!Init, ChannelInv, Stage, Channel, Channels, Before, During
<1>2. IInv /\ ChannelInv /\ [Next]_vars => ChannelInv'
  BY NextChannelInv
<1>3. IInv /\ ChannelInv /\ [Next]_vars => [Abstract!Next]_(Abstract!channelVars)
  BY NextRefines
<1> QED BY <1>1, <1>2, <1>3, Invariance, PTL DEF Spec, Abstract!Safety
=============================================================================
