------------------------------ MODULE RemoteStart ------------------------------
(* Starting a session on a machine from the browser: the machine's background *)
(* daemon and the commands that start, stop and replace it (cmd/shell/        *)
(* daemon.go, daemon_unix.go, main.go), the foreground agent (agent.go) and   *)
(* the loop both run (agent_loop.go), which asks the accounts service for     *)
(* queued work (app/server/app.ts over the Postgres store); and the browser,  *)
(* which seals a password to the key the machine has published (app/src/      *)
(* routes/Workspace.tsx).  A poll is two store calls and an answer, and goes  *)
(* on at the service when the process that made it has gone.  A daemon that   *)
(* listens answers when it is asked; daemons that the system supervises, and  *)
(* the commands to stop a session and to gather statistics, are left out.     *)
EXTENDS Naturals, FiniteSets

CONSTANTS Poller,   \* processes that may poll; each draws a key of its own
          Command,  \* commands to start a session
          Shell,    \* shell commands under way that look after the daemon
          NoPoller

StartAssumption == NoPoller \notin Poller

VARIABLES
  proc,     \* [Poller -> where the process stands]
  agents,   \* the pollers that are agents, not daemons
  lock,     \* the holder of daemon.lock, or NoPoller
  shell,    \* [Shell -> what the command does next]
  key,      \* the device's row: whose key was published last
  poll,     \* [Poller -> where its poll is]
  command,  \* [Command -> its row: status, the key its password is sealed to, the claimer,
            \* and met (history): who had published a key when the browser read it]
  met,      \* history: the pollers that have published their key
  beside,   \* history: a daemon and an agent were at work together
  stray     \* history: the service went on with a poll whose loop had ended

startVars == <<proc, agents, lock, shell, key, poll, command, met, beside, stray>>

NotAsked == [status |-> "none", key |-> NoPoller, by |-> NoPoller, met |-> {}]

StartInit ==
  /\ proc = [p \in Poller |-> "none"]
  /\ agents = {} /\ lock = NoPoller
  /\ shell = [s \in Shell |-> "idle"]
  /\ key = NoPoller
  /\ poll = [p \in Poller |-> "none"]
  /\ command = [c \in Command |-> NotAsked]
  /\ met = {} /\ beside = FALSE /\ stray = FALSE

At(places) == {p \in Poller : proc[p] \in places}
Becomes(p, to) == proc' = [proc EXCEPT ![p] = to]

(* A daemon answers its socket from its listening until its loop has ended.   *)
AtWork == At({"polling", "told"})
Answering == AtWork \ agents

Queue == <<key, poll, command, met, stray>>

------------------------------------------------------------------------------
(* The commands around the daemon: each asks whether one answers, and acts    *)
(* on the answer later.                                                       *)

(* ensureDaemon.                                                              *)
Ensure(s) ==
  /\ shell[s] = "idle" /\ Answering = {}
  /\ shell' = [shell EXCEPT ![s] = "start"]
  /\ UNCHANGED <<proc, agents, lock, beside, Queue>>

(* restartDaemon, after a login.                                              *)
Restart(s) ==
  /\ shell[s] = "idle"
  /\ shell' = [shell EXCEPT ![s] = IF Answering = {} THEN "start" ELSE "stop"]
  /\ UNCHANGED <<proc, agents, lock, beside, Queue>>

(* stopDaemon, on its own or on the way of a restart: the daemon answers, and *)
(* its loop is cancelled.                                                     *)
Tells(p) == proc[p] = "polling" /\ p \notin agents /\ Becomes(p, "told")

StopFirst(s) ==
  /\ shell[s] = "stop" /\ shell' = [shell EXCEPT ![s] = "start"]
  /\ \/ \E p \in Poller : Tells(p)
     \/ (\A p \in Answering : proc[p] = "told") /\ UNCHANGED proc
  /\ UNCHANGED <<agents, lock, beside, Queue>>

Stop ==
  /\ \E p \in Poller : Tells(p)
  /\ UNCHANGED <<agents, lock, shell, beside, Queue>>

StartDetached(s, p) ==
  /\ shell[s] = "start" /\ proc[p] = "none"
  /\ shell' = [shell EXCEPT ![s] = "idle"] /\ Becomes(p, "launched")
  /\ UNCHANGED <<agents, lock, beside, Queue>>

------------------------------------------------------------------------------
(* runDaemon: the lock, then the socket and the loop.                         *)

AcquireDaemonLock(p) ==
  /\ proc[p] = "launched"
  /\ IF lock = NoPoller THEN lock' = p /\ Becomes(p, "locked") ELSE Becomes(p, "gone") /\ UNCHANGED lock
  /\ UNCHANGED <<agents, shell, beside, Queue>>

Listen(p) ==
  /\ proc[p] = "locked" /\ Becomes(p, "polling")
  /\ beside' = (beside \/ AtWork \cap agents # {})
  /\ UNCHANGED <<agents, lock, shell, Queue>>

(* runAgent asks for a daemon first, and takes no lock.                       *)
RunAgent(p) ==
  /\ proc[p] = "none" /\ Answering = {}
  /\ agents' = agents \cup {p} /\ Becomes(p, "polling")
  /\ beside' = (beside \/ AtWork # {})
  /\ UNCHANGED <<lock, shell, Queue>>

(* The loop ends, when it was told to, at a signal or when the file says that *)
(* it should; the listener closes, the lock is released.  Or the process is   *)
(* killed anywhere, which releases the lock too.                              *)
Unlisten(p) ==
  /\ p \in AtWork \ agents /\ Becomes(p, "closing")
  /\ UNCHANGED <<agents, lock, shell, beside, Queue>>

LeaveDaemonLock(p) ==
  /\ proc[p] \notin {"none", "gone"}
  /\ Becomes(p, "gone")
  /\ lock' = IF lock = p THEN NoPoller ELSE lock
  /\ UNCHANGED <<agents, shell, beside, Queue>>

------------------------------------------------------------------------------
(* The loop's poll: markAgentSeen, claimCommands, the answer.                 *)

PollCommands(p) ==
  /\ proc[p] = "polling" /\ poll[p] = "none"
  /\ poll' = [poll EXCEPT ![p] = "sent"]
  /\ UNCHANGED <<proc, agents, lock, shell, key, command, met, beside, stray>>

(* Mutant: the key that is there is kept.                                     *)
MarkAgentKept(p) ==
  /\ poll[p] = "sent" /\ poll' = [poll EXCEPT ![p] = "marked"]
  /\ key' = IF key = NoPoller THEN p ELSE key
  /\ met' = met \cup {p}
  /\ stray' = (stray \/ p \notin AtWork)
  /\ UNCHANGED <<proc, agents, lock, shell, command, beside>>

MarkAgentSeen(p) ==
  /\ poll[p] = "sent" /\ poll' = [poll EXCEPT ![p] = "marked"]
  /\ key' = p /\ met' = met \cup {p}
  /\ stray' = (stray \/ p \notin AtWork)
  /\ UNCHANGED <<proc, agents, lock, shell, command, beside>>

(* Everything queued, in one statement.                                       *)
ClaimCommands(p) ==
  /\ poll[p] = "marked" /\ poll' = [poll EXCEPT ![p] = "claimed"]
  /\ command' = [c \in Command |-> IF command[c].status = "queued"
                   THEN [command[c] EXCEPT !.status = "claimed", !.by = p] ELSE command[c]]
  /\ stray' = (stray \/ p \notin AtWork)
  /\ UNCHANGED <<proc, agents, lock, shell, key, met, beside>>

(* The answer: what was claimed is performed, and reported done; or it is     *)
(* lost, and with it what was claimed.                                        *)
Performed(c, p) ==
  IF command[c].status = "claimed" /\ command[c].by = p
  THEN [command[c] EXCEPT !.status = IF command[c].key = p THEN "opened" ELSE "unreadable"]
  ELSE command[c]

PerformCommands(p) ==
  /\ poll[p] = "claimed" /\ poll' = [poll EXCEPT ![p] = "none"]
  /\ \/ proc[p] = "polling" /\ command' = [c \in Command |-> Performed(c, p)]
     \/ command' = [c \in Command |-> IF command[c].status = "claimed" /\ command[c].by = p
                                      THEN [command[c] EXCEPT !.status = "lost"] ELSE command[c]]
  /\ UNCHANGED <<proc, agents, lock, shell, key, met, beside, stray>>

------------------------------------------------------------------------------
(* The browser reads the key from its list of devices, seals, and posts.      *)

SealPassword(c) ==
  /\ command[c].status = "none" /\ key # NoPoller
  /\ command' = [command EXCEPT ![c] = [status |-> "sealed", key |-> key, by |-> NoPoller, met |-> met]]
  /\ UNCHANGED <<proc, agents, lock, shell, key, poll, met, beside, stray>>

PutCommand(c) ==
  /\ command[c].status = "sealed"
  /\ command' = [command EXCEPT ![c].status = "queued"]
  /\ UNCHANGED <<proc, agents, lock, shell, key, poll, met, beside, stray>>

StartNext ==
  \/ \E s \in Shell : Ensure(s) \/ Restart(s) \/ StopFirst(s) \/ \E p \in Poller : StartDetached(s, p)
  \/ Stop
  \/ \E p \in Poller :
       \/ AcquireDaemonLock(p) \/ Listen(p) \/ RunAgent(p) \/ Unlisten(p) \/ LeaveDaemonLock(p)
       \/ PollCommands(p) \/ MarkAgentSeen(p) \/ ClaimCommands(p) \/ PerformCommands(p)
  \/ \E c \in Command : SealPassword(c) \/ PutCommand(c)

StartSpec == StartInit /\ [][StartNext]_startVars

------------------------------------------------------------------------------
StartTypeOK ==
  /\ proc \in [Poller -> {"none", "launched", "locked", "polling", "told", "closing", "gone"}]
  /\ agents \subseteq Poller /\ lock \in Poller \cup {NoPoller} /\ key \in Poller \cup {NoPoller}
  /\ shell \in [Shell -> {"idle", "stop", "start"}]
  /\ poll \in [Poller -> {"none", "sent", "marked", "claimed"}]
  /\ command \in [Command -> [status : {"none", "sealed", "queued", "claimed", "opened", "unreadable", "lost"},
                              key : Poller \cup {NoPoller}, by : Poller \cup {NoPoller}, met : SUBSET Poller]]
  /\ met \subseteq Poller /\ beside \in BOOLEAN /\ stray \in BOOLEAN

Readable ==
  \A c \in Command : command[c].status = "unreadable" => command[c].by \notin command[c].met

(* A browser's password reaches a poller that can open it, unless the poller  *)
(* began after the browser had read the key (agent.go:64).                    *)
OpenedByItsMachine == ~stray => Readable

(* It is so as long as no daemon and agent work side by side: the lock keeps  *)
(* the daemons apart, and each publishes its key before it claims.            *)
OpenedUnlessBeside == ~stray /\ ~beside => Readable
================================================================================
