------------------------------ MODULE Lifecycle ------------------------------
(***************************************************************************)
(* start() and shutdown() of app.ts: connections, workers and the server   *)
(* are brought up in order, and taken down in order by every signal that   *)
(* arrives, while requests and jobs are under way.  Docker (external)      *)
(* starts the process again unless it was told to stop it, and kills one   *)
(* that takes longer than its stop_grace_period.                           *)
(***************************************************************************)
EXTENDS Integers

CONSTANTS
  Calls,        \* slots for the calls of shutdown() in progress
  MaxRequests,  \* bound: handlers running
  MaxJobs       \* bound: jobs in the queue

ASSUME LifecycleAssumption == MaxRequests \in Nat /\ MaxJobs \in Nat

VARIABLES
  node,      \* where start() is; "down" when there is no process
  link,      \* link[s]: the process's client of s is connected
  server,    \* Fastify's server
  requests,  \* the number of requests in flight
  orphans,   \* the number of handlers whose client has hung up
  jobs,      \* the number of jobs in each of the states of a job
  call,      \* call[c]: what the call of shutdown() in slot c awaits
  asked      \* Docker was told to stop the process

lifecycleVars == <<node, link, server, requests, orphans, jobs, call, asked>>

-----------------------------------------------------------------------------
(* State                                                                   *)

Service == {"database", "redis"}

\* The awaits of start(), then what it leaves behind.
Starting == {"connectDatabase", "connectRedis", "buildApp", "listen"}
Up       == Starting \cup {"serving"}

\* "cut": active when its process ended.
JobState == {"waiting", "active", "cut"}

Idle == [c \in Calls |-> "none"]

Stopping == \E c \in Calls : call[c] # "none"

\* Some call of shutdown() is past app.close().
Disconnecting == \E c \in Calls : call[c] \in {"disconnectDatabase", "disconnectRedis"}

Init ==
  /\ node = "down"
  /\ link = [s \in Service |-> FALSE]
  /\ server = "off"
  /\ requests = 0 /\ orphans = 0
  /\ jobs = [st \in JobState |-> 0]
  /\ call = Idle
  /\ asked = FALSE

-----------------------------------------------------------------------------
(* The end of the process                                                  *)

\* Mutant: the jobs that were active are counted with the living still.
ExitButActive ==
  /\ node' = "down" /\ server' = "off"
  /\ link' = [s \in Service |-> FALSE]
  /\ requests' = 0 /\ orphans' = 0
  /\ jobs' = [jobs EXCEPT !["cut"] = @ + jobs["active"]]
  /\ call' = Idle

\* process.exit(), or a signal that kills.  Nothing calls closeAll(): jobs that
\* are active are cut off where they are.
Exit ==
  /\ node' = "down" /\ server' = "off"
  /\ link' = [s \in Service |-> FALSE]
  /\ requests' = 0 /\ orphans' = 0
  /\ jobs' = [jobs EXCEPT !["active"] = 0, !["cut"] = @ + jobs["active"]]
  /\ call' = Idle

\* uncaughtException, unhandledRejection; Node's default is the same.
Crash == node \in Up /\ Exit /\ UNCHANGED asked

\* stop_grace_period is over.
Kill == asked /\ node \in Up /\ Exit /\ UNCHANGED asked

-----------------------------------------------------------------------------
(* start()                                                                 *)

\* Docker's restart policy, or its start command.
Spawn ==
  /\ node = "down"
  /\ node' = "connectDatabase"
  /\ asked' = FALSE
  /\ UNCHANGED <<link, server, requests, orphans, jobs, call>>

\* Any await of start() may throw.
StartFails == node \in Starting /\ Exit /\ UNCHANGED asked

Awaited(step, next) == node = step /\ node' = next

ConnectDatabase ==
  /\ Awaited("connectDatabase", "connectRedis")
  /\ link' = [link EXCEPT !["database"] = TRUE]
  /\ UNCHANGED <<server, requests, orphans, jobs, call, asked>>

ConnectRedis ==
  /\ Awaited("connectRedis", "buildApp")
  /\ link' = [link EXCEPT !["redis"] = TRUE]
  /\ UNCHANGED <<server, requests, orphans, jobs, call, asked>>

\* The workers are registered, and then app.listen() is called.
BuildApp ==
  /\ Awaited("buildApp", "listen")
  /\ UNCHANGED <<link, server, requests, orphans, jobs, call, asked>>

\* The server is open, and the signal handlers are installed.
Listen ==
  /\ Awaited("listen", "serving")
  /\ server' = "open"
  /\ UNCHANGED <<link, requests, orphans, jobs, call, asked>>

-----------------------------------------------------------------------------
(* Work                                                                    *)

Arrive ==
  /\ server = "open" /\ requests + orphans < MaxRequests
  /\ requests' = requests + 1
  /\ UNCHANGED <<node, link, server, orphans, jobs, call, asked>>

Answer ==
  /\ requests > 0
  /\ requests' = requests - 1
  /\ UNCHANGED <<node, link, server, orphans, jobs, call, asked>>

\* A client hangs up.  Nothing tells the handler, which goes on.
HangUp ==
  /\ requests > 0
  /\ requests' = requests - 1
  /\ orphans' = orphans + 1
  /\ UNCHANGED <<node, link, server, jobs, call, asked>>

\* A handler ends whose client has hung up.
EndUnheard ==
  /\ orphans > 0
  /\ orphans' = orphans - 1
  /\ UNCHANGED <<node, link, server, requests, jobs, call, asked>>

TotalJobs == jobs["waiting"] + jobs["active"] + jobs["cut"]

\* A handler adds a job.
Enqueue ==
  /\ requests + orphans > 0 /\ TotalJobs < MaxJobs
  /\ jobs' = [jobs EXCEPT !["waiting"] = @ + 1]
  /\ UNCHANGED <<node, link, server, requests, orphans, call, asked>>

\* The workers run from before app.listen() to the end of the process.
Working == node \in {"listen", "serving"}

\* A worker turns to a job: it begins one, or finds that one has stalled.
Turn(from, to) ==
  /\ Working
  /\ jobs[from] > 0
  /\ jobs' = [jobs EXCEPT ![from] = @ - 1, ![to] = @ + 1]
  /\ UNCHANGED <<node, link, server, requests, orphans, call, asked>>

Take    == Turn("waiting", "active")
Recover == Turn("cut", "waiting")

\* An active job ends.
Finish ==
  /\ Working /\ jobs["active"] > 0
  /\ jobs' = [jobs EXCEPT !["active"] = @ - 1]
  /\ UNCHANGED <<node, link, server, requests, orphans, call, asked>>

\* Prisma connects again when a query is sent after $disconnect(), by an active
\* job or by a handler whose client has hung up.
Reconnect ==
  /\ Working /\ jobs["active"] + orphans > 0
  /\ ~link["database"]
  /\ link' = [link EXCEPT !["database"] = TRUE]
  /\ UNCHANGED <<node, server, requests, orphans, jobs, call, asked>>

-----------------------------------------------------------------------------
(* shutdown()                                                              *)

\* SIGTERM or SIGINT.  Every one calls shutdown(), which begins with app.close().
Signal(c) ==
  /\ node = "serving" /\ call[c] = "none"
  /\ call' = [call EXCEPT ![c] = "close"]
  /\ server' = IF server = "open" THEN "closing" ELSE server
  /\ asked' = TRUE
  /\ UNCHANGED <<node, link, requests, orphans, jobs>>

\* Without handlers a signal ends the process.
SignalEarly == node \in Starting /\ Exit /\ asked' = TRUE

\* Mutant: app.close() is not awaited.
CloseAtOnce(c) ==
  /\ call[c] = "close"
  /\ server' = "closed"
  /\ call' = [call EXCEPT ![c] = "disconnectDatabase"]
  /\ UNCHANGED <<node, link, requests, orphans, jobs, asked>>

\* app.close() resolves, for each call, when the server has no connection left
\* on which it owes an answer.  It does not wait for a handler that has nobody
\* to answer.
Close(c) ==
  /\ call[c] = "close"
  /\ requests = 0
  /\ server' = "closed"
  /\ call' = [call EXCEPT ![c] = "disconnectDatabase"]
  /\ UNCHANGED <<node, link, requests, orphans, jobs, asked>>

DisconnectDatabase(c) ==
  /\ call[c] = "disconnectDatabase"
  /\ link' = [link EXCEPT !["database"] = FALSE]
  /\ call' = [call EXCEPT ![c] = "disconnectRedis"]
  /\ UNCHANGED <<node, server, requests, orphans, jobs, asked>>

DisconnectRedis(c) == call[c] = "disconnectRedis" /\ Exit /\ UNCHANGED asked

\* Mutant: the error is logged and the process stays.
ShutdownLogs(c) ==
  /\ call[c] # "none"
  /\ call' = [call EXCEPT ![c] = "none"]
  /\ UNCHANGED <<node, link, server, requests, orphans, jobs, asked>>

\* One of the awaits throws: quit(), when another call has sent it already.
ShutdownFails(c) == call[c] # "none" /\ Exit /\ UNCHANGED asked

Shutdown(c) == Close(c) \/ DisconnectDatabase(c) \/ DisconnectRedis(c) \/ ShutdownFails(c)

Next ==
  \/ Spawn \/ StartFails \/ ConnectDatabase \/ ConnectRedis \/ BuildApp \/ Listen
  \/ Arrive \/ Answer \/ HangUp \/ EndUnheard
  \/ Enqueue \/ Take \/ Recover \/ Finish \/ Reconnect
  \/ \E c \in Calls : Signal(c) \/ Shutdown(c)
  \/ SignalEarly \/ Crash \/ Kill

Spec == Init /\ [][Next]_lifecycleVars

\* What requests wait for has timeouts, so they are answered.  app.close()
\* resolves when they are; the disconnects settle, one way or the other.  No
\* crash, no failing app.close() and no Kill is assumed.
FairSpec ==
  /\ Spec
  /\ WF_lifecycleVars(Answer)
  /\ \A c \in Calls :
       /\ WF_lifecycleVars(Close(c))
       /\ WF_lifecycleVars(call[c] # "close" /\ Shutdown(c))

-----------------------------------------------------------------------------
(* Properties                                                              *)

TypeOK ==
  /\ node \in Up \cup {"down"}
  /\ link \in [Service -> BOOLEAN]
  /\ server \in {"off", "open", "closing", "closed"}
  /\ requests \in 0..MaxRequests /\ orphans \in 0..MaxRequests
  /\ requests + orphans <= MaxRequests
  /\ jobs \in [JobState -> 0..MaxJobs] /\ TotalJobs <= MaxJobs
  /\ call \in [Calls -> {"none", "close", "disconnectDatabase", "disconnectRedis"}]
  /\ asked \in BOOLEAN

\* A request has both connections from its arrival to its answer: neither
\* start(), nor a shutdown, nor a second signal during a shutdown lets it in too
\* early or takes them away under it.  A job has both too, although workers run
\* before the server and are never closed, until a shutdown takes them away; and
\* so has a handler whose client has hung up.
WorkIsConnected ==
  /\ requests > 0 => \A s \in Service : link[s]
  /\ jobs["active"] + orphans > 0 => Disconnecting \/ \A s \in Service : link[s]

\* A process that is told to stop ends by itself, with no help of Docker's, also
\* when a disconnect fails.
SignalEnds == Stopping ~> node = "down"

=============================================================================
