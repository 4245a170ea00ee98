--------------------------- MODULE LifecycleProofs ---------------------------
(***************************************************************************)
(* Theorems of Lifecycle, for any number of calls of shutdown(), of        *)
(* requests and of jobs.  That work is connected needs to know how far     *)
(* start() and every shutdown() have come: who may work, and whose         *)
(* connections may be gone, is read off node, server and call together.    *)
(***************************************************************************)
EXTENDS Lifecycle, TLAPS

Connected == \A s \in Service : link[s]

\* What start() has connected, as long as nobody disconnects.
StartConnects ==
  /\ node = "connectRedis" => link["database"]
  /\ node \in {"buildApp", "listen", "serving"} /\ ~Disconnecting => Connected

\* The server is open only between start() and shutdown(), and is closed, with
\* no request left, before anything is disconnected.
ServerFollows ==
  /\ server # "off" => node = "serving"
  /\ Stopping => node = "serving" /\ server # "open"
  /\ Disconnecting => server = "closed"
  /\ requests > 0 => server \in {"open", "closing"}

\* Only workers have jobs that are active, and only a server that was open has
\* handlers.
WorkFollows ==
  /\ jobs["active"] > 0 => Working
  /\ orphans > 0 => node = "serving"

IInv == TypeOK /\ StartConnects /\ ServerFollows /\ WorkFollows

\* The invariant says that work is connected.
LEMMA InvImplies == IInv => WorkIsConnected
<1> SUFFICES ASSUME IInv PROVE WorkIsConnected
  OBVIOUS
<1>1. jobs["active"] \in Nat /\ orphans \in Nat
  BY DEF IInv, TypeOK, JobState
<1>2. jobs["active"] + orphans > 0 => jobs["active"] > 0 \/ orphans > 0
  BY <1>1
<1> QED  BY <1>2 DEF IInv, StartConnects, ServerFollows, WorkFollows, Working, Connected,
                     WorkIsConnected

\* There is no process at the start.
LEMMA InitInv == Init => IInv
<1> SUFFICES ASSUME Init
             PROVE  IInv
  OBVIOUS
<1>1. TypeOK
  <2>1. jobs \in [JobState -> 0..MaxJobs] /\ TotalJobs <= MaxJobs
        /\ requests \in 0..MaxRequests /\ orphans \in 0..MaxRequests
        /\ requests + orphans <= MaxRequests
    BY LifecycleAssumption DEF LifecycleAssumption, Init, JobState, TotalJobs
  <2> QED  BY <2>1 DEF Init, TypeOK, Idle, Up
<1>2. ~Stopping /\ ~Disconnecting
  BY DEF Init, Stopping, Disconnecting, Idle
<1>3. StartConnects /\ ServerFollows /\ WorkFollows
  BY <1>2 DEF Init, StartConnects, ServerFollows, WorkFollows, Working, JobState
<1> QED  BY <1>1, <1>3 DEF IInv

\* The counts of the jobs.
LEMMA JobCounts ==
  ASSUME TypeOK
  PROVE  /\ MaxRequests \in Nat /\ MaxJobs \in Nat
         /\ \A st \in {"waiting", "active", "cut"} : jobs[st] \in Nat
         /\ jobs["waiting"] + jobs["active"] + jobs["cut"] <= MaxJobs
BY LifecycleAssumption DEF LifecycleAssumption, TypeOK, JobState, TotalJobs

\* New counts of the jobs that are not more in all.
LEMMA JobsTyped ==
  ASSUME TypeOK, NEW w \in Nat, NEW a \in Nat, NEW c \in Nat, w + a + c <= MaxJobs,
         jobs' \in [JobState -> Int],
         jobs'["waiting"] = w, jobs'["active"] = a, jobs'["cut"] = c
  PROVE  jobs' \in [JobState -> 0..MaxJobs] /\ TotalJobs' <= MaxJobs
<1>1. \A st \in JobState : jobs'[st] \in 0..MaxJobs
  BY JobCounts DEF JobState
<1> QED  BY <1>1 DEF TotalJobs

\* The end of the process leaves nothing connected, and nothing to connect.
LEMMA ExitStep ==
  ASSUME IInv, Exit, asked' \in BOOLEAN
  PROVE  IInv'
<1>1. jobs \in [JobState -> 0..MaxJobs] /\ MaxJobs \in Nat
  BY JobCounts DEF IInv, TypeOK
<1> DEFINE j1 == [jobs EXCEPT !["active"] = 0]
<1>2. jobs' = [j1 EXCEPT !["cut"] = jobs["cut"] + jobs["active"]]
  BY <1>1 DEF Exit, JobState
<1>3. /\ j1 \in [JobState -> Int] /\ j1["active"] = 0 /\ j1["waiting"] = jobs["waiting"]
  BY <1>1 DEF JobState
<1> HIDE DEF j1
<1>4. /\ jobs' \in [JobState -> Int]
      /\ jobs'["waiting"] = jobs["waiting"] /\ jobs'["active"] = 0
      /\ jobs'["cut"] = jobs["cut"] + jobs["active"]
  BY <1>1, <1>2, <1>3 DEF JobState
<1>5. jobs' \in [JobState -> 0..MaxJobs] /\ TotalJobs' <= MaxJobs
  <2>1. /\ \A st \in {"waiting", "active", "cut"} : jobs[st] \in Nat
        /\ jobs["waiting"] + jobs["active"] + jobs["cut"] <= MaxJobs
    BY JobCounts DEF IInv
  <2> DEFINE w == jobs["waiting"]
             c == jobs["cut"] + jobs["active"]
  <2>2. w \in Nat /\ c \in Nat /\ 0 \in Nat /\ w + 0 + c <= MaxJobs
    BY <1>1, <2>1
  <2>3. jobs'["waiting"] = w /\ jobs'["active"] = 0 /\ jobs'["cut"] = c
    BY <1>4
  <2> HIDE DEF w, c
  <2> QED  BY <1>4, <2>2, <2>3, JobsTyped DEF IInv
<1>6. TypeOK'
  BY <1>5, JobCounts DEF Exit, IInv, TypeOK, Idle, Up
<1>7. ~Stopping' /\ ~Disconnecting'
  BY DEF Exit, Stopping, Disconnecting, Idle
<1>8. StartConnects' /\ ServerFollows' /\ WorkFollows'
  BY <1>4, <1>7 DEF Exit, StartConnects, ServerFollows, WorkFollows
<1> QED  BY <1>6, <1>8 DEF IInv

\* The steps of start().
LEMMA StartSteps ==
  ASSUME IInv, Spawn \/ ConnectDatabase \/ ConnectRedis \/ BuildApp \/ Listen
  PROVE  IInv'
<1>1. UNCHANGED <<requests, orphans, jobs, call>>
  BY DEF Spawn, ConnectDatabase, ConnectRedis, BuildApp, Listen
<1>2. TypeOK'
  BY <1>1 DEF IInv, TypeOK, TotalJobs, Spawn, ConnectDatabase, ConnectRedis, BuildApp, Listen,
              Awaited, Up, Starting, Service
<1>3. node # "serving" /\ ~Stopping /\ ~Disconnecting /\ ~Stopping' /\ ~Disconnecting'
  BY <1>1 DEF IInv, ServerFollows, Stopping, Disconnecting, Spawn, ConnectDatabase,
              ConnectRedis, BuildApp, Listen, Awaited
<1>4. StartConnects'
  BY <1>3 DEF IInv, TypeOK, StartConnects, Connected, Service, Spawn, ConnectDatabase,
              ConnectRedis, BuildApp, Listen, Awaited
<1>5. server = "off" /\ ~(requests > 0)
  BY <1>3 DEF IInv, ServerFollows
<1>6. ServerFollows'
  BY <1>1, <1>3, <1>5 DEF ServerFollows, Spawn, ConnectDatabase, ConnectRedis, BuildApp,
                          Listen, Awaited
<1>7. WorkFollows'
  BY <1>1 DEF IInv, WorkFollows, Working, Spawn, ConnectDatabase, ConnectRedis, BuildApp,
              Listen, Awaited
<1> QED  BY <1>2, <1>4, <1>6, <1>7 DEF IInv

\* Requests come and go.
LEMMA RequestSteps ==
  ASSUME IInv, Arrive \/ Answer \/ HangUp \/ EndUnheard
  PROVE  IInv'
<1>1. UNCHANGED <<node, link, server, jobs, call, asked>>
  BY DEF Arrive, Answer, HangUp, EndUnheard
<1>2. /\ requests \in Int /\ requests' \in 0..MaxRequests /\ orphans' \in 0..MaxRequests
      /\ requests' + orphans' <= MaxRequests
  BY JobCounts DEF IInv, TypeOK, Arrive, Answer, HangUp, EndUnheard
<1>3. TypeOK'
  BY <1>1, <1>2 DEF IInv, TypeOK, TotalJobs
<1>4. requests' > 0 => server \in {"open", "closing"}
  BY <1>2 DEF IInv, ServerFollows, Arrive, Answer, HangUp, EndUnheard
<1>5. orphans' > 0 => node = "serving"
  BY DEF IInv, TypeOK, ServerFollows, WorkFollows, Arrive, Answer, HangUp, EndUnheard
<1> QED  BY <1>1, <1>3, <1>4, <1>5 DEF IInv, StartConnects, Connected, ServerFollows,
                                 WorkFollows, Working, Stopping, Disconnecting

\* Jobs are added, begun, ended and begun again.
LEMMA JobSteps ==
  ASSUME IInv, Enqueue \/ Take \/ Recover \/ Finish
  PROVE  IInv'
<1>1. UNCHANGED <<node, link, server, requests, orphans, call, asked>>
  BY DEF Enqueue, Take, Recover, Turn, Finish
<1>2. /\ jobs \in [JobState -> 0..MaxJobs] /\ jobs \in [JobState -> Int]
      /\ \A st \in {"waiting", "active", "cut"} : jobs[st] \in Nat
      /\ jobs["waiting"] + jobs["active"] + jobs["cut"] <= MaxJobs
      /\ MaxJobs \in Nat
  BY JobCounts DEF IInv, TypeOK, JobState
<1>3. jobs' \in [JobState -> 0..MaxJobs] /\ TotalJobs' <= MaxJobs
  <2>1. CASE Enqueue
    <3>1. /\ jobs' \in [JobState -> Int] /\ jobs'["waiting"] = jobs["waiting"] + 1
          /\ jobs'["active"] = jobs["active"] /\ jobs'["cut"] = jobs["cut"]
      BY <1>2, <2>1 DEF Enqueue, JobState
    <3>2. (jobs["waiting"] + 1) + jobs["active"] + jobs["cut"] <= MaxJobs
            /\ jobs["waiting"] + 1 \in Nat
      BY <1>2, <2>1 DEF Enqueue, TotalJobs
    <3> QED  BY <1>2, <3>1, <3>2, JobsTyped DEF IInv
  <2>2. CASE Finish
    <3>1. /\ jobs' \in [JobState -> Int] /\ jobs'["waiting"] = jobs["waiting"]
          /\ jobs'["active"] = jobs["active"] - 1 /\ jobs'["cut"] = jobs["cut"]
      BY <1>2, <2>2 DEF Finish, JobState
    <3>2. jobs["waiting"] + (jobs["active"] - 1) + jobs["cut"] <= MaxJobs
            /\ jobs["active"] - 1 \in Nat
      BY <1>2, <2>2 DEF Finish
    <3> QED  BY <1>2, <3>1, <3>2, JobsTyped DEF IInv
  <2>3. CASE Take
    <3> DEFINE j1 == [jobs EXCEPT !["waiting"] = @ - 1]
    <3>1. jobs' = [j1 EXCEPT !["active"] = @ + 1] /\ jobs["waiting"] > 0
      BY <2>3 DEF Take, Turn
    <3>2. /\ j1 \in [JobState -> Int] /\ j1["waiting"] = jobs["waiting"] - 1
          /\ j1["active"] = jobs["active"] /\ j1["cut"] = jobs["cut"]
      BY <1>2 DEF JobState
    <3> HIDE DEF j1
    <3>3. /\ jobs' \in [JobState -> Int] /\ jobs'["waiting"] = jobs["waiting"] - 1
          /\ jobs'["active"] = jobs["active"] + 1 /\ jobs'["cut"] = jobs["cut"]
      BY <1>2, <3>1, <3>2 DEF JobState
    <3>4. /\ (jobs["waiting"] - 1) + (jobs["active"] + 1) + jobs["cut"] <= MaxJobs
          /\ jobs["waiting"] - 1 \in Nat /\ jobs["active"] + 1 \in Nat
      BY <1>2, <3>1
    <3> QED  BY <1>2, <3>3, <3>4, JobsTyped DEF IInv
  <2>4. CASE Recover
    <3> DEFINE j1 == [jobs EXCEPT !["cut"] = @ - 1]
    <3>1. jobs' = [j1 EXCEPT !["waiting"] = @ + 1] /\ jobs["cut"] > 0
      BY <2>4 DEF Recover, Turn
    <3>2. /\ j1 \in [JobState -> Int] /\ j1["cut"] = jobs["cut"] - 1
          /\ j1["active"] = jobs["active"] /\ j1["waiting"] = jobs["waiting"]
      BY <1>2 DEF JobState
    <3> HIDE DEF j1
    <3>3. /\ jobs' \in [JobState -> Int] /\ jobs'["waiting"] = jobs["waiting"] + 1
          /\ jobs'["active"] = jobs["active"] /\ jobs'["cut"] = jobs["cut"] - 1
      BY <1>2, <3>1, <3>2 DEF JobState
    <3>4. /\ (jobs["waiting"] + 1) + jobs["active"] + (jobs["cut"] - 1) <= MaxJobs
          /\ jobs["waiting"] + 1 \in Nat /\ jobs["cut"] - 1 \in Nat
      BY <1>2, <3>1
    <3> QED  BY <1>2, <3>3, <3>4, JobsTyped DEF IInv
  <2> QED  BY <2>1, <2>2, <2>3, <2>4
<1>4. WorkFollows'
  <2>1. CASE Enqueue
    BY <1>1, <1>2, <2>1 DEF Enqueue, IInv, WorkFollows, Working, JobState
  <2>2. CASE Take \/ Recover \/ Finish
    BY <1>1, <2>2 DEF IInv, Take, Recover, Turn, Finish, WorkFollows, Working
  <2> QED  BY <2>1, <2>2
<1> QED  BY <1>1, <1>3, <1>4 DEF IInv, TypeOK, StartConnects, Connected, ServerFollows,
                                 Stopping, Disconnecting

\* Prisma connects again.
LEMMA ReconnectStep ==
  ASSUME IInv, Reconnect
  PROVE  IInv'
<1>1. link' = [link EXCEPT !["database"] = TRUE] /\ link \in [Service -> BOOLEAN]
  BY DEF Reconnect, IInv, TypeOK
<1>2. UNCHANGED <<node, server, requests, orphans, jobs, call, asked>>
  BY DEF Reconnect
<1>3. \A s \in Service : link[s] => link'[s]
  BY <1>1 DEF Service
<1>4. node = "connectRedis" => link'["database"]
  BY <1>1, <1>3 DEF IInv, StartConnects, Service
<1> QED  BY <1>1, <1>2, <1>3, <1>4 DEF IInv, TypeOK, TotalJobs, StartConnects, Connected,
              ServerFollows, WorkFollows, Working, Stopping, Disconnecting, Service

\* A signal begins a shutdown, which closes the server if it is open.
LEMMA SignalStep ==
  ASSUME IInv, NEW c \in Calls, Signal(c)
  PROVE  IInv'
<1>1. /\ call' = [call EXCEPT ![c] = "close"] /\ node = "serving"
      /\ server' = (IF server = "open" THEN "closing" ELSE server) /\ asked'
      /\ UNCHANGED <<node, link, requests, orphans, jobs>>
  BY DEF Signal
<1>2. call \in [Calls -> {"none", "close", "disconnectDatabase", "disconnectRedis"}]
  BY DEF IInv, TypeOK
<1>3. Disconnecting' => Disconnecting
  BY <1>1, <1>2 DEF Disconnecting
<1>4. Disconnecting => Disconnecting'
  <2>1. ASSUME NEW d \in Calls, call[d] \in {"disconnectDatabase", "disconnectRedis"}
        PROVE  call'[d] = call[d]
    BY <1>1, <1>2, <2>1 DEF Signal
  <2> QED  BY <2>1 DEF Disconnecting
<1>5. TypeOK'
  BY <1>1, <1>2 DEF IInv, TypeOK, TotalJobs
<1>6. StartConnects'
  BY <1>1, <1>3, <1>4 DEF IInv, StartConnects, Connected
<1>7. ServerFollows' /\ WorkFollows'
  BY <1>1, <1>3 DEF IInv, ServerFollows, WorkFollows, Working
<1> QED  BY <1>5, <1>6, <1>7 DEF IInv

\* A shutdown goes on: from the server to the connections.
LEMMA ShutdownSteps ==
  ASSUME IInv, NEW c \in Calls, Close(c) \/ DisconnectDatabase(c)
  PROVE  IInv'
<1>1. call \in [Calls -> {"none", "close", "disconnectDatabase", "disconnectRedis"}]
  BY DEF IInv, TypeOK
<1>2. PICK phase \in {"disconnectDatabase", "disconnectRedis"} : call' = [call EXCEPT ![c] = phase]
  BY DEF Close, DisconnectDatabase
<1>3. /\ call[c] # "none" /\ UNCHANGED <<node, requests, orphans, jobs, asked>>
      /\ link' = link \/ link' = [link EXCEPT !["database"] = FALSE]
  BY DEF Close, DisconnectDatabase
<1>4. node = "serving" /\ Disconnecting'
  BY <1>1, <1>2, <1>3 DEF IInv, ServerFollows, Stopping, Disconnecting
<1>5. server' = "closed" /\ ~(requests > 0)
  <2>1. CASE Close(c)
    BY <2>1 DEF Close
  <2>2. CASE DisconnectDatabase(c)
    <3>1. Disconnecting /\ server' = server
      BY <2>2 DEF DisconnectDatabase, Disconnecting
    <3> QED  BY <3>1 DEF IInv, ServerFollows
  <2> QED  BY <2>1, <2>2
<1>6. TypeOK'
  BY <1>1, <1>2, <1>3, <1>5 DEF IInv, TypeOK, TotalJobs
<1> QED  BY <1>3, <1>4, <1>5, <1>6 DEF IInv, StartConnects, ServerFollows, WorkFollows, Working

\* Every step keeps the invariant.
LEMMA NextInv == IInv /\ [Next]_lifecycleVars => IInv'
<1> SUFFICES ASSUME IInv, [Next]_lifecycleVars
             PROVE  IInv'
  OBVIOUS
<1>1. CASE Spawn \/ ConnectDatabase \/ ConnectRedis \/ BuildApp \/ Listen
  BY <1>1, StartSteps
<1>2. CASE Arrive \/ Answer \/ HangUp \/ EndUnheard
  BY <1>2, RequestSteps
<1>3. CASE Enqueue \/ Take \/ Recover \/ Finish
  BY <1>3, JobSteps
<1>4. CASE Reconnect
  BY <1>4, ReconnectStep
<1>5. ASSUME NEW c \in Calls, Signal(c)
      PROVE  IInv'
  BY <1>5, SignalStep
<1>6. ASSUME NEW c \in Calls, Shutdown(c)
      PROVE  IInv'
  <2>1. CASE Close(c) \/ DisconnectDatabase(c)
    BY <2>1, ShutdownSteps
  <2>2. CASE DisconnectRedis(c) \/ ShutdownFails(c)
    BY <2>2, ExitStep DEF DisconnectRedis, ShutdownFails, IInv, TypeOK
  <2> QED  BY <1>6, <2>1, <2>2 DEF Shutdown
<1>7. CASE StartFails \/ SignalEarly \/ Crash \/ Kill
  BY <1>7, ExitStep DEF StartFails, SignalEarly, Crash, Kill, IInv, TypeOK
<1>8. CASE UNCHANGED lifecycleVars
  BY <1>8 DEF lifecycleVars, IInv, TypeOK, TotalJobs, StartConnects, Connected, ServerFollows,
              WorkFollows, Working, Stopping, Disconnecting
<1> QED  BY <1>1, <1>2, <1>3, <1>4, <1>5, <1>6, <1>7, <1>8 DEF Next

\* The inductive invariant of start and shutdown.
THEOREM LifecycleInvHolds == Spec => []IInv
BY InitInv, NextInv, PTL DEF Spec

\* Requests and jobs never exceed what there may be, wherever they are cut off.
THEOREM LifecycleTypeCorrect == Spec => []TypeOK
<1>1. IInv => TypeOK
  BY DEF IInv
<1> QED  BY LifecycleInvHolds, <1>1, PTL

\* Requests have both connections from arrival to answer, and jobs until a
\* shutdown, for any number of signals at any time.
THEOREM WorkIsConnectedHolds == Spec => []WorkIsConnected
BY InvImplies, LifecycleInvHolds, PTL
=============================================================================
