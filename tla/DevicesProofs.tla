--------------------------- MODULE DevicesProofs ---------------------------
(***************************************************************************)
(* Theorems about the desktop app, for any number of rows, workers and     *)
(* callbacks, and about the devices under their one caller: the            *)
(* composition implements each of its components, so that the theorems     *)
(* about these hold in it, and what the app says of an output is what the  *)
(* output carries.                                                         *)
(***************************************************************************)
EXTENDS Devices, PeripheralProofs

-----------------------------------------------------------------------------
(* The poll of the desktop app.                                            *)

\* Between two steps one timer is armed at most, and it is the one that
\* _stop_poll would cancel.
PollInv == timers \subseteq Timers /\ OnePoll

LEMMA PollInit == AppInit => PollInv
  BY DEF AppInit, PollInv, OnePoll, Timers

\* _start_poll leaves the new timer alone armed if it knew of all the others.
LEMMA ArmPollKeepsOne ==
  ASSUME NEW armed, armed \subseteq timers, PollInv, ArmPoll(armed)
  PROVE  PollInv'
  <1>1. armed \ {poll_job} = {}
    BY DEF PollInv, OnePoll
  <1>2. \E t \in Timers : t \notin armed \ {poll_job}
    BY <1>1 DEF Timers
  <1>3. poll_job' \in Timers
    BY <1>2 DEF ArmPoll
  <1> QED
    BY <1>1, <1>3 DEF ArmPoll, PollInv, OnePoll

LEMMA StopPollKeepsOne == PollInv /\ StopPoll(timers) => PollInv'
  BY DEF PollInv, OnePoll, StopPoll

LEMMA LeaveKeepsOne == PollInv /\ Leave => PollInv'
  <1> SUFFICES ASSUME PollInv, Leave PROVE PollInv'
    OBVIOUS
  <1>1. CASE StopPoll(timers)
    BY <1>1, StopPollKeepsOne
  <1>2. CASE UNCHANGED pollVars
    BY <1>2 DEF pollVars, PollInv, OnePoll
  <1> QED
    BY <1>1, <1>2 DEF Leave

\* Everything else keeps its hands off the timers.
LEMMA PollStep == PollInv /\ [AppNext]_appVars => PollInv'
  <1> SUFFICES ASSUME PollInv, [AppNext]_appVars PROVE PollInv'
    OBVIOUS
  <1>1. CASE ShowProvision
    BY <1>1, ArmPollKeepsOne DEF ShowProvision
  <1>2. CASE ShowRows \/ ShowOther
    BY <1>2, LeaveKeepsOne DEF ShowRows, ShowOther
  <1>3. CASE PollTimer
    <2>1. PICK t \in timers : ArmPoll(timers \ {t})
      BY <1>3 DEF PollTimer
    <2> QED
      BY <2>1, ArmPollKeepsOne
  <1>4. CASE UNCHANGED pollVars
    BY <1>4 DEF pollVars, PollInv, OnePoll
  <1>5. TkIdle \/ Connect \/ (\E r \in Rows : ClickRow(r)) \/ RunCallback
            => UNCHANGED pollVars
    BY DEF TkIdle, Connect, ClickRow, RunCallback, pollVars
  <1>6. (\E w \in Workers : WorkerStep(w) \/ Take(w)) => UNCHANGED pollVars
    BY DEF WorkerStep, ConnectEnds, Receive, GiveUp, Report, Lost, Take, pollVars
  <1>7. (\E text \in Texts : Reply(text)) \/ (\E r \in Rows : OthersDrive(r)) \/ DeviceReset
        \/ UNCHANGED appVars
            => UNCHANGED pollVars
    BY DEF Reply, EndWith, OthersDrive, DeviceReset, appVars, pollVars
  <1> QED
    BY <1>1, <1>2, <1>3, <1>4, <1>5, <1>6, <1>7 DEF AppNext, UserStep

\* provision.py: showing and hiding pages and firing timers in any order never
\* leaves a poll armed that _stop_poll does not know of.
THEOREM OnePollHolds == AppSpec => []OnePoll
  <1>1. PollInv => OnePoll
    BY DEF PollInv
  <1> QED
    BY PollInit, PollStep, <1>1, PTL DEF AppSpec
-----------------------------------------------------------------------------
(* Tasks and callbacks.                                                    *)

TaskTypeOK ==
    /\ at \in [Workers -> Places] /\ task \in [Workers -> TaskType]
    /\ callbacks \in Seq(TaskType)

LEMMA TaskInit == AppInit => TaskTypeOK
  BY DEF AppInit, TaskTypeOK, Places, Connection, Task, TaskType, Texts

\* What a thread that is started changes: a free worker gets one of the tasks,
\* and everyone else keeps what he has.
LEMMA LaunchSeats ==
  ASSUME NEW tasks, Launch(tasks), TaskTypeOK
  PROVE  /\ \A w \in Workers :
              \/ at[w] = "free" /\ at'[w] = "sent" /\ task'[w] \in tasks
              \/ at'[w] = at[w] /\ task'[w] = task[w]
         /\ at' \in [Workers -> Places] /\ DOMAIN task' = Workers
  <1> DEFINE Seats == {f \in [tasks -> {w \in Workers : at[w] = "free"}] :
                          \A i, j \in tasks : f[i] = f[j] => i = j}
             seat == CHOOSE f \in Seats : TRUE
  <1>1. seat \in Seats
    BY DEF Launch
  <1>2. seat \in [tasks -> {w \in Workers : at[w] = "free"}]
    BY <1>1
  <1> HIDE DEF Seats, seat
  <1>3. /\ at' = [w \in Workers |->
                    IF \E i \in tasks : seat[i] = w THEN "sent" ELSE at[w]]
        /\ task' = [w \in Workers |->
                      IF \E i \in tasks : seat[i] = w
                      THEN CHOOSE i \in tasks : seat[i] = w ELSE task[w]]
    BY DEF Launch, Seats, seat
  <1>4. ASSUME NEW w \in Workers, \E i \in tasks : seat[i] = w
        PROVE  at[w] = "free" /\ at'[w] = "sent" /\ task'[w] \in tasks
    BY <1>2, <1>3, <1>4
  <1>5. ASSUME NEW w \in Workers, ~(\E i \in tasks : seat[i] = w)
        PROVE  at'[w] = at[w] /\ task'[w] = task[w]
    BY <1>3, <1>5
  <1>6. at' \in [Workers -> Places] /\ DOMAIN task' = Workers
    BY <1>3 DEF TaskTypeOK, Places
  <1> QED
    BY <1>4, <1>5, <1>6

LEMMA LaunchType ==
  ASSUME NEW tasks, tasks \subseteq TaskType, Launch(tasks), TaskTypeOK,
         UNCHANGED callbacks
  PROVE  TaskTypeOK'
  <1>1. \A w \in Workers : task'[w] \in TaskType
    BY LaunchSeats DEF TaskTypeOK
  <1>2. task' \in [Workers -> TaskType]
    <2>1. task' = [w \in Workers |-> task'[w]]
      BY DEF Launch
    <2> QED
      BY <1>1, <2>1
  <1> QED
    BY <1>2, LaunchSeats DEF TaskTypeOK

\* The tasks that the pages start with Ask.
LEMMA RowTasks ==
  ASSUME NEW r \in Rows
  PROVE  /\ Task("read", r, "none") \in TaskType
         /\ \A state \in {"on", "off"} : Task("set", r, state) \in TaskType
  BY DEF Task, TaskType, Texts

\* A worker reports its own task with another text.
LEMMA ReportType ==
  ASSUME NEW w \in Workers, NEW text \in Texts, NEW place \in Places,
         Report(w, text, place), TaskTypeOK
  PROVE  TaskTypeOK'
  <1>1. WithResult(task[w], text) \in TaskType /\ Connection \in TaskType
    BY DEF TaskTypeOK, WithResult, Connection, Task, TaskType, Texts
  <1>2. callbacks' \in Seq(TaskType)
    BY <1>1 DEF TaskTypeOK, Report
  <1>3. at' \in [Workers -> Places] /\ task' \in [Workers -> TaskType]
    BY <1>1 DEF TaskTypeOK, Report, Free
  <1> QED
    BY <1>2, <1>3 DEF TaskTypeOK

LEMMA AskType ==
  ASSUME TaskTypeOK, ShowRows \/ \E r \in Rows : ClickRow(r)
  PROVE  TaskTypeOK'
  <1>1. CASE ShowRows
    BY <1>1, RowTasks, LaunchType DEF ShowRows, Ask
  <1>2. ASSUME NEW r \in Rows, ClickRow(r) PROVE TaskTypeOK'
    <2>1. PICK t \in TaskType : Ask({r}, {t})
      BY <1>2, RowTasks DEF ClickRow
    <2> QED
      BY <2>1, LaunchType DEF Ask
  <1> QED
    BY <1>1, <1>2

LEMMA EndType ==
  ASSUME NEW text \in Texts, EndWith(text), TaskTypeOK
  PROVE  TaskTypeOK'
  <1>1. Connection \in TaskType
    BY DEF Connection, Task, TaskType, Texts
  <1>2. \A w \in Workers : WithResult(task[w], text) \in TaskType
    BY DEF TaskTypeOK, WithResult, Task, TaskType
  <1> QED
    BY <1>1, <1>2 DEF TaskTypeOK, EndWith, Free, Places

LEMMA TaskStep == TaskTypeOK /\ [AppNext]_appVars => TaskTypeOK'
  <1> SUFFICES ASSUME TaskTypeOK, [AppNext]_appVars PROVE TaskTypeOK'
    OBVIOUS
  <1>1. CASE ShowRows \/ \E r \in Rows : ClickRow(r)
    BY <1>1, AskType
  <1>2. CASE Connect
    <2>1. Connection \in TaskType
      BY DEF Connection, Task, TaskType, Texts
    <2> QED
      BY <1>2, <2>1, LaunchType DEF Connect
  <1>3. CASE RunCallback
    BY <1>3 DEF RunCallback, TaskTypeOK, workerVars
  <1>4. ASSUME NEW w \in Workers, WorkerStep(w) PROVE TaskTypeOK'
    <2>1. CASE Receive(w)
      <3>1. task[w].text \in Texts
        BY DEF TaskTypeOK, TaskType
      <3> QED
        BY <2>1, <3>1, ReportType DEF Receive, Places
    <2>2. CASE GiveUp(w)
      BY <2>2, ReportType DEF GiveUp, Places, Texts
    <2>3. CASE Lost(w)
      BY <2>3 DEF Lost, TaskTypeOK, Places, Free, Connection, Task, TaskType, Texts
    <2> QED
      BY <1>4, <2>1, <2>2, <2>3 DEF WorkerStep, ConnectEnds
  <1>5. ASSUME NEW w \in Workers, Take(w) PROVE TaskTypeOK'
    BY <1>5 DEF Take, TaskTypeOK, Places
  <1>6. ASSUME NEW text \in Texts, Reply(text) \/ DeviceReset PROVE TaskTypeOK'
    BY <1>6, EndType DEF Reply, DeviceReset, Texts
  <1>7. ShowProvision \/ TkIdle \/ ShowOther \/ PollTimer \/ (\E r \in Rows : OthersDrive(r))
            => UNCHANGED <<workerVars, callbacks>>
    BY DEF ShowProvision, TkIdle, ShowOther, PollTimer, OthersDrive
  <1>8. CASE UNCHANGED <<workerVars, callbacks>>
    BY <1>8 DEF TaskTypeOK, workerVars
  <1> QED
    BY <1>1, <1>2, <1>3, <1>4, <1>5, <1>6, <1>7, <1>8
    DEF AppNext, UserStep, appVars, Texts

-----------------------------------------------------------------------------
(* The Connect button.                                                     *)

\* The request of the button is with one worker or in one callback, and never in
\* both: that is what makes OneConnect inductive.
ButtonInv ==
    /\ connect_btn \in BOOLEAN
    /\ OneConnect
    /\ \A i, j \in Ending : i = j
    /\ Asking = {} \/ Ending = {}

LEMMA ButtonInit == AppInit => ButtonInv
  <1> SUFFICES ASSUME AppInit PROVE ButtonInv
    OBVIOUS
  <1>1. Asking = {} /\ Ending = {}
    BY DEF AppInit, Asking, Ending
  <1> QED
    BY <1>1 DEF AppInit, ButtonInv, OneConnect

\* What neither moves the request nor the button keeps the invariant.
LEMMA ButtonUntouched ==
  ASSUME ButtonInv, Asking' = Asking, Ending' = Ending, UNCHANGED connect_btn
  PROVE  ButtonInv'
  BY DEF ButtonInv, OneConnect

LEMMA SameCallbacks == UNCHANGED callbacks => Ending' = Ending
  BY DEF Ending

\* Starting workers for other tasks does not touch the request.
LEMMA AskKeepsButton ==
  ASSUME NEW tasks, \A t \in tasks : t.kind # "connect", Launch(tasks),
         TaskTypeOK, ButtonInv, UNCHANGED <<connect_btn, callbacks>>
  PROVE  ButtonInv'
  <1>1. Asking' = Asking
    <2>1. ASSUME NEW w \in Workers PROVE w \in Asking' <=> w \in Asking
      <3>1. CASE at[w] = "free" /\ task'[w] \in tasks
        BY <3>1, LaunchSeats DEF Asking
      <3>2. CASE at'[w] = at[w] /\ task'[w] = task[w]
        BY <3>2 DEF Asking
      <3> QED
        BY <3>1, <3>2, LaunchSeats
    <2> QED
      BY <2>1 DEF Asking
  <1> QED
    BY <1>1, ButtonUntouched, SameCallbacks

\* The button starts one worker, when nobody asks and nothing is to be ended.
LEMMA ConnectStep ==
  ASSUME TaskTypeOK, ButtonInv, Connect PROVE ButtonInv'
  <1>1. Asking = {} /\ Ending = {} /\ Ending' = {}
    BY SameCallbacks DEF ButtonInv, OneConnect, Connect
  <1> DEFINE Seats == {f \in [{Connection} -> {w \in Workers : at[w] = "free"}] :
                          \A i, j \in {Connection} : f[i] = f[j] => i = j}
             seat == CHOOSE f \in Seats : TRUE
  <1>2. seat \in Seats
    BY DEF Connect, Launch
  <1>3. seat[Connection] \in Workers
    BY <1>2
  <1> HIDE DEF Seats, seat
  <1>4. /\ at' = [w \in Workers |->
                    IF \E i \in {Connection} : seat[i] = w THEN "sent" ELSE at[w]]
        /\ task' = [w \in Workers |->
                      IF \E i \in {Connection} : seat[i] = w
                      THEN CHOOSE i \in {Connection} : seat[i] = w ELSE task[w]]
    BY DEF Connect, Launch, Seats, seat
  <1>5. ASSUME NEW w \in Workers, w # seat[Connection] PROVE w \notin Asking'
    <2>1. at'[w] = at[w] /\ task'[w] = task[w]
      BY <1>4, <1>5
    <2> QED
      BY <1>1, <2>1 DEF Asking
  <1>6. seat[Connection] \in Asking'
    <2>1. at'[seat[Connection]] = "sent" /\ task'[seat[Connection]] = Connection
      BY <1>3, <1>4
    <2> QED
      BY <1>3, <2>1 DEF Asking, Connection, Task
  <1>7. Asking' \subseteq Workers
    BY DEF Asking
  <1>8. Asking' = {seat[Connection]}
    BY <1>5, <1>6, <1>7
  <1> QED
    BY <1>1, <1>8 DEF ButtonInv, OneConnect, Connect

\* A callback that is run moves the others up.
LEMMA CallbackStep ==
  ASSUME TaskTypeOK, ButtonInv, RunCallback PROVE ButtonInv'
  <1>1. Asking' = Asking
    BY DEF RunCallback, Asking, workerVars
  <1>2. /\ Len(callbacks) \in Nat /\ Len(callbacks) > 0
        /\ DOMAIN callbacks = 1 .. Len(callbacks)
        /\ DOMAIN callbacks' = 1 .. Len(callbacks) - 1
        /\ \A i \in DOMAIN callbacks' : callbacks'[i] = callbacks[i + 1]
        /\ Head(callbacks) = callbacks[1]
    BY DEF RunCallback, TaskTypeOK
  <1>3. \A i : i \in Ending' <=> i \in DOMAIN callbacks' /\ i + 1 \in Ending
    BY <1>2 DEF Ending
  <1>4. connect_btn' = (connect_btn \/ Head(callbacks).kind = "connect")
    BY DEF RunCallback
  <1>5. CASE 1 \in Ending
    <2>1. Ending = {1} /\ Asking = {}
      BY <1>5 DEF ButtonInv
    <2>2. Ending' = {}
      <3>1. \A i \in DOMAIN callbacks' : i + 1 # 1
        BY <1>2
      <3> QED
        BY <1>3, <2>1, <3>1 DEF Ending
    <2>3. connect_btn'
      BY <1>2, <1>4, <1>5 DEF Ending
    <2> QED
      BY <1>1, <2>1, <2>2, <2>3 DEF ButtonInv, OneConnect
  <1>6. CASE 1 \notin Ending
    <2>1. connect_btn' = connect_btn
      <3>1. Head(callbacks).kind # "connect"
        BY <1>2, <1>6 DEF Ending
      <3>2. connect_btn \in BOOLEAN
        BY DEF ButtonInv
      <3> QED
        BY <1>4, <3>1, <3>2
    <2>2. Ending' = {} <=> Ending = {}
      <3>1. ASSUME NEW i \in Ending PROVE i - 1 \in Ending'
        <4>1. i \in 2 .. Len(callbacks)
          BY <1>2, <1>6 DEF Ending
        <4>2. i - 1 \in DOMAIN callbacks' /\ (i - 1) + 1 = i
          BY <1>2, <4>1
        <4> QED
          BY <1>3, <4>2
      <3> QED
        BY <1>3, <3>1
    <2>3. \A i, j \in Ending' : i = j
      <3>1. ASSUME NEW i \in Ending', NEW j \in Ending' PROVE i = j
        <4>1. i + 1 = j + 1
          BY <1>3 DEF ButtonInv
        <4>2. i \in Int /\ j \in Int
          BY <1>2, <1>3
        <4> QED
          BY <4>1, <4>2
      <3> QED
        BY <3>1
    <2> QED
      BY <1>1, <2>1, <2>2, <2>3 DEF ButtonInv, OneConnect
  <1> QED
    BY <1>5, <1>6

\* A worker that reports hands its request over to a callback.
LEMMA ReportStep ==
  ASSUME NEW w \in Workers, NEW text \in Texts,
         NEW place \in {"free", "left", "left_serving"},
         at[w] \in {"sent", "serving", "served"},
         Report(w, text, place), TaskTypeOK, ButtonInv
  PROVE  ButtonInv'
  <1>1. /\ Len(callbacks) \in Nat /\ DOMAIN callbacks = 1 .. Len(callbacks)
        /\ DOMAIN callbacks' = 1 .. Len(callbacks) + 1
        /\ \A i \in DOMAIN callbacks : callbacks'[i] = callbacks[i]
        /\ callbacks'[Len(callbacks) + 1].kind = task[w].kind
    <2>1. WithResult(task[w], text) \in TaskType
      BY DEF TaskTypeOK, WithResult, Task, TaskType
    <2>2. WithResult(task[w], text).kind = task[w].kind
      BY DEF WithResult, Task
    <2> QED
      BY <2>1, <2>2 DEF Report, TaskTypeOK
  <1>2. Ending' = Ending \cup (IF task[w].kind = "connect"
                              THEN {Len(callbacks) + 1} ELSE {})
    BY <1>1 DEF Ending
  <1>3. Asking' = Asking \ {w}
    <2>1. ASSUME NEW v \in Workers PROVE v \in Asking' <=> v \in Asking \ {w}
      BY DEF Asking, Report, Free, TaskTypeOK
    <2> QED
      BY <2>1 DEF Asking
  <1>4. CASE task[w].kind = "connect"
    <2>1. w \in Asking
      BY <1>4 DEF Asking
    <2>2. Asking' = {} /\ Ending' = {Len(callbacks) + 1}
      BY <1>2, <1>3, <1>4, <2>1 DEF ButtonInv, OneConnect
    <2>3. ~connect_btn'
      BY <2>1 DEF ButtonInv, OneConnect, Report
    <2>4. connect_btn' \in BOOLEAN
      BY DEF ButtonInv, Report
    <2> QED
      BY <2>2, <2>3, <2>4 DEF ButtonInv, OneConnect
  <1>5. CASE task[w].kind # "connect"
    <2>1. Asking' = Asking /\ Ending' = Ending
      BY <1>2, <1>3, <1>5 DEF Asking
    <2> QED
      BY <2>1, ButtonUntouched DEF Report
  <1> QED
    BY <1>4, <1>5

\* On its way to the device and back the request stays with its worker.
LEMMA DeviceStep ==
  ASSUME TaskTypeOK, ButtonInv,
         \/ \E w \in Workers : Lost(w) \/ Take(w)
         \/ \E text \in Texts : EndWith(text)
  PROVE  ButtonInv'
  <1>1. ASSUME NEW w \in Workers, Lost(w) \/ Take(w) PROVE Asking' = Asking
    <2>1. ASSUME NEW v \in Workers PROVE v \in Asking' <=> v \in Asking
      BY <1>1 DEF Asking, Lost, Take, Waiting, Free, TaskTypeOK
    <2> QED
      BY <2>1 DEF Asking
  <1>2. ASSUME NEW text \in Texts, EndWith(text) PROVE Asking' = Asking
    <2>1. ASSUME NEW v \in Workers PROVE v \in Asking' <=> v \in Asking
      <3>1. WithResult(task[v], text).kind = task[v].kind
        BY DEF WithResult, Task
      <3> QED
        BY <1>2, <3>1 DEF Asking, EndWith, Free, TaskTypeOK
    <2> QED
      BY <2>1 DEF Asking
  <1>3. UNCHANGED <<callbacks, connect_btn>>
    BY DEF Lost, Take, EndWith
  <1> QED
    BY <1>1, <1>2, <1>3, ButtonUntouched, SameCallbacks

LEMMA ButtonStep ==
    TaskTypeOK /\ ButtonInv /\ [AppNext]_appVars => ButtonInv'
  <1> SUFFICES ASSUME TaskTypeOK, ButtonInv, [AppNext]_appVars PROVE ButtonInv'
    OBVIOUS
  <1>1. CASE ShowRows
    BY <1>1, AskKeepsButton DEF ShowRows, Ask, Task
  <1>2. ASSUME NEW r \in Rows, ClickRow(r) PROVE ButtonInv'
    BY <1>2, AskKeepsButton DEF ClickRow, Ask, Task
  <1>3. CASE Connect
    BY <1>3, ConnectStep
  <1>4. CASE RunCallback
    BY <1>4, CallbackStep
  <1>5. ASSUME NEW w \in Workers, Receive(w) \/ GiveUp(w) PROVE ButtonInv'
    <2>1. task[w].text \in Texts
      BY DEF TaskTypeOK, TaskType
    <2> QED
      BY <1>5, <2>1, ReportStep DEF Receive, GiveUp, Texts
  <1>6. CASE \/ \E w \in Workers : Lost(w) \/ Take(w)
             \/ \E text \in Texts : Reply(text)
             \/ DeviceReset
    BY <1>6, DeviceStep DEF Reply, DeviceReset, Texts
  <1>7. ShowProvision \/ TkIdle \/ ShowOther \/ PollTimer \/ (\E r \in Rows : OthersDrive(r))
        \/ UNCHANGED appVars
            => UNCHANGED <<workerVars, callbacks, connect_btn>>
    BY DEF ShowProvision, TkIdle, ShowOther, PollTimer, OthersDrive, appVars
  <1>8. CASE UNCHANGED <<workerVars, callbacks, connect_btn>>
    BY <1>8, ButtonUntouched, SameCallbacks DEF Asking, workerVars
  <1> QED
    BY <1>1, <1>2, <1>3, <1>4, <1>5, <1>6, <1>7, <1>8
    DEF AppNext, UserStep, WorkerStep, ConnectEnds

\* provision.py: whatever the user clicks and however a request ends, at most one
\* POST /wifi is waited for, and the button is disabled exactly as long as it is.
THEOREM OneConnectHolds == AppSpec => []OneConnect
  <1> DEFINE IInv == TaskTypeOK /\ ButtonInv
  <1>1. AppInit => IInv
    BY TaskInit, ButtonInit
  <1>2. IInv /\ [AppNext]_appVars => IInv'
    BY TaskStep, ButtonStep
  <1>3. IInv => OneConnect
    BY DEF ButtonInv
  <1> HIDE DEF IInv
  <1> QED
    BY <1>1, <1>2, <1>3, PTL DEF AppSpec

-----------------------------------------------------------------------------
(* The pins.                                                               *)

\* Unlike a motor, a pin with a failed write still carries what it reports, so
\* that doubt makes no difference: only its own call comes between the two.
OnPin(on) == IF on THEN 1 ELSE 0

PinInv ==
    \A p \in Pins :
        IF busy /\ call.dev = p
        THEN /\ call.sets \in BOOLEAN
             /\ \/ /\ writes = <<Write(p, OnPin(call.sets))>> /\ slips = {}
                   /\ Matches(p)
                \/ writes = << >> /\ slips = {} /\ driven[p] = OnPin(call.sets)
                \/ writes = << >> /\ slips # {} /\ Matches(p)
        ELSE Matches(p)

LEMMA PinsInitial == ActuatorsInit => PinInv
  <1> SUFFICES ASSUME ActuatorsInit, NEW p \in Pins
               PROVE  driven[p] = IF pin_state[p] THEN 1 ELSE 0
    BY MatchesMeans DEF PinInv, ActuatorsInit
  <1> QED
    BY DEF ActuatorsInit, Outputs

LEMMA PinsInitialNext == ActuatorsInit' => PinInv'
  BY PinsInitial, PTL

\* A call of a pin begins, or of another device.
LEMMA BeginKeepsPins ==
  ASSUME PinInv, NEW c, Begin(c),
         c.dev \in Pins => /\ c.sets \in BOOLEAN
                           /\ c.writes = <<Write(c.dev, OnPin(c.sets))>>
  PROVE  PinInv'
  <1>1. /\ ~busy /\ busy' = TRUE /\ call' = c /\ writes' = c.writes /\ slips' = {}
        /\ driven' = driven /\ pin_state' = pin_state
    BY DEF Begin, reportVars
  <1> SUFFICES ASSUME NEW p \in Pins
               PROVE  /\ Matches(p)'
                      /\ c.dev = p => /\ call.sets' \in BOOLEAN
                                      /\ writes' = <<Write(p, OnPin(call.sets'))>>
    BY <1>1 DEF PinInv
  <1>2. Matches(p)
    BY <1>1 DEF PinInv
  <1>3. Matches(p)'
    BY <1>1, <1>2, MatchesMeans, MatchesMeansNext
  <1> QED
    BY <1>1, <1>3

LEMMA OtherCalls ==
  ASSUME NEW dev \in {"motor", "servo", "buzzer"}, NEW sets, NEW w
  PROVE  Call(dev, sets, w).dev \notin Pins
  BY PinNames DEF Call

LEMMA PinCalls ==
  ASSUME NEW p \in Pins, NEW on \in BOOLEAN
  PROVE  LET c == Call(p, on, <<Write(p, IF on THEN 1 ELSE 0)>>)
         IN /\ c.dev = p /\ c.sets \in BOOLEAN
            /\ c.writes = <<Write(p, OnPin(c.sets))>>
  BY DEF Call, OnPin

LEMMA BootsOthers ==
  ASSUME ActuatorInv, BootNext PROVE Begin(BootCalls[boot]) /\ call'.dev \notin Pins
  <1>1. boot \in 1 .. 6 /\ Begin(BootCalls[boot])
    BY SixBootCalls DEF BootNext, Booted, ActuatorInv, ActuatorTypes
  <1>2. BootCalls[boot].dev \in {"motor", "servo", "buzzer"}
    <2>1. /\ BootCalls[1].dev = "buzzer" /\ BootCalls[2].dev = "servo"
          /\ BootCalls[3].dev = "servo" /\ BootCalls[4].dev = "servo"
          /\ BootCalls[5].dev = "servo" /\ BootCalls[6].dev = "motor"
      BY DEF BootCalls, Call
    <2>2. boot = 1 \/ boot = 2 \/ boot = 3 \/ boot = 4 \/ boot = 5 \/ boot = 6
      BY <1>1
    <2> QED
      BY <2>1, <2>2
  <1>3. call' = BootCalls[boot]
    BY <1>1 DEF Begin
  <1> QED
    BY <1>1, <1>2, <1>3, PinNames

LEMMA BootKeepsPins == ActuatorInv /\ PinInv /\ BootNext => PinInv'
  BY BootsOthers, BeginKeepsPins DEF Begin

LEMMA PostsKeepPins ==
  PinInv /\ (PostMotor \/ PostServo \/ PostBuzzer \/ \E p \in Pins : PostPin(p))
    => PinInv'
  <1> SUFFICES ASSUME PinInv, PostMotor \/ PostServo \/ PostBuzzer
                                \/ \E p \in Pins : PostPin(p)
               PROVE  PinInv'
    OBVIOUS
  <1>1. ASSUME NEW dev \in {"motor", "servo", "buzzer"}, NEW sets, NEW w,
               Request(Call(dev, sets, w))
        PROVE  PinInv'
    <2>1. Call(dev, sets, w).dev \notin Pins
      BY OtherCalls
    <2> QED
      BY <1>1, <2>1, BeginKeepsPins DEF Request
  <1>3. PostMotor => PinInv'
    BY <1>1, Zenon DEF PostMotor
  <1>4. PostServo => PinInv'
    BY <1>1, Zenon DEF PostServo
  <1>5. ASSUME PostBuzzer PROVE PinInv'
    <2>1. CASE Request(Call("buzzer", 0, <<Write("buzzer", 0)>>))
      BY <1>1, <2>1
    <2>2. CASE \E freq \in {1000} \cup Accepted(100, 20000) :
                  \/ Request(Call("buzzer", freq, <<Write("buzzer", freq)>>))
                  \/ Request(Call("buzzer", 0, BeepWrites(freq)))
      <3>1. PICK freq : \/ Request(Call("buzzer", freq, <<Write("buzzer", freq)>>))
                        \/ Request(Call("buzzer", 0, BeepWrites(freq)))
        BY <2>2, SMT
      <3> QED
        BY <1>1, <3>1
    <2> QED
      BY <1>5, <2>1, <2>2 DEF PostBuzzer
  <1>2. CASE \E p \in Pins : PostPin(p)
    <2>1. PICK p \in Pins, on \in BOOLEAN :
             Request(Call(p, on, <<Write(p, IF on THEN 1 ELSE 0)>>))
      BY <1>2 DEF PostPin, SetPin
    <2> DEFINE c == Call(p, on, <<Write(p, IF on THEN 1 ELSE 0)>>)
    <2>2. c.dev = p /\ c.sets \in BOOLEAN /\ c.writes = <<Write(p, OnPin(c.sets))>>
      BY PinCalls
    <2> HIDE DEF c
    <2>3. Begin(c)
      BY <2>1 DEF Request, c
    <2> QED
      BY <2>2, <2>3, BeginKeepsPins
  <1> QED
    BY <1>2, <1>3, <1>4, <1>5

\* A call writes to the outputs of its own device.
LEMMA WriteTouchesOwn ==
  ASSUME ActuatorInv, WriteNext, NEW p \in Pins
  PROVE  /\ busy /\ writes \in Seq(WriteRecords) /\ driven \in [Outputs -> Nat]
         /\ driven'[p] # driven[p] => call.dev = p
         /\ \/ /\ driven' = [driven EXCEPT ![writes[1].output] = writes[1].value]
               /\ slips' = slips \ {writes[1].output}
            \/ /\ driven' = driven
               /\ slips' = slips \cup {writes[1].output}
  <1>1. writes # << >>
    BY DEF WriteNext
  <1>2. busy
    BY <1>1 DEF ActuatorInv, CallUnderWay
  <1>3. GoodReport(call) /\ GoodWrites(call.dev, writes) /\ ActuatorTypes
    BY <1>2 DEF ActuatorInv, CallUnderWay
  <1>4. 1 \in 1 .. Len(writes)
    BY <1>1, <1>3 DEF GoodWrites
  <1>5. /\ writes \in Seq(WriteRecords) /\ call.dev \in Devices
        /\ writes[1].output \in OutputsOf(call.dev)
        /\ driven \in [Outputs -> Nat]
    BY <1>3, <1>4 DEF GoodWrites, GoodReport, ActuatorTypes
  <1>6. Head(writes) = writes[1]
    BY <1>1, <1>5
  <1>7. \/ /\ driven' = [driven EXCEPT ![writes[1].output] = writes[1].value]
           /\ slips' = slips \ {writes[1].output}
        \/ /\ driven' = driven
           /\ slips' = slips \cup {writes[1].output}
    BY <1>6 DEF WriteNext
  <1>8. call.dev # p => writes[1].output # p
    BY <1>5, PinNames DEF OutputsOf, Devices
  <1>9. driven'[p] # driven[p] => call.dev = p
    BY <1>5, <1>7, <1>8 DEF Outputs
  <1> QED
    BY <1>2, <1>5, <1>7, <1>9

\* The one write of the call of a pin, done or failed; those of other devices do
\* not touch it.
LEMMA WriteKeepsPins == ActuatorInv /\ PinInv /\ WriteNext => PinInv'
  <1> SUFFICES ASSUME ActuatorInv, PinInv, WriteNext, NEW p \in Pins
               PROVE  IF busy /\ call.dev = p
                      THEN /\ call.sets \in BOOLEAN
                           /\ writes' = << >>
                           /\ \/ slips' = {} /\ driven'[p] = OnPin(call.sets)
                              \/ slips' # {} /\ Matches(p)'
                      ELSE Matches(p)'
    BY DEF PinInv, WriteNext
  <1>1. /\ writes # << >> /\ writes' = Tail(writes) /\ pin_state' = pin_state
        /\ UNCHANGED <<busy, call>>
    BY DEF WriteNext, reportVars
  <1>2. /\ busy /\ writes \in Seq(WriteRecords) /\ driven \in [Outputs -> Nat]
        /\ driven'[p] # driven[p] => call.dev = p
    BY WriteTouchesOwn
  <1>3. \/ /\ driven' = [driven EXCEPT ![writes[1].output] = writes[1].value]
           /\ slips' = slips \ {writes[1].output}
        \/ /\ driven' = driven
           /\ slips' = slips \cup {writes[1].output}
    BY WriteTouchesOwn
  <1>4. CASE call.dev = p
    <2>1. /\ call.sets \in BOOLEAN /\ Matches(p) /\ slips = {}
          /\ writes = <<Write(p, OnPin(call.sets))>>
      BY <1>1, <1>2, <1>4 DEF PinInv
    <2>2. writes' = << >> /\ writes[1].output = p /\ writes[1].value = OnPin(call.sets)
      BY <1>1, <2>1 DEF Write
    <2>3. p \in Outputs
      BY DEF Outputs
    <2>4. CASE driven' = driven /\ slips' = slips \cup {p}
      <3>1. Matches(p)'
        BY <1>1, <2>1, <2>4, MatchesMeans, MatchesMeansNext
      <3> QED
        BY <1>2, <1>4, <2>1, <2>2, <2>4, <3>1
    <2>5. CASE driven' = [driven EXCEPT ![p] = OnPin(call.sets)] /\ slips' = slips \ {p}
      BY <1>2, <1>4, <2>1, <2>2, <2>3, <2>5
    <2> QED
      BY <1>3, <2>2, <2>4, <2>5
  <1>5. CASE call.dev # p
    <2>1. Matches(p)
      BY <1>5 DEF PinInv
    <2>2. driven'[p] = driven[p]
      BY <1>2, <1>5
    <2> QED
      BY <1>1, <1>5, <2>1, <2>2, MatchesMeans, MatchesMeansNext
  <1> QED
    BY <1>4, <1>5

LEMMA ReturnKeepsPins == ActuatorInv /\ PinInv /\ Return => PinInv'
  <1> SUFFICES ASSUME ActuatorInv, PinInv, Return, NEW p \in Pins
               PROVE  Matches(p)'
    BY DEF PinInv, Return
  <1>1. /\ busy /\ writes = << >> /\ driven' = driven
        /\ call.dev # p \/ slips # {} => pin_state'[p] = pin_state[p]
        /\ call.dev = p /\ slips = {} => Matches(p)'
    BY ReturnReports DEF Return
  <1>2. CASE call.dev # p \/ slips # {}
    <2>1. Matches(p)
      BY <1>1, <1>2 DEF PinInv
    <2> QED
      BY <1>1, <1>2, <2>1, MatchesMeans, MatchesMeansNext
  <1> QED
    BY <1>1, <1>2

LEMMA PinStep == ActuatorInv /\ PinInv /\ [ActuatorsNext]_actuatorVars => PinInv'
  <1> SUFFICES ASSUME ActuatorInv, PinInv, [ActuatorsNext]_actuatorVars PROVE PinInv'
    OBVIOUS
  <1>1. CASE ChipReset
    <2>1. ActuatorsInit'
      BY <1>1 DEF ChipReset, ActuatorsInit
    <2> QED
      BY <2>1, PinsInitialNext
  <1>2. CASE UNCHANGED actuatorVars
    <2>1. UNCHANGED <<busy, call, writes, slips, driven, pin_state>>
      BY <1>2 DEF actuatorVars, callVars, reportVars
    <2>2. \A p \in Pins : Matches(p) => Matches(p)'
      BY <2>1, MatchesMeans, MatchesMeansNext
    <2> QED
      BY <2>1, <2>2 DEF PinInv
  <1> QED
    BY <1>1, <1>2, BootKeepsPins, PostsKeepPins, WriteKeepsPins, ReturnKeepsPins
    DEF ActuatorsNext

-----------------------------------------------------------------------------
(* The composition implements its components.                              *)

\* A bus without faults behaves as one that may have some.
LEMMA SoundDriver == Sound!Driver => Driver
  <1>1. ~Sound!BusError
    BY DEF Sound!BusError
  <1>2. Sound!Probe => Probe
    BY <1>1 DEF Sound!Probe, Probe, Sound!setupVars, Sound!sampleVars, setupVars,
       sampleVars
  <1>3. Sound!MandatoryWrite => MandatoryWrite
    BY <1>1 DEF Sound!MandatoryWrite, MandatoryWrite, Sound!sampleVars, sampleVars
  <1>4. Sound!MandatoryEnd => MandatoryEnd
    BY <1>1 DEF Sound!MandatoryEnd, MandatoryEnd, Sound!sampleVars, sampleVars
  <1>5. Sound!PublicConfig => PublicConfig
    BY <1>1 DEF Sound!PublicConfig, PublicConfig, Sound!sampleVars, sampleVars
  <1>6. Sound!Poll => Poll
    BY <1>1 DEF Sound!Poll, Poll, Sound!CutOff, CutOff, Sound!setupVars,
       Sound!sampleVars, setupVars, sampleVars
  <1>7. Sound!Read => Read
    BY <1>1 DEF Sound!Read, Read, Sound!setupVars, Sound!sampleVars, setupVars,
       sampleVars
  <1>8. Sound!Clear => Clear
    BY <1>1 DEF Sound!Clear, Clear, Sound!setupVars, setupVars
  <1> QED
    BY <1>2, <1>3, <1>4, <1>5, <1>6, <1>7, <1>8 DEF Sound!Driver, Driver

LEMMA RangeSteps == [DevicesNext]_deviceVars => [Next]_vars
  <1> SUFFICES ASSUME [DevicesNext]_deviceVars PROVE [Next]_vars
    OBVIOUS
  <1>1. RangeDriver => Next
    BY SoundDriver DEF RangeDriver, RangeOnly, Next
  <1>2. GetRange \/ SensorGoesOn \/ Restart => Next
    BY DEF GetRange, SensorGoesOn, Restart, RangeOnly, Next
  <1>3. BootActuator \/ PostActuator \/ ActuatorGoesOn \/ GetReading => UNCHANGED vars
    BY DEF BootActuator, PostActuator, ActuatorGoesOn, ActuatorsOnly, GetReading
  <1>4. AppStep \/ LedStep => UNCHANGED vars
    BY DEF AppStep, AppOnly, LedStep, LedOnly
  <1>5. (\E w \in Workers : TakeRequest(w) \/ AnswerRequest(w) \/ WorkerGoesOn(w))
            => UNCHANGED vars
    BY DEF TakeRequest, AnswerRequest, WorkerGoesOn, AppOnly
  <1>6. UNCHANGED deviceVars => UNCHANGED vars
    BY DEF deviceVars
  <1> QED
    BY <1>1, <1>2, <1>3, <1>4, <1>5, <1>6 DEF DevicesNext

\* A request of the app that sets a pin asks for one of the outputs.
LEMMA TaskFacts ==
  ASSUME TaskTypeOK, NEW w \in Workers
  PROVE  /\ task[w].kind \in {"connect", "read", "set"} /\ task[w].text \in Texts
         /\ task[w].kind = "connect" => task[w].row = "none"
         /\ task[w].kind # "connect" => task[w].row \in Rows /\ task[w].row \in Pins
  <1>1. task[w] \in TaskType
    BY DEF TaskTypeOK
  <1> QED
    BY <1>1, DevicesAssumption DEF TaskType

LEMMA ActuatorSteps ==
  TaskTypeOK /\ [DevicesNext]_deviceVars => [ActuatorsNext]_actuatorVars
  <1> SUFFICES ASSUME TaskTypeOK, [DevicesNext]_deviceVars
               PROVE  [ActuatorsNext]_actuatorVars
    OBVIOUS
  <1>1. RangeDriver \/ GetRange \/ SensorGoesOn \/ GetReading => UNCHANGED actuatorVars
    BY DEF RangeDriver, GetRange, SensorGoesOn, RangeOnly, GetReading
  <1>2. BootActuator \/ PostActuator \/ ActuatorGoesOn \/ Restart => ActuatorsNext
    BY DEF BootActuator, PostActuator, ActuatorGoesOn, ActuatorsOnly, Restart,
       ActuatorsNext
  <1>3. AppStep \/ LedStep => UNCHANGED actuatorVars
    BY DEF AppStep, AppOnly, LedStep, LedOnly
  <1>4. ASSUME NEW w \in Workers, TakeRequest(w) PROVE [ActuatorsNext]_actuatorVars
    <2>1. CASE task[w].kind = "set"
      <3>1. SetPin(task[w].row, task[w].text = "on") /\ task[w].row \in Pins
        BY <1>4, <2>1, TaskFacts DEF TakeRequest
      <3>2. PostPin(task[w].row)
        BY <3>1 DEF PostPin
      <3> QED
        BY <3>1, <3>2 DEF ActuatorsNext
    <2>2. CASE task[w].kind # "set"
      BY <1>4, <2>2 DEF TakeRequest
    <2> QED
      BY <2>1, <2>2
  <1>5. ASSUME NEW w \in Workers, AnswerRequest(w) \/ WorkerGoesOn(w)
        PROVE  [ActuatorsNext]_actuatorVars
    BY <1>5 DEF AnswerRequest, WorkerGoesOn, AppOnly, ActuatorsNext
  <1>6. UNCHANGED deviceVars => UNCHANGED actuatorVars
    BY DEF deviceVars
  <1> QED
    BY <1>1, <1>2, <1>3, <1>4, <1>5, <1>6 DEF DevicesNext

LEMMA AppSteps == TaskTypeOK /\ [DevicesNext]_deviceVars => [AppNext]_appVars
  <1> SUFFICES ASSUME TaskTypeOK, [DevicesNext]_deviceVars PROVE [AppNext]_appVars
    OBVIOUS
  <1>1. RangeDriver \/ GetRange \/ SensorGoesOn \/ GetReading => UNCHANGED appVars
    BY DEF RangeDriver, GetRange, SensorGoesOn, RangeOnly, GetReading
  <1>2. BootActuator \/ PostActuator \/ LedStep => UNCHANGED appVars
    BY DEF BootActuator, PostActuator, ActuatorsOnly, LedStep, LedOnly
  <1>7. ActuatorGoesOn \/ Restart => AppNext \/ UNCHANGED appVars
    BY DEF ActuatorGoesOn, ActuatorsOnly, Restart, AppNext
  <1>3. AppStep => AppNext
    BY DEF AppStep, AppOnly, AppNext
  <1>4. ASSUME NEW w \in Workers, TakeRequest(w) \/ WorkerGoesOn(w) PROVE AppNext
    BY <1>4 DEF TakeRequest, WorkerGoesOn, AppOnly, AppNext
  <1>5. ASSUME NEW w \in Workers, AnswerRequest(w) PROVE AppNext
    <2>1. \E text \in Texts : Reply(text)
      BY <1>5, TaskFacts DEF AnswerRequest, Taken, Texts
    <2> QED
      BY <2>1 DEF AppNext
  <1>6. UNCHANGED deviceVars => UNCHANGED appVars
    BY DEF deviceVars
  <1> QED
    BY <1>1, <1>2, <1>3, <1>4, <1>5, <1>6, <1>7 DEF DevicesNext

\* After a restart nothing has been measured, as after a driver that failed.
LEMMA SensorSteps == [DevicesNext]_deviceVars => [GetSensor]_sensorVars
  <1> SUFFICES ASSUME [DevicesNext]_deviceVars PROVE [GetSensor]_sensorVars
    OBVIOUS
  <1>1. RangeDriver \/ GetRange \/ SensorGoesOn => UNCHANGED sensorVars
    BY DEF RangeDriver, GetRange, SensorGoesOn, RangeOnly
  <1>2. BootActuator \/ PostActuator \/ ActuatorGoesOn => UNCHANGED sensorVars
    BY DEF BootActuator, PostActuator, ActuatorGoesOn, ActuatorsOnly
  <1>3. GetReading => GetSensor
    BY DEF GetReading
  <1>4. Restart => GetSensor
    <2>1. Answer(Unavailable) = Unavailable /\ Unavailable \in Samples
      BY DEF Answer, Unavailable, Samples
    <2> QED
      BY <2>1 DEF Restart, GetSensor
  <1>5. AppStep \/ LedStep => UNCHANGED sensorVars
    BY DEF AppStep, AppOnly, LedStep, LedOnly
  <1>6. (\E w \in Workers : TakeRequest(w) \/ AnswerRequest(w) \/ WorkerGoesOn(w))
            => UNCHANGED sensorVars
    BY DEF TakeRequest, AnswerRequest, WorkerGoesOn, AppOnly
  <1>7. UNCHANGED deviceVars => UNCHANGED sensorVars
    BY DEF deviceVars
  <1> QED
    BY <1>1, <1>2, <1>3, <1>4, <1>5, <1>6, <1>7 DEF DevicesNext

\* The strip keeps a colour that it can have.
LedColours ==
    /\ next \in [Callers -> Modes]
    /\ pixels \in Modes \cup {Dark} /\ strip \in Modes \cup {Dark}

LedStepOrReset == LedNext \/ \E left \in Modes \cup {Dark} : LedReset(left)

LEMMA LedSteps == LedColours /\ [DevicesNext]_deviceVars => [LedStepOrReset]_ledVars
  <1> SUFFICES ASSUME LedColours, [DevicesNext]_deviceVars
               PROVE  [LedStepOrReset]_ledVars
    OBVIOUS
  <1>1. RangeDriver \/ GetRange \/ SensorGoesOn \/ GetReading => UNCHANGED ledVars
    BY DEF RangeDriver, GetRange, SensorGoesOn, RangeOnly, GetReading
  <1>2. BootActuator \/ PostActuator \/ ActuatorGoesOn \/ AppStep => UNCHANGED ledVars
    BY DEF BootActuator, PostActuator, ActuatorGoesOn, ActuatorsOnly, AppStep, AppOnly
  <1>3. Restart => LedStepOrReset
    BY DEF Restart, LedStepOrReset, LedColours
  <1>4. LedStep => LedStepOrReset
    BY DEF LedStep, LedOnly, LedStepOrReset
  <1>5. (\E w \in Workers : TakeRequest(w) \/ AnswerRequest(w) \/ WorkerGoesOn(w))
            => UNCHANGED ledVars
    BY DEF TakeRequest, AnswerRequest, WorkerGoesOn, AppOnly
  <1>6. UNCHANGED deviceVars => UNCHANGED ledVars
    BY DEF deviceVars
  <1> QED
    BY <1>1, <1>2, <1>3, <1>4, <1>5, <1>6 DEF DevicesNext

LEMMA LedColoursStep == LedColours /\ [LedStepOrReset]_ledVars => LedColours'
  <1> SUFFICES ASSUME LedColours, [LedStepOrReset]_ledVars PROVE LedColours'
    OBVIOUS
  <1>1. ASSUME NEW c \in Callers, SetMode(c) \/ SetColor(c) \/ Update(c)
        PROVE  LedColours'
    BY <1>1 DEF SetMode, SetColor, Update, LeaveSetMode, LedColours, Modes
  <1>2. ASSUME NEW left \in Modes \cup {Dark}, LedReset(left) PROVE LedColours'
    BY <1>2 DEF LedReset, LedColours, Modes
  <1>3. UNCHANGED ledVars => LedColours'
    BY DEF ledVars, LedColours
  <1> QED
    BY <1>1, <1>2, <1>3 DEF LedStepOrReset, LedNext

\* main and the API thread drive the modules only as these expect it: whatever is
\* proved of a device module or of the app holds of the kit that is made of them.
THEOREM ComponentsImplemented ==
  DevicesSpec => Spec /\ ActuatorsSpec /\ SensorsSpec /\ AppSpec /\ LedSpec
  <1>1. DevicesInit => /\ Init /\ ActuatorsInit /\ SensorsInit /\ AppInit /\ LedInit
                       /\ TaskTypeOK /\ LedColours
    BY TaskInit DEF DevicesInit, LedInit, LedColours, Modes
  <1>2. TaskTypeOK /\ [DevicesNext]_deviceVars => TaskTypeOK'
    BY AppSteps, TaskStep
  <1>3. LedColours /\ [DevicesNext]_deviceVars => LedColours'
    BY LedSteps, LedColoursStep
  <1>4. DevicesSpec => []TaskTypeOK /\ []LedColours
    BY <1>1, <1>2, <1>3, PTL DEF DevicesSpec
  <1>5. DevicesSpec => [][Next]_vars /\ [][GetSensor]_sensorVars
    BY RangeSteps, SensorSteps, PTL DEF DevicesSpec
  <1>6. DevicesSpec => [][ActuatorsNext]_actuatorVars /\ [][AppNext]_appVars
    BY <1>4, ActuatorSteps, AppSteps, PTL DEF DevicesSpec
  <1>7. DevicesSpec => [][LedStepOrReset]_ledVars
    BY <1>4, LedSteps, PTL DEF DevicesSpec
  <1>8. DevicesSpec => DevicesInit
    BY PTL DEF DevicesSpec
  <1> QED
    BY <1>1, <1>5, <1>6, <1>7, <1>8
    DEF Spec, ActuatorsSpec, SensorsSpec, AppSpec, LedSpec, LedStepOrReset

\* The kit as a whole keeps what its parts promise: the range sensor, the outputs,
\* the sensors, the pages of the app and the status LED, under main, the API thread
\* and the resets.
THEOREM PromisesHoldTogether ==
  DevicesSpec =>
    /\ [](FreshUntilSetUp /\ FreshUnlessCutOff)
    /\ [](ActuatorsTypeOK /\ ReportedIsDriven /\ NoShootThrough) /\ ReportedWasDriven
    /\ []ShownIsMeasured
    /\ [](OnePoll /\ OneConnect)
    /\ []LedShowsMode
  BY ComponentsImplemented, FreshUntilSetUpHolds, FreshUnlessCutOffHolds,
     ActuatorsTypeCorrect, ReportedIsDrivenHolds, NoShootThroughHolds,
     ReportedWasDrivenHolds, ShownIsMeasuredHolds, OnePollHolds, OneConnectHolds,
     LedShowsModeHolds, PTL

-----------------------------------------------------------------------------
(* What the label of a row says.                                           *)

\* Who is about to change the label of a row: its workers and its callbacks.
Asks(r) == {w \in Workers : task[w].row = r}
Answers(r) == {i \in DOMAIN callbacks : callbacks[i].row = r}

OnOff == {"on", "off"}
Waits == {"sent", "serving", "served"}
Gone == {"left", "left_serving"}

Agrees(r, text) ==
    text \in OnOff => driven[r] = IF text = "on" THEN 1 ELSE 0

\* With a request of the app in hand, the call of a pin is the one it began.
TakenInv ==
    /\ \A v, w \in Taken : v = w
    /\ \A w \in Taken :
          task[w].kind = "set" =>
             busy /\ call.dev = task[w].row /\ call.sets = (task[w].text = "on")
    /\ busy /\ call.dev \in Pins /\ Taken # {} =>
          \E w \in Taken : task[w].kind = "set"

WorkerInv ==
    \A w \in Workers :
        /\ at[w] = "free" => task[w] = Connection
        /\ task[w].kind = "set" /\ at[w] # "served" => task[w].text \in OnOff

\* The last request of a row, once it was alone: the worker that waits has no
\* callback yet, a worker that has given up has left its error, and a result that
\* has not been shown, or is shown last, is that of the output.
RowInv(r) ==
    /\ \A v, w \in Asks(r) : v = w
    /\ \A i, j \in Answers(r) : i = j
    /\ \A w \in Asks(r) :
          /\ at[w] \in Waits => Answers(r) = {}
          /\ at[w] \in Gone => /\ \A i \in Answers(r) : callbacks[i].text = "error"
                               /\ Answers(r) = {} => label[r] = "error"
          /\ at[w] = "served" => Agrees(r, task[w].text)
    /\ \A i \in Answers(r) : Agrees(r, callbacks[i].text)
    /\ Asks(r) = {} /\ Answers(r) = {} => Agrees(r, label[r])

Idle ==
    /\ \A w \in Workers : at[w] = "free"
    /\ callbacks = << >> /\ label = [r \in Rows |-> "none"]

LinkInv ==
    IF used = "app"
    THEN /\ TakenInv /\ WorkerInv
         /\ \A r \in Rows \ muddled : RowInv(r)
    ELSE Idle

LEMMA AgreesKept ==
  ASSUME NEW r, NEW text, driven'[r] = driven[r], Agrees(r, text)
  PROVE  Agrees(r, text)'
  BY DEF Agrees

\* An error says nothing, and neither does a label before the first answer.
LEMMA NothingSaid == \A r : Agrees(r, "error") /\ Agrees(r, "none")
  BY DEF Agrees, OnOff

LEMMA RowIsInv ==
  ASSUME NEW r \in Rows, used = "app", LinkInv, r \notin muddled PROVE RowInv(r)
  BY DEF LinkInv

\* The fields of a result.
LEMMA ResultFields ==
  ASSUME NEW t, NEW text
  PROVE  /\ WithResult(t, text).kind = t.kind /\ WithResult(t, text).row = t.row
         /\ WithResult(t, text).text = text
  BY DEF WithResult, Task

LEMMA ConnectionFields ==
  Connection.kind = "connect" /\ Connection.row = "none" /\ Connection.row \notin Rows
  BY AppAssumption DEF Connection, Task

-----------------------------------------------------------------------------
(* Workers are started.                                                    *)

\* Each task goes to one worker.
LEMMA LaunchEach ==
  ASSUME NEW tasks, Launch(tasks)
  PROVE  /\ \A w \in Workers :
              \/ at[w] = "free" /\ at'[w] = "sent" /\ task'[w] \in tasks
              \/ at'[w] = at[w] /\ task'[w] = task[w]
         /\ \A v, w \in Workers :
              at[v] = "free" /\ at'[v] = "sent" /\ at[w] = "free" /\ at'[w] = "sent"
              /\ task'[v] = task'[w] => v = w
         /\ \A t \in tasks : \E w \in Workers :
              at[w] = "free" /\ at'[w] = "sent" /\ task'[w] = t
  <1> DEFINE Seats == {f \in [tasks -> {w \in Workers : at[w] = "free"}] :
                          \A i, j \in tasks : f[i] = f[j] => i = j}
             seat == CHOOSE f \in Seats : TRUE
  <1>1. seat \in Seats
    BY DEF Launch
  <1>2. /\ seat \in [tasks -> {w \in Workers : at[w] = "free"}]
        /\ \A i, j \in tasks : seat[i] = seat[j] => i = j
    BY <1>1
  <1>3. /\ at' = [w \in Workers |->
                    IF \E i \in tasks : seat[i] = w THEN "sent" ELSE at[w]]
        /\ task' = [w \in Workers |->
                      IF \E i \in tasks : seat[i] = w
                      THEN CHOOSE i \in tasks : seat[i] = w ELSE task[w]]
    BY DEF Launch, Seats, seat
  <1> HIDE DEF Seats, seat
  <1>4. ASSUME NEW w \in Workers, \E i \in tasks : seat[i] = w
        PROVE  /\ at[w] = "free" /\ at'[w] = "sent" /\ task'[w] \in tasks
               /\ seat[task'[w]] = w
    BY <1>2, <1>3, <1>4
  <1>5. ASSUME NEW w \in Workers, ~(\E i \in tasks : seat[i] = w)
        PROVE  at'[w] = at[w] /\ task'[w] = task[w]
    BY <1>3, <1>5
  <1>6. ASSUME NEW t \in tasks
        PROVE  \E w \in Workers : at[w] = "free" /\ at'[w] = "sent" /\ task'[w] = t
    <2>1. seat[t] \in Workers /\ \E i \in tasks : seat[i] = seat[t]
      BY <1>2
    <2>2. seat[task'[seat[t]]] = seat[t] /\ task'[seat[t]] \in tasks
      BY <1>4, <2>1
    <2>3. task'[seat[t]] = t
      BY <1>2, <2>2
    <2> QED
      BY <1>4, <2>1, <2>3
  <1>7. ASSUME NEW v \in Workers, NEW w \in Workers,
               at[v] = "free", at'[v] = "sent", at[w] = "free", at'[w] = "sent",
               task'[v] = task'[w]
        PROVE  v = w
    <2>1. \E i \in tasks : seat[i] = v
      BY <1>5, <1>7
    <2>2. \E i \in tasks : seat[i] = w
      BY <1>5, <1>7
    <2> QED
      BY <1>4, <1>7, <2>1, <2>2
  <1> QED
    BY <1>4, <1>5, <1>6, <1>7

\* Those that are under way stay so.
LEMMA LaunchKeepsTaken ==
  ASSUME NEW tasks, Launch(tasks), TakenInv, UNCHANGED <<busy, call>>
  PROVE  TakenInv'
  <1>1. ASSUME NEW w \in Workers
        PROVE  /\ w \in Taken' <=> w \in Taken
               /\ w \in Taken => task'[w] = task[w]
    BY LaunchEach DEF Taken
  <1>2. Taken' = Taken
    BY <1>1 DEF Taken
  <1>3. \A w \in Taken : task'[w] = task[w]
    BY <1>1 DEF Taken
  <1> QED
    BY <1>2, <1>3 DEF TakenInv

LEMMA LaunchKeepsWorkers ==
  ASSUME NEW tasks, Launch(tasks), WorkerInv,
         \A t \in tasks : t.kind = "set" => t.text \in OnOff
  PROVE  WorkerInv'
  BY LaunchEach DEF WorkerInv

\* A row that nobody asks for.
LEMMA LaunchKeepsRow ==
  ASSUME NEW tasks, Launch(tasks), WorkerInv, UNCHANGED <<callbacks, label, driven>>,
         NEW r \in Rows, RowInv(r), \A t \in tasks : t.row # r
  PROVE  RowInv(r)'
  <1>1. \A w \in Workers : at[w] = "free" => task[w].row # r
    BY ConnectionFields DEF WorkerInv
  <1>2. ASSUME NEW w \in Workers
        PROVE  /\ w \in Asks(r)' <=> w \in Asks(r)
               /\ w \in Asks(r) => at'[w] = at[w] /\ task'[w] = task[w]
    BY <1>1, LaunchEach DEF Asks
  <1>3. Asks(r)' = Asks(r) /\ Answers(r)' = Answers(r)
    BY <1>2 DEF Asks, Answers
  <1>4. \A w \in Asks(r) : at'[w] = at[w] /\ task'[w] = task[w]
    BY <1>2 DEF Asks
  <1> QED
    BY <1>3, <1>4 DEF RowInv, Agrees

\* A row with one new request, and nothing before it.
LEMMA LaunchBeginsRow ==
  ASSUME NEW tasks, Launch(tasks), WorkerInv, UNCHANGED <<callbacks, label>>,
         NEW r \in Rows, ~Outstanding(r),
         \A t, u \in tasks : t.row = r /\ u.row = r => t = u,
         \E t \in tasks : t.row = r
  PROVE  RowInv(r)'
  <1>1. \A w \in Workers : task[w].row # r
    BY ConnectionFields DEF WorkerInv, Outstanding
  <1>2. Answers(r)' = {}
    BY DEF Answers, Outstanding
  <1>3. \A w \in Asks(r)' : /\ at[w] = "free" /\ at'[w] = "sent" /\ task'[w] \in tasks
                            /\ w \in Workers /\ task'[w].row = r
    BY <1>1, LaunchEach DEF Asks
  <1>4. \A v, w \in Asks(r)' : v = w
    BY <1>3, LaunchEach
  <1>5. Asks(r)' # {}
    <2>1. PICK w \in Workers : at'[w] = "sent" /\ task'[w].row = r
      BY LaunchEach
    <2> QED
      BY <2>1 DEF Asks
  <1> QED
    BY <1>2, <1>3, <1>4, <1>5 DEF RowInv, Gone

\* The pages ask for some rows, each with one task.
LEMMA AskKeepsLink ==
  ASSUME used = "app", LinkInv, NEW rows \in SUBSET Rows, NEW tasks, Ask(rows, tasks),
         \A t \in tasks : t.row \in rows /\ (t.kind = "set" => t.text \in OnOff),
         \A r \in rows : \E t \in tasks : t.row = r,
         \A t, u \in tasks : t.row = u.row => t = u,
         UNCHANGED <<actuatorVars, used>>
  PROVE  LinkInv'
  <1>1. /\ Launch(tasks) /\ UNCHANGED <<callbacks, label>>
        /\ muddled' = (muddled \ rows) \cup {r \in rows : Outstanding(r)}
    BY DEF Ask
  <1>2. TakenInv /\ WorkerInv /\ used' = "app"
    BY DEF LinkInv
  <1>3. UNCHANGED <<busy, call, driven>>
    BY DEF actuatorVars, callVars
  <1>4. TakenInv'
    BY <1>1, <1>2, <1>3, LaunchKeepsTaken
  <1>5. WorkerInv'
    BY <1>1, <1>2, LaunchKeepsWorkers
  <1>6. ASSUME NEW r \in Rows \ muddled' PROVE RowInv(r)'
    <2>1. CASE r \in rows
      <3>1. ~Outstanding(r)
        BY <1>1, <1>6, <2>1
      <3> QED
        BY <1>1, <1>2, <2>1, <3>1, LaunchBeginsRow
    <2>2. CASE r \notin rows
      <3>1. RowInv(r)
        BY <1>1, <1>6, <2>2, RowIsInv
      <3> QED
        BY <1>1, <1>2, <1>3, <2>2, <3>1, LaunchKeepsRow
    <2> QED
      BY <2>1, <2>2
  <1> QED
    BY <1>2, <1>4, <1>5, <1>6 DEF LinkInv

-----------------------------------------------------------------------------
(* The main loop of the app.                                               *)

LEMMA ClicksKeepLink ==
  ASSUME used = "app", LinkInv, UNCHANGED <<actuatorVars, used>>,
         ShowRows \/ (\E r \in Rows : ClickRow(r)) \/ Connect
  PROVE  LinkInv'
  <1>1. \A kind, row, text : /\ Task(kind, row, text).kind = kind
                             /\ Task(kind, row, text).row = row
                             /\ Task(kind, row, text).text = text
    BY DEF Task
  <1>2. CASE ShowRows
    <2> DEFINE tasks == {Task("read", r, "none") : r \in Rows}
    <2>1. Ask(Rows, tasks)
      BY <1>2 DEF ShowRows
    <2>2. \A t \in tasks : t.row \in Rows /\ t.kind # "set"
                          /\ t = Task("read", t.row, "none")
      BY <1>1
    <2>3. \A r \in Rows : \E t \in tasks : t.row = r
      BY <1>1
    <2> HIDE DEF tasks
    <2> QED
      BY <2>1, <2>2, <2>3, AskKeepsLink
  <1>3. ASSUME NEW r \in Rows, ClickRow(r) PROVE LinkInv'
    <2>1. ASSUME NEW t, Ask({r}, {t}), t.row = r, t.kind = "set" => t.text \in OnOff
          PROVE  LinkInv'
      BY <2>1, AskKeepsLink
    <2>2. CASE Ask({r}, {Task("read", r, "none")})
      BY <1>1, <2>1, <2>2
    <2>3. ASSUME NEW state \in OnOff, Ask({r}, {Task("set", r, state)}) PROVE LinkInv'
      BY <1>1, <2>1, <2>3
    <2> QED
      BY <1>3, <2>2, <2>3 DEF ClickRow, OnOff
  <1>4. CASE Connect
    <2>1. Launch({Connection}) /\ UNCHANGED <<callbacks, label, muddled>>
      BY <1>4 DEF Connect
    <2>2. TakenInv /\ WorkerInv /\ used' = "app"
      BY DEF LinkInv
    <2>3. UNCHANGED <<busy, call, driven>>
      BY DEF actuatorVars, callVars
    <2>4. Connection.kind # "set" /\ Connection.row \notin Rows
      BY ConnectionFields
    <2>5. TakenInv' /\ WorkerInv'
      BY <2>1, <2>2, <2>3, <2>4, LaunchKeepsTaken, LaunchKeepsWorkers
    <2>6. ASSUME NEW r \in Rows \ muddled' PROVE RowInv(r)'
      <3>1. RowInv(r)
        BY <2>1, <2>6, RowIsInv
      <3> QED
        BY <2>1, <2>2, <2>3, <2>4, <3>1, LaunchKeepsRow
    <2> QED
      BY <2>2, <2>5, <2>6 DEF LinkInv
  <1> QED
    BY <1>2, <1>3, <1>4

\* The first callback sets the label of its row; the others move up.
LEMMA CallbackKeepsLink ==
  ASSUME used = "app", LinkInv, TaskTypeOK, label \in [Rows -> Texts],
         UNCHANGED <<actuatorVars, used>>, RunCallback
  PROVE  LinkInv'
  <1> DEFINE c == callbacks[1]
  <1>1. /\ callbacks # << >> /\ callbacks' = Tail(callbacks)
        /\ label' = IF c.row \in Rows THEN [label EXCEPT ![c.row] = c.text] ELSE label
        /\ UNCHANGED <<at, task, muddled>>
    <2>1. callbacks # << >> /\ callbacks \in Seq(TaskType)
      BY DEF RunCallback, TaskTypeOK
    <2>2. Head(callbacks) = c
      BY <2>1
    <2> HIDE DEF c
    <2> QED
      BY <2>1, <2>2 DEF RunCallback, workerVars
  <1>2. /\ callbacks \in Seq(TaskType) /\ Len(callbacks) \in Nat \ {0}
        /\ DOMAIN callbacks = 1 .. Len(callbacks)
        /\ DOMAIN callbacks' = 1 .. Len(callbacks) - 1
        /\ \A i \in 1 .. Len(callbacks) - 1 : callbacks'[i] = callbacks[i + 1]
    BY <1>1 DEF TaskTypeOK
  <1>3. 1 \in DOMAIN callbacks
    BY <1>2
  <1>4. UNCHANGED <<busy, call, driven>>
    BY DEF actuatorVars, callVars
  <1>5. TakenInv' /\ WorkerInv' /\ used' = "app"
    BY <1>1, <1>4 DEF LinkInv, TakenInv, Taken, WorkerInv
  <1> HIDE DEF c
  <1>6. ASSUME NEW r \in Rows \ muddled' PROVE RowInv(r)'
    <2>1. RowInv(r) /\ Asks(r)' = Asks(r)
      BY <1>1, <1>6, RowIsInv DEF Asks
    <2>2. \A i \in Answers(r)' : i + 1 \in Answers(r) /\ callbacks'[i] = callbacks[i + 1]
      BY <1>2 DEF Answers
    <2>3. \A i, j \in Answers(r)' : i = j
      BY <1>2, <2>1, <2>2 DEF RowInv, Answers
    <2>4. \A i \in Answers(r)' : Agrees(r, callbacks'[i].text)
      BY <2>1, <2>2 DEF RowInv
    <2>5. CASE c.row = r
      <3>1. 1 \in Answers(r)
        BY <1>3, <2>5 DEF Answers, c
      <3>2. Answers(r)' = {}
        <4>1. \A i \in Answers(r)' : i + 1 = 1 /\ i \in 1 .. Len(callbacks) - 1
          BY <1>2, <2>1, <2>2, <3>1 DEF RowInv, Answers
        <4> QED
          BY <1>2, <4>1
      <3>3. label'[r] = c.text /\ Agrees(r, c.text)
        BY <1>1, <2>1, <2>5, <3>1 DEF RowInv, c
      <3>4. \A w \in Asks(r) : at[w] \notin Waits /\ (at[w] \in Gone => c.text = "error")
        BY <2>1, <3>1 DEF RowInv, c
      <3> QED
        BY <1>1, <1>4, <2>1, <2>3, <3>2, <3>3, <3>4 DEF RowInv, Agrees, Waits
    <2>6. CASE c.row # r
      <3>1. label'[r] = label[r]
        BY <1>1, <2>6
      <3>2. \A i \in Answers(r) : i - 1 \in Answers(r)' /\ callbacks'[i - 1] = callbacks[i]
        BY <1>2, <2>6 DEF Answers, c
      <3>3. Answers(r)' = {} <=> Answers(r) = {}
        BY <2>2, <3>2
      <3>4. ASSUME NEW w \in Asks(r)'
            PROVE  /\ at'[w] \in Waits => Answers(r)' = {}
                   /\ at'[w] \in Gone =>
                         /\ \A i \in Answers(r)' : callbacks'[i].text = "error"
                         /\ Answers(r)' = {} => label'[r] = "error"
        <4>1. w \in Asks(r) /\ at'[w] = at[w]
          BY <1>1, <2>1
        <4>2. /\ at[w] \in Waits => Answers(r) = {}
              /\ at[w] \in Gone => /\ \A i \in Answers(r) : callbacks[i].text = "error"
                                   /\ Answers(r) = {} => label[r] = "error"
          BY <2>1, <4>1 DEF RowInv
        <4> QED
          BY <2>2, <3>1, <3>3, <4>1, <4>2
      <3>5. \A w \in Asks(r)' : at'[w] = "served" => Agrees(r, task'[w].text)
        BY <1>1, <2>1 DEF RowInv
      <3>6. Asks(r)' = {} /\ Answers(r)' = {} => Agrees(r, label'[r])
        BY <2>1, <3>1, <3>3 DEF RowInv
      <3> QED
        BY <1>4, <2>1, <2>3, <2>4, <3>4, <3>5, <3>6 DEF RowInv, Agrees
    <2> QED
      BY <2>5, <2>6
  <1> QED
    BY <1>5, <1>6 DEF LinkInv

\* Neither the navigation nor the poll touches workers and labels.
LinkAppVars == <<at, task, callbacks, label, muddled>>

LEMMA SameAppKeepsRow ==
  ASSUME NEW r \in Rows, RowInv(r), UNCHANGED <<at, task, callbacks, label>>,
         driven'[r] = driven[r]
  PROVE  RowInv(r)'
  <1>1. Asks(r)' = Asks(r) /\ Answers(r)' = Answers(r)
    BY DEF Asks, Answers
  <1> QED
    BY <1>1 DEF RowInv, Agrees

LEMMA NothingKeepsLink ==
  ASSUME LinkInv, UNCHANGED LinkAppVars, UNCHANGED <<busy, call, driven, used>>
  PROVE  LinkInv'
  <1>1. UNCHANGED <<at, task, callbacks, label, muddled>>
    BY DEF LinkAppVars
  <1>2. CASE used = "app"
    <2>1. TakenInv' /\ WorkerInv'
      BY <1>1, <1>2 DEF LinkInv, TakenInv, Taken, WorkerInv
    <2>2. \A r \in Rows \ muddled' : RowInv(r)'
      BY <1>1, <1>2, RowIsInv, SameAppKeepsRow
    <2> QED
      BY <1>2, <2>1, <2>2 DEF LinkInv
  <1>3. CASE used # "app"
    BY <1>1, <1>3 DEF LinkInv, Idle
  <1> QED
    BY <1>2, <1>3

LEMMA AppStepKeepsLink ==
  ASSUME LinkInv, TaskTypeOK, label \in [Rows -> Texts], AppStep
  PROVE  LinkInv'
  <1>1. used = "app" /\ UNCHANGED <<actuatorVars, used>>
    BY DEF AppStep, AppOnly
  <1>2. UserStep \/ PollTimer \/ RunCallback
    BY DEF AppStep, AppOnly
  <1>3. CASE ShowProvision \/ TkIdle \/ ShowOther \/ PollTimer
    <2>1. UNCHANGED LinkAppVars
      BY <1>3 DEF ShowProvision, TkIdle, ShowOther, PollTimer, LinkAppVars, workerVars
    <2>2. UNCHANGED <<busy, call, driven, used>>
      BY <1>1 DEF actuatorVars, callVars
    <2> QED
      BY <2>1, <2>2, NothingKeepsLink
  <1> QED
    BY <1>1, <1>2, <1>3, ClicksKeepLink, CallbackKeepsLink DEF UserStep

-----------------------------------------------------------------------------
(* The workers.                                                            *)

\* A worker that comes back or gives up leaves one callback; the others keep their
\* tasks, for a free worker has no other.
LEMMA ReportFacts ==
  ASSUME TaskTypeOK, WorkerInv, NEW w \in Workers, NEW text, NEW place,
         at[w] # "free", Report(w, text, place)
  PROVE  /\ at' = [at EXCEPT ![w] = place] /\ at'[w] = place
         /\ \A v \in Workers \ {w} : at'[v] = at[v] /\ task'[v] = task[v]
         /\ task'[w] = IF place = "free" THEN Connection ELSE task[w]
         /\ UNCHANGED <<label, muddled>>
         /\ \E n : /\ n \notin DOMAIN callbacks
                   /\ DOMAIN callbacks' = DOMAIN callbacks \cup {n}
                   /\ callbacks'[n] = WithResult(task[w], text)
                   /\ \A i \in DOMAIN callbacks : callbacks'[i] = callbacks[i]
  <1>1. /\ callbacks' = Append(callbacks, WithResult(task[w], text))
        /\ at' = [at EXCEPT ![w] = place] /\ task' = Free(task)
        /\ UNCHANGED <<label, muddled>>
    BY DEF Report
  <1>2. at \in [Workers -> Places] /\ callbacks \in Seq(TaskType)
    BY DEF TaskTypeOK
  <1>3. /\ at'[w] = place
        /\ \A v \in Workers \ {w} : at'[v] = at[v]
    BY <1>1, <1>2
  <1>4. \A v \in Workers : task'[v] = IF at'[v] = "free" THEN Connection ELSE task[v]
    BY <1>1 DEF Free
  <1>5. \A v \in Workers \ {w} : task'[v] = task[v]
    BY <1>3, <1>4 DEF WorkerInv
  <1> DEFINE n == Len(callbacks) + 1
  <1>6. /\ n \notin DOMAIN callbacks /\ DOMAIN callbacks' = DOMAIN callbacks \cup {n}
        /\ callbacks'[n] = WithResult(task[w], text)
        /\ \A i \in DOMAIN callbacks : callbacks'[i] = callbacks[i]
    <2>1. Len(callbacks) \in Nat /\ DOMAIN callbacks = 1 .. Len(callbacks)
      BY <1>2
    <2>2. DOMAIN callbacks' = 1 .. n
      BY <1>1, <1>2
    <2> QED
      BY <1>1, <1>2, <2>1, <2>2
  <1> HIDE DEF n
  <1> QED
    BY <1>1, <1>3, <1>4, <1>5, <1>6

\* A row of another worker does not notice.
LEMMA ReportKeepsRow ==
  ASSUME TaskTypeOK, WorkerInv, NEW w \in Workers, NEW text, NEW place,
         at[w] # "free", Report(w, text, place), driven' = driven,
         NEW r \in Rows, RowInv(r), task[w].row # r
  PROVE  RowInv(r)'
  <1>1. PICK n : /\ n \notin DOMAIN callbacks
                 /\ DOMAIN callbacks' = DOMAIN callbacks \cup {n}
                 /\ callbacks'[n] = WithResult(task[w], text)
                 /\ \A i \in DOMAIN callbacks : callbacks'[i] = callbacks[i]
    BY ReportFacts
  <1>2. /\ \A v \in Workers \ {w} : at'[v] = at[v] /\ task'[v] = task[v]
        /\ task'[w] = (IF place = "free" THEN Connection ELSE task[w])
        /\ UNCHANGED <<label, muddled>>
    BY ReportFacts
  <1>3. task'[w].row # r
    BY <1>2, ConnectionFields
  <1>4. /\ Asks(r)' = Asks(r)
        /\ \A v \in Asks(r) : at'[v] = at[v] /\ task'[v] = task[v]
    BY <1>2, <1>3 DEF Asks
  <1>5. /\ Answers(r)' = Answers(r)
        /\ \A i \in Answers(r) : callbacks'[i] = callbacks[i]
    BY <1>1, ResultFields DEF Answers
  <1> QED
    BY <1>2, <1>4, <1>5 DEF RowInv, Agrees

\* Its own row: the worker waited, so that this is the only callback, and it says
\* what the output does or that there was an error.
LEMMA ReportToRow ==
  ASSUME TaskTypeOK, WorkerInv, NEW w \in Workers, NEW text, NEW place,
         at[w] \in Waits, Report(w, text, place), driven' = driven,
         NEW r \in Rows, RowInv(r), task[w].row = r,
         Agrees(r, text), place = "free" \/ (place \in Gone /\ text = "error")
  PROVE  RowInv(r)'
  <1>1. PICK n : /\ n \notin DOMAIN callbacks
                 /\ DOMAIN callbacks' = DOMAIN callbacks \cup {n}
                 /\ callbacks'[n] = WithResult(task[w], text)
                 /\ \A i \in DOMAIN callbacks : callbacks'[i] = callbacks[i]
    BY ReportFacts DEF Waits
  <1>2. /\ \A v \in Workers \ {w} : at'[v] = at[v] /\ task'[v] = task[v]
        /\ at'[w] = place /\ task'[w] = (IF place = "free" THEN Connection ELSE task[w])
    BY ReportFacts DEF Waits
  <1>3. w \in Asks(r) /\ Answers(r) = {}
    BY DEF Asks, RowInv
  <1>4. Asks(r) = {w}
    BY <1>3 DEF RowInv
  <1>5. Answers(r)' = {n}
    BY <1>1, <1>3, ResultFields DEF Answers
  <1>6. callbacks'[n].text = text
    BY <1>1, ResultFields
  <1>7. Asks(r)' \subseteq {w}
    BY <1>2, <1>4 DEF Asks
  <1>8. CASE place = "free"
    <2>1. Asks(r)' = {}
      BY <1>2, <1>7, <1>8, ConnectionFields DEF Asks
    <2> QED
      BY <1>5, <1>6, <2>1 DEF RowInv, Agrees
  <1>9. CASE place \in Gone /\ text = "error"
    BY <1>2, <1>5, <1>6, <1>7, <1>9 DEF RowInv, Agrees, Gone, Waits, OnOff
  <1> QED
    BY <1>8, <1>9

LEMMA ReportKeepsLink ==
  ASSUME used = "app", LinkInv, TaskTypeOK, UNCHANGED <<actuatorVars, used>>,
         NEW w \in Workers, NEW text, NEW place, Report(w, text, place),
         \/ at[w] = "sent" /\ place = "left" /\ text = "error"
         \/ at[w] = "serving" /\ place = "left_serving" /\ text = "error"
         \/ at[w] = "served" /\ place = "free" /\ text \in {"error", task[w].text}
  PROVE  LinkInv'
  <1>1. TakenInv /\ WorkerInv /\ used' = "app"
    BY DEF LinkInv
  <1>2. UNCHANGED <<busy, call, driven>>
    BY DEF actuatorVars, callVars
  <1>3. /\ at[w] \in Waits /\ at[w] # "free"
        /\ place = "free" \/ (place \in Gone /\ text = "error")
    BY DEF Waits, Gone
  <1>4. /\ \A v \in Workers \ {w} : at'[v] = at[v] /\ task'[v] = task[v]
        /\ at'[w] = place /\ task'[w] = (IF place = "free" THEN Connection ELSE task[w])
        /\ UNCHANGED <<label, muddled>>
    BY <1>1, <1>3, ReportFacts
  <1>5. TakenInv'
    <2>1. Taken' = Taken /\ \A v \in Taken : task'[v] = task[v]
      BY <1>4 DEF Taken
    <2> QED
      BY <1>1, <1>2, <2>1 DEF TakenInv
  <1>6. WorkerInv'
    BY <1>1, <1>4, ConnectionFields DEF WorkerInv
  <1>7. ASSUME NEW r \in Rows \ muddled' PROVE RowInv(r)'
    <2>1. RowInv(r)
      BY <1>4, <1>7, RowIsInv
    <2>2. CASE task[w].row # r
      BY <1>1, <1>2, <1>3, <2>1, <2>2, ReportKeepsRow
    <2>3. CASE task[w].row = r
      <3>1. w \in Asks(r)
        BY <2>3 DEF Asks
      <3>2. Agrees(r, text)
        BY <2>1, <3>1, NothingSaid DEF RowInv
      <3> QED
        BY <1>1, <1>2, <1>3, <2>1, <2>3, <3>2, ReportToRow
    <2> QED
      BY <2>2, <2>3
  <1> QED
    BY <1>1, <1>5, <1>6, <1>7 DEF LinkInv

\* A worker that has given up ends: its callback or its label says "error".
LEMMA GoneEnds ==
  ASSUME NEW r \in Rows, RowInv(r), NEW w \in Workers, at[w] \in Gone,
         task'[w] = Connection,
         \A v \in Workers \ {w} : at'[v] = at[v] /\ task'[v] = task[v],
         UNCHANGED <<callbacks, label>>, driven' = driven
  PROVE  RowInv(r)'
  <1>1. w \notin Asks(r)'
    BY ConnectionFields DEF Asks
  <1>2. /\ Asks(r)' = Asks(r) \ {w} /\ Answers(r)' = Answers(r)
        /\ \A v \in Asks(r)' : at'[v] = at[v] /\ task'[v] = task[v]
    BY <1>1 DEF Asks, Answers
  <1>3. CASE w \in Asks(r)
    <2>1. Asks(r)' = {}
      BY <1>2, <1>3 DEF RowInv
    <2>2. Answers(r) = {} => label[r] = "error"
      BY <1>3 DEF RowInv
    <2> QED
      BY <1>2, <2>1, <2>2 DEF RowInv, Agrees, OnOff
  <1>4. CASE w \notin Asks(r)
    BY <1>2, <1>4 DEF RowInv, Agrees
  <1> QED
    BY <1>3, <1>4

LEMMA LostKeepsLink ==
  ASSUME used = "app", LinkInv, TaskTypeOK, UNCHANGED <<actuatorVars, used>>,
         NEW w \in Workers, Lost(w)
  PROVE  LinkInv'
  <1>1. TakenInv /\ WorkerInv /\ used' = "app"
    BY DEF LinkInv
  <1>2. UNCHANGED <<busy, call, driven>>
    BY DEF actuatorVars, callVars
  <1>3. /\ at[w] = "left" /\ at' = [at EXCEPT ![w] = "free"] /\ task' = Free(task)
        /\ UNCHANGED <<callbacks, label, muddled>>
    BY DEF Lost
  <1>4. at'[w] = "free" /\ \A v \in Workers \ {w} : at'[v] = at[v]
    BY <1>3 DEF TaskTypeOK
  <1>5. task'[w] = Connection /\ \A v \in Workers \ {w} : task'[v] = task[v]
    BY <1>1, <1>3, <1>4 DEF Free, WorkerInv
  <1>6. TakenInv'
    <2>1. Taken' = Taken /\ \A v \in Taken : task'[v] = task[v]
      BY <1>3, <1>4, <1>5 DEF Taken
    <2> QED
      BY <1>1, <1>2, <2>1 DEF TakenInv
  <1>7. WorkerInv'
    BY <1>1, <1>4, <1>5, ConnectionFields DEF WorkerInv
  <1>8. \A r \in Rows \ muddled' : RowInv(r)'
    BY <1>2, <1>3, <1>4, <1>5, RowIsInv, GoneEnds DEF Gone
  <1> QED
    BY <1>1, <1>6, <1>7, <1>8 DEF LinkInv

LEMMA WorkerKeepsLink ==
  ASSUME used = "app", LinkInv, TaskTypeOK, NEW w \in Workers, WorkerGoesOn(w)
  PROVE  LinkInv'
  <1>1. UNCHANGED <<actuatorVars, used>> /\ WorkerStep(w)
    BY DEF WorkerGoesOn, AppOnly
  <1>2. CASE Receive(w)
    BY <1>1, <1>2, ReportKeepsLink DEF Receive
  <1>3. CASE GiveUp(w)
    BY <1>1, <1>3, ReportKeepsLink DEF GiveUp
  <1>4. CASE Lost(w)
    BY <1>1, <1>4, LostKeepsLink
  <1> QED
    BY <1>1, <1>2, <1>3, <1>4 DEF WorkerStep, ConnectEnds

-----------------------------------------------------------------------------
(* The device.                                                             *)

\* It takes a request when it has no other, and the call that this begins is the
\* only one.
LEMMA TakeKeepsLink ==
  ASSUME used = "app", LinkInv, TaskTypeOK, NEW w \in Workers, TakeRequest(w)
  PROVE  LinkInv'
  <1>1. TakenInv /\ WorkerInv /\ used' = "app"
    BY DEF LinkInv, TakeRequest
  <1>2. /\ Taken = {} /\ ~busy /\ at[w] \in {"sent", "left"}
        /\ at' = [at EXCEPT ![w] = IF @ = "sent" THEN "serving" ELSE "left_serving"]
        /\ UNCHANGED <<task, callbacks, label, muddled>>
    BY DEF TakeRequest, ApiFree, Take, Waiting
  <1>3. /\ at'[w] = IF at[w] = "sent" THEN "serving" ELSE "left_serving"
        /\ \A v \in Workers \ {w} : at'[v] = at[v]
    BY <1>2 DEF TaskTypeOK
  <1>4. Taken' = {w}
    BY <1>2, <1>3 DEF Taken
  <1>5. /\ driven' = driven
        /\ task[w].kind = "set" => /\ busy' = TRUE /\ call'.dev = task[w].row
                                  /\ call'.sets = (task[w].text = "on")
        /\ task[w].kind # "set" => busy' = busy
    BY DEF TakeRequest, SetPin, Request, Begin, Call, actuatorVars, callVars
  <1>6. TakenInv'
    BY <1>2, <1>4, <1>5 DEF TakenInv
  <1>7. WorkerInv'
    BY <1>1, <1>2, <1>3 DEF WorkerInv
  <1>8. ASSUME NEW r \in Rows \ muddled' PROVE RowInv(r)'
    <2>1. RowInv(r) /\ Asks(r)' = Asks(r) /\ Answers(r)' = Answers(r)
      BY <1>2, <1>8, RowIsInv DEF Asks, Answers
    <2>2. ASSUME NEW v \in Asks(r)
          PROVE  /\ at'[v] \in Waits => at[v] \in Waits
                 /\ at'[v] \in Gone => at[v] \in Gone
                 /\ at'[v] = "served" => at[v] = "served"
      BY <1>2, <1>3 DEF Asks, Waits, Gone
    <2> QED
      BY <1>2, <1>5, <2>1, <2>2 DEF RowInv, Agrees
  <1> QED
    BY <1>1, <1>6, <1>7, <1>8 DEF LinkInv

\* What the device answers for a row is what the pin carries.
LEMMA AnswerAgrees ==
  ASSUME used = "app", LinkInv, TaskTypeOK, PinInv, NEW w \in Taken, AnswerRequest(w)
  PROVE  /\ UNCHANGED <<driven, used>> /\ ((busy' = busy /\ call' = call) \/ ~busy')
         /\ task[w].kind = "set" => ~busy'
         /\ \E text : Reply(text) /\ (task[w].row \in Rows => Agrees(task[w].row, text))
  <1>1. w \in Workers /\ TakenInv /\ WorkerInv
    BY DEF LinkInv, Taken
  <1>2. CASE task[w].kind = "connect"
    <2>1. UNCHANGED <<actuatorVars, used>> /\ \E text : Reply(text)
      BY <1>2 DEF AnswerRequest
    <2>2. task[w].row \notin Rows
      BY <1>1, <1>2, TaskFacts, AppAssumption
    <2> QED
      BY <1>2, <2>1, <2>2 DEF actuatorVars, callVars
  <1>3. CASE task[w].kind = "read"
    <2>1. /\ UNCHANGED <<actuatorVars, used>>
          /\ Reply(IF pin_state[task[w].row] THEN "on" ELSE "off")
      BY <1>3 DEF AnswerRequest
    <2>2. task[w].row \in Pins
      BY <1>1, <1>3, TaskFacts
    <2>3. ~(busy /\ call.dev = task[w].row)
      BY <1>1, <1>3, <2>2 DEF TakenInv
    <2>4. driven[task[w].row] = IF pin_state[task[w].row] THEN 1 ELSE 0
      BY <2>2, <2>3, MatchesMeans DEF PinInv
    <2>5. Agrees(task[w].row, IF pin_state[task[w].row] THEN "on" ELSE "off")
      BY <2>4 DEF Agrees
    <2> QED
      BY <1>3, <2>1, <2>5 DEF actuatorVars, callVars
  <1>4. CASE task[w].kind = "set"
    <2>1. Return /\ Reply(IF Succeeds THEN task[w].text ELSE "error") /\ used' = used
      BY <1>4 DEF AnswerRequest
    <2>2. task[w].row \in Pins
      BY <1>1, <1>4, TaskFacts
    <2>3. /\ busy /\ call.dev = task[w].row /\ call.sets = (task[w].text = "on")
          /\ writes = << >>
      BY <1>1, <1>4, <2>1 DEF TakenInv, Return
    <2>4. Succeeds => driven[task[w].row] = IF task[w].text = "on" THEN 1 ELSE 0
      <3>1. Succeeds => slips = {}
        BY <2>2, <2>3, PinNames DEF Succeeds
      <3>2. slips = {} => driven[task[w].row] = OnPin(call.sets)
        BY <2>2, <2>3 DEF PinInv
      <3> QED
        BY <2>3, <3>1, <3>2 DEF OnPin
    <2>5. Agrees(task[w].row, IF Succeeds THEN task[w].text ELSE "error")
      BY <2>4 DEF Agrees, OnOff
    <2>6. driven' = driven /\ ~busy'
      BY <2>1 DEF Return
    <2> QED
      BY <1>4, <2>1, <2>5, <2>6
  <1> QED
    BY <1>1, <1>2, <1>3, <1>4, TaskFacts

LEMMA AnswerKeepsLink ==
  ASSUME used = "app", LinkInv, TaskTypeOK, PinInv, NEW w \in Workers, AnswerRequest(w)
  PROVE  LinkInv'
  <1>1. TakenInv /\ WorkerInv /\ w \in Taken
    BY DEF LinkInv, AnswerRequest
  <1>2. PICK text : Reply(text) /\ (task[w].row \in Rows => Agrees(task[w].row, text))
    BY <1>1, AnswerAgrees
  <1>3. /\ driven' = driven /\ used' = "app" /\ ((busy' = busy /\ call' = call) \/ ~busy')
        /\ task[w].kind = "set" => ~busy'
    BY <1>1, AnswerAgrees
  <1>4. UNCHANGED <<callbacks, label, muddled>> /\ EndWith(text)
    BY <1>2 DEF Reply, EndWith
  <1>5. \A v \in Workers \ {w} : at[v] \notin {"serving", "left_serving"}
    BY <1>1 DEF TakenInv, Taken
  <1>6. \A v \in Workers \ {w} : at'[v] = at[v] /\ task'[v] = task[v]
    BY <1>1, <1>4, <1>5 DEF EndWith, Free, WorkerInv
  <1>7. \/ /\ at[w] = "serving" /\ at'[w] = "served"
           /\ task'[w] = WithResult(task[w], text)
        \/ at[w] = "left_serving" /\ at'[w] = "free" /\ task'[w] = Connection
    BY <1>1, <1>4 DEF EndWith, Free, Taken
  <1>8. TakenInv'
    <2>1. Taken' = {}
      BY <1>5, <1>6, <1>7 DEF Taken
    <2>2. ~(busy' /\ call'.dev \in Pins)
      BY <1>1, <1>3 DEF TakenInv
    <2> QED
      BY <2>1, <2>2 DEF TakenInv
  <1>9. WorkerInv'
    BY <1>1, <1>6, <1>7, ConnectionFields DEF WorkerInv
  <1>10. ASSUME NEW r \in Rows \ muddled' PROVE RowInv(r)'
    <2>1. RowInv(r)
      BY <1>4, <1>10, RowIsInv
    <2>2. CASE at[w] = "left_serving"
      BY <1>3, <1>4, <1>6, <1>7, <2>1, <2>2, GoneEnds DEF Gone
    <2>3. CASE at[w] = "serving"
      <3>1. task'[w].row = task[w].row /\ task'[w].text = text /\ at'[w] = "served"
        BY <1>7, <2>3, ResultFields
      <3>2. Asks(r)' = Asks(r) /\ Answers(r)' = Answers(r)
        BY <1>4, <1>6, <3>1 DEF Asks, Answers
      <3>3. CASE w \in Asks(r)
        <4>1. Asks(r) = {w} /\ Answers(r) = {} /\ Agrees(r, text)
          BY <1>2, <2>1, <2>3, <3>3 DEF RowInv, Asks, Waits
        <4> QED
          BY <1>3, <3>1, <3>2, <4>1 DEF RowInv, Agrees, Gone
      <3>4. CASE w \notin Asks(r)
        <4>1. \A v \in Asks(r) : at'[v] = at[v] /\ task'[v] = task[v]
          BY <1>6, <3>4 DEF Asks
        <4> QED
          BY <1>3, <1>4, <2>1, <3>2, <4>1 DEF RowInv, Agrees
      <3> QED
        BY <3>3, <3>4
    <2> QED
      BY <1>7, <2>2, <2>3
  <1> QED
    BY <1>1, <1>3, <1>8, <1>9, <1>10 DEF LinkInv

\* A write changes the pin of the request that is with the device, of which nothing
\* has been said yet, or one that counts as driven by others from now on.
LEMMA WriteKeepsLink ==
  ASSUME used = "app", LinkInv, TaskTypeOK, ActuatorInv, WriteNext, used' = used,
         IF Taken = {} /\ call.dev \in Rows THEN OthersDrive(call.dev) ELSE UNCHANGED appVars
  PROVE  LinkInv'
  <1>1. TakenInv /\ WorkerInv /\ used' = "app"
    BY DEF LinkInv
  <1>2. /\ UNCHANGED <<at, task, callbacks, label>> /\ muddled \subseteq muddled'
        /\ Taken = {} /\ call.dev \in Rows => call.dev \in muddled'
    BY DEF OthersDrive, appVars, workerVars
  <1>3. UNCHANGED <<busy, call>>
    BY DEF WriteNext
  <1>4. TakenInv' /\ WorkerInv'
    BY <1>1, <1>2, <1>3 DEF TakenInv, Taken, WorkerInv
  <1>5. ASSUME NEW r \in Rows \ muddled' PROVE RowInv(r)'
    <2>1. RowInv(r) /\ r \in Pins
      BY <1>2, <1>5, RowIsInv, DevicesAssumption
    <2>2. CASE driven'[r] = driven[r]
      BY <1>2, <2>1, <2>2, SameAppKeepsRow
    <2>3. CASE driven'[r] # driven[r]
      <3>1. busy /\ call.dev = r
        BY <2>1, <2>3, WriteTouchesOwn
      <3>7. Taken # {}
        BY <1>2, <1>5, <3>1
      <3>2. PICK w \in Taken : task[w].kind = "set" /\ task[w].row = r
        BY <1>1, <2>1, <3>1, <3>7 DEF TakenInv
      <3>3. w \in Asks(r) /\ at[w] \in {"serving", "left_serving"}
        BY <3>2 DEF Asks, Taken
      <3>4. \A v \in Asks(r) : at[v] # "served"
        BY <2>1, <3>3 DEF RowInv
      <3>5. \A i \in Answers(r) : callbacks[i].text = "error"
        BY <2>1, <3>3 DEF RowInv, Waits, Gone
      <3>6. Asks(r)' = Asks(r) /\ Answers(r)' = Answers(r)
        BY <1>2 DEF Asks, Answers
      <3> QED
        BY <1>2, <2>1, <3>3, <3>4, <3>5, <3>6 DEF RowInv, Agrees, OnOff
    <2> QED
      BY <2>2, <2>3
  <1> QED
    BY <1>1, <1>4, <1>5 DEF LinkInv

\* The other steps of the actuators: main boots, and the call of another client
\* begins or returns.
LEMMA ActuatorsKeepLink ==
  ASSUME used = "app", LinkInv, UNCHANGED <<appVars, used>>, ActuatorInv,
         BootNext \/ (ApiFree /\ \E p \in Pins : PostPin(p)) \/ (Taken = {} /\ Return)
  PROVE  LinkInv'
  <1>2. UNCHANGED <<at, task, callbacks, label, muddled>> /\ used' = "app"
    BY DEF appVars, workerVars
  <1>4. ASSUME driven' = driven, TakenInv' PROVE LinkInv'
    <2>1. WorkerInv'
      BY <1>2 DEF LinkInv, WorkerInv
    <2>2. \A r \in Rows \ muddled' : RowInv(r)'
      BY <1>2, <1>4, RowIsInv, SameAppKeepsRow
    <2> QED
      BY <1>2, <1>4, <2>1, <2>2 DEF LinkInv
  <1>3. CASE ApiFree /\ \E p \in Pins : PostPin(p)
    <2>1. driven' = driven /\ Taken' = {}
      BY <1>2, <1>3 DEF ApiFree, PostPin, SetPin, Request, Begin, Taken
    <2> QED
      BY <1>4, <2>1 DEF TakenInv
  <1>5. CASE Taken = {} /\ Return
    <2>1. driven' = driven /\ ~busy' /\ Taken' = {}
      BY <1>2, <1>5 DEF Return, Taken
    <2> QED
      BY <1>4, <2>1 DEF TakenInv
  <1>6. CASE BootNext
    <2>1. /\ ~busy /\ driven' = driven /\ call'.dev \notin Pins
      BY <1>6, BootsOthers DEF BootNext, Begin
    <2>2. \A v \in Taken : task[v].kind # "set"
      BY <2>1 DEF LinkInv, TakenInv
    <2>3. Taken' = Taken
      BY <1>2 DEF Taken
    <2> QED
      BY <1>2, <1>4, <2>1, <2>2, <2>3 DEF LinkInv, TakenInv
  <1> QED
    BY <1>3, <1>5, <1>6

LEMMA DeviceKeepsLink ==
  ASSUME used = "app", LinkInv, TaskTypeOK, ActuatorInv,
         BootActuator \/ PostActuator \/ ActuatorGoesOn
  PROVE  LinkInv'
  <1>1. CASE BootActuator
    BY <1>1, ActuatorsKeepLink DEF BootActuator, ActuatorsOnly
  <1>2. CASE PostActuator
    <2>1. /\ ApiFree /\ UNCHANGED <<appVars, used>>
          /\ \E p \in Pins : PostPin(p)
      BY <1>2, DevicesAssumption DEF PostActuator, ActuatorsOnly, InUse
    <2> QED
      BY <2>1, ActuatorsKeepLink
  <1>3. CASE ActuatorGoesOn
    <2>1. CASE WriteNext
      BY <1>3, <2>1, WriteKeepsLink DEF ActuatorGoesOn, ActuatorsOnly, WriteNext, Return
    <2>2. CASE ~WriteNext
      BY <1>3, <2>2, ActuatorsKeepLink DEF ActuatorGoesOn, ActuatorsOnly
    <2> QED
      BY <2>1, <2>2
  <1> QED
    BY <1>1, <1>2, <1>3

\* A reset ends the request in hand; whatever the labels say, nothing is promised
\* of them until they are asked for again.
LEMMA ResetKeepsLink ==
  ASSUME used = "app", LinkInv, Restart
  PROVE  LinkInv'
  <1>1. used' = "app" /\ ChipReset /\ EndWith("error") /\ muddled' = Rows
    BY DEF Restart, DeviceReset
  <1>2. ~busy'
    BY <1>1 DEF ChipReset
  <1>3. ASSUME NEW w \in Workers
        PROVE  /\ at'[w] = IF at[w] = "serving" THEN "served"
                          ELSE IF at[w] = "left_serving" THEN "free" ELSE at[w]
               /\ task'[w] = IF at'[w] = "free" THEN Connection
                            ELSE IF at[w] = "serving" THEN WithResult(task[w], "error")
                            ELSE task[w]
    BY <1>1 DEF EndWith, Free
  <1>4. Taken' = {}
    BY <1>3 DEF Taken
  <1>5. WorkerInv'
    BY <1>3, ConnectionFields, ResultFields DEF LinkInv, WorkerInv
  <1> QED
    BY <1>1, <1>2, <1>4, <1>5 DEF LinkInv, TakenInv

-----------------------------------------------------------------------------
(* The invariant.                                                          *)

\* Without a user there are neither requests nor labels.
LEMMA IdleStays ==
  ASSUME used # "app", LinkInv, [DevicesNext]_deviceVars PROVE LinkInv'
  <1>1. Idle
    BY DEF LinkInv
  <1>2. used' = used
    BY DEF DevicesNext, RangeDriver, BootActuator, GetRange, GetReading, PostActuator,
       ActuatorGoesOn, SensorGoesOn, Restart, AppStep, LedStep, TakeRequest,
       AnswerRequest, WorkerGoesOn, RangeOnly, ActuatorsOnly, AppOnly, LedOnly, deviceVars
  <1>3. ~AppStep
    BY DEF AppStep
  <1>4. \A w \in Workers : ~TakeRequest(w) /\ ~AnswerRequest(w) /\ ~WorkerGoesOn(w)
    BY <1>1 DEF Idle, TakeRequest, Take, Waiting, AnswerRequest, Taken, WorkerGoesOn,
       AppOnly, WorkerStep, ConnectEnds, Receive, GiveUp, Lost
  <1>5. UNCHANGED appVars
    BY <1>3, <1>4 DEF DevicesNext, RangeDriver, BootActuator, GetRange, GetReading,
       PostActuator, ActuatorGoesOn, SensorGoesOn, Restart, LedStep, RangeOnly,
       ActuatorsOnly, LedOnly, deviceVars
  <1>6. UNCHANGED <<at, callbacks, label>>
    BY <1>5 DEF appVars, workerVars
  <1> QED
    BY <1>1, <1>2, <1>6 DEF LinkInv, Idle

\* What the invariant rests on.
DevicesTypeInv ==
    /\ TaskTypeOK /\ label \in [Rows -> Texts]
    /\ ActuatorInv /\ PinInv

LEMMA LabelStep ==
  TaskTypeOK /\ label \in [Rows -> Texts] /\ [AppNext]_appVars => label' \in [Rows -> Texts]
  <1> SUFFICES ASSUME TaskTypeOK, label \in [Rows -> Texts], [AppNext]_appVars
               PROVE  label' \in [Rows -> Texts]
    OBVIOUS
  <1>1. CASE RunCallback
    <2>1. callbacks # << >> /\ callbacks \in Seq(TaskType)
      BY <1>1 DEF RunCallback, TaskTypeOK
    <2>2. Head(callbacks) \in TaskType
      BY <2>1
    <2>3. Head(callbacks).text \in Texts
      BY <2>2 DEF TaskType
    <2> QED
      BY <1>1, <2>3 DEF RunCallback
  <1>2. UserStep \/ PollTimer => label' = label
    BY DEF UserStep, ShowProvision, TkIdle, ShowRows, ShowOther, Connect, ClickRow, Ask,
       PollTimer
  <1>3. (\E w \in Workers : WorkerStep(w) \/ Take(w)) => label' = label
    BY DEF WorkerStep, ConnectEnds, Receive, GiveUp, Report, Lost, Take
  <1>4. (\E text \in Texts : Reply(text)) \/ (\E r \in Rows : OthersDrive(r)) \/ DeviceReset
        \/ UNCHANGED appVars
            => label' = label
    BY DEF Reply, EndWith, OthersDrive, DeviceReset, appVars
  <1> QED
    BY <1>1, <1>2, <1>3, <1>4 DEF AppNext

LEMMA LinkStep ==
  DevicesTypeInv /\ LinkInv /\ [DevicesNext]_deviceVars => LinkInv'
  <1> SUFFICES ASSUME DevicesTypeInv, LinkInv, [DevicesNext]_deviceVars PROVE LinkInv'
    OBVIOUS
  <1>1. CASE used # "app"
    BY <1>1, IdleStays
  <1>2. CASE used = "app"
    <2>1. CASE AppStep
      BY <2>1, AppStepKeepsLink DEF DevicesTypeInv
    <2>2. ASSUME NEW w \in Workers, TakeRequest(w) \/ AnswerRequest(w) \/ WorkerGoesOn(w)
          PROVE  LinkInv'
      BY <1>2, <2>2, TakeKeepsLink, AnswerKeepsLink, WorkerKeepsLink DEF DevicesTypeInv
    <2>3. CASE BootActuator \/ PostActuator \/ ActuatorGoesOn
      BY <1>2, <2>3, DeviceKeepsLink DEF DevicesTypeInv
    <2>6. CASE Restart
      BY <1>2, <2>6, ResetKeepsLink
    <2>4. ~GetRange /\ ~GetReading /\ ~LedStep
      BY <1>2 DEF GetRange, GetReading, LedStep
    <2>5. CASE RangeDriver \/ SensorGoesOn \/ UNCHANGED deviceVars
      <3>1. UNCHANGED <<actuatorVars, appVars, used>>
        BY <2>5 DEF RangeDriver, SensorGoesOn, RangeOnly, deviceVars
      <3>2. UNCHANGED LinkAppVars /\ UNCHANGED <<busy, call, driven, used>>
        BY <3>1 DEF actuatorVars, callVars, appVars, workerVars, LinkAppVars
      <3> QED
        BY <3>2, NothingKeepsLink
    <2> QED
      BY <2>1, <2>2, <2>3, <2>4, <2>5, <2>6 DEF DevicesNext
  <1> QED
    BY <1>1, <1>2

LEMMA LinkInitial == DevicesInit => LinkInv
  <1> SUFFICES ASSUME DevicesInit PROVE LinkInv
    OBVIOUS
  <1>1. AppInit /\ ActuatorsInit
    BY DEF DevicesInit
  <1>2. \A w \in Workers : at[w] = "free" /\ task[w] = Connection
    BY <1>1 DEF AppInit
  <1>3. /\ callbacks = << >> /\ label = [r \in Rows |-> "none"] /\ ~busy
        /\ \A r \in Rows : label[r] = "none"
    BY <1>1 DEF AppInit, ActuatorsInit
  <1>4. Taken = {}
    BY <1>2 DEF Taken
  <1>5. TakenInv /\ WorkerInv
    BY <1>2, <1>3, <1>4, ConnectionFields DEF TakenInv, WorkerInv
  <1>6. ASSUME NEW r \in Rows PROVE RowInv(r)
    <2>1. Asks(r) = {} /\ Answers(r) = {}
      BY <1>2, <1>3, ConnectionFields DEF Asks, Answers
    <2> QED
      BY <1>3, <2>1, NothingSaid DEF RowInv
  <1> QED
    BY <1>2, <1>3, <1>5, <1>6 DEF LinkInv, Idle

LEMMA DevicesTypeHolds == DevicesSpec => []DevicesTypeInv
  <1>1. AppInit => TaskTypeOK /\ label \in [Rows -> Texts]
    BY TaskInit DEF AppInit, Texts
  <1>2. ActuatorsInit => ActuatorInv /\ PinInv
    BY ActuatorsInitial, PinsInitial
  <1>3. TaskTypeOK /\ label \in [Rows -> Texts] /\ [AppNext]_appVars
            => (TaskTypeOK /\ label \in [Rows -> Texts])'
    BY TaskStep, LabelStep
  <1>4. AppSpec => [](TaskTypeOK /\ label \in [Rows -> Texts])
    BY <1>1, <1>3, PTL DEF AppSpec
  <1>5. ActuatorsSpec => []PinInv
    BY ActuatorInvariant, <1>2, PinStep, PTL DEF ActuatorsSpec
  <1> QED
    BY <1>4, <1>5, ActuatorInvariant, ComponentsImplemented, PTL DEF DevicesTypeInv

\* relay.py and led.py over api_module.c, relay_module.c and led_module.c: whatever
\* times out, is lost, fails or restarts, a label that says "on" or "off" says what
\* the pin carries, for any number of outputs, workers and callbacks; unless the
\* last request of its row overlapped with another, or a reset of the device or
\* another client has driven the pin since that request was made.
THEOREM LabelIsDrivenHolds == DevicesSpec => []LabelIsDriven
  <1>1. LinkInv => LabelIsDriven
    <2> SUFFICES ASSUME LinkInv, NEW r \in Rows, label[r] \in {"on", "off"},
                        r \notin muddled, ~Outstanding(r)
                 PROVE  driven[r] = IF label[r] = "on" THEN 1 ELSE 0
      BY DEF LabelIsDriven
    <2>1. used = "app"
      BY DEF LinkInv, Idle
    <2>2. RowInv(r) /\ WorkerInv
      BY <2>1, RowIsInv DEF LinkInv
    <2>3. Asks(r) = {}
      BY <2>2, ConnectionFields DEF Asks, Outstanding, WorkerInv
    <2>4. Answers(r) = {}
      BY DEF Answers, Outstanding
    <2> QED
      BY <2>2, <2>3, <2>4 DEF RowInv, Agrees, OnOff
  <1> QED
    BY <1>1, LinkInitial, LinkStep, DevicesTypeHolds, PTL DEF DevicesSpec
=============================================================================
