----------------------------- MODULE DesktopApp -----------------------------
(***************************************************************************)
(* desktop_app: the Tk main loop, the worker threads that wait for the     *)
(* device, and the timers and callbacks they leave with the main loop.     *)
(* Modelled are the navigation (main.py), the poll and the Connect button  *)
(* of the provision page, and the relay and LED pages, which are alike: a  *)
(* label and three buttons for every output.                               *)
(*                                                                         *)
(* What the device does with the request of a row is left to Devices.      *)
(* Callbacks that a worker leaves in one go are handled in one step.       *)
(***************************************************************************)
EXTENDS Integers, Sequences

CONSTANTS
    Rows,         \* outputs on the relay and the LED page
    Workers,      \* bound: worker threads that may run at a time
    MaxCallbacks  \* bound: callbacks that wait while another worker starts

Timers == 1 .. 2
None == 0
Pages == {"provision", "rows", "other"}
Texts == {"none", "on", "off", "error"}

ASSUME AppAssumption == "none" \notin Rows /\ MaxCallbacks \in Nat

VARIABLES
    page,         \* the page that is shown
    mapped,       \* is the provision page on the screen (winfo_ismapped)?
    timers,       \* the timers armed with after(20000, _start_poll)
    poll_job,     \* ProvisionPage._poll_job
    connect_btn,  \* is the Connect button enabled?
    label,        \* what the label of a row says
    at,           \* where the request of a worker is
    task,         \* what the worker asks for; the text is also its result
    callbacks,    \* what Tk has still to call, after(0, ...)
    muddled       \* history: rows whose last request was not alone, or whose
                  \* output has been driven by somebody else since

workerVars == <<at, task>>
pageVars == <<page, mapped>>
pollVars == <<timers, poll_job>>
appVars == <<pageVars, pollVars, connect_btn, label, workerVars, callbacks,
             muddled>>

Task(kind, row, text) == [kind |-> kind, row |-> row, text |-> text]
TaskType == [kind : {"connect"}, row : {"none"}, text : Texts]
            \cup [kind : {"read", "set"}, row : Rows, text : Texts]
WithResult(t, text) == Task(t.kind, t.row, text)
Connection == Task("connect", "none", "none")

\* "left" and "left_serving": the worker has given up, but the request is still
\* with the device.
Places == {"free", "sent", "serving", "served", "left", "left_serving"}

AppInit ==
    /\ page = "provision" /\ mapped = FALSE /\ timers = {1} /\ poll_job = 1
    /\ connect_btn = TRUE /\ label = [r \in Rows |-> "none"]
    /\ at = [w \in Workers |-> "free"]
    /\ task = [w \in Workers |-> Connection]
    /\ callbacks = << >> /\ muddled = {}

-----------------------------------------------------------------------------
(* The main loop: what the user clicks, and the poll.                      *)

\* threading.Thread(target=task).start(), one worker for each of the tasks: which
\* of the free ones makes no difference.
Launch(tasks) ==
    LET Seats == {f \in [tasks -> {w \in Workers : at[w] = "free"}] :
                     \A i, j \in tasks : f[i] = f[j] => i = j}
        seat == CHOOSE f \in Seats : TRUE
    IN /\ Len(callbacks) <= MaxCallbacks /\ Seats # {}
       /\ at' = [w \in Workers |->
                    IF \E i \in tasks : seat[i] = w THEN "sent" ELSE at[w]]
       /\ task' = [w \in Workers |->
                      IF \E i \in tasks : seat[i] = w
                      THEN CHOOSE i \in tasks : seat[i] = w ELSE task[w]]

Outstanding(r) ==
    \/ \E w \in Workers : at[w] # "free" /\ task[w].row = r
    \/ \E i \in DOMAIN callbacks : callbacks[i].row = r

Ask(rows, tasks) ==
    /\ Launch(tasks)
    /\ muddled' = (muddled \ rows) \cup {r \in rows : Outstanding(r)}
    /\ UNCHANGED <<connect_btn, label, callbacks>>

\* _stop_poll cancels the timer it knows; to cancel one that has fired is no
\* error.
StopPoll(armed) == poll_job' = None /\ timers' = armed \ {poll_job}

\* _start_poll: _stop_poll first.
MutArmPoll(armed) ==
    /\ Timers \ armed # {}
    /\ poll_job' = CHOOSE t \in Timers : t \notin armed
    /\ timers' = armed \cup {poll_job'}
ArmPoll(armed) ==
    /\ poll_job' = CHOOSE t \in Timers : t \notin armed \ {poll_job}
    /\ timers' = (armed \ {poll_job}) \cup {poll_job'}

\* show_page, which packs the page anew even when it is the same: Tk maps it when
\* it is idle, and on_hide is only called for a page that is mapped.
ShowProvision ==
    /\ page' = "provision" /\ mapped' = FALSE /\ ArmPoll(timers)
    /\ UNCHANGED <<connect_btn, label, workerVars, callbacks, muddled>>

TkIdle ==
    /\ page = "provision" /\ ~mapped
    /\ mapped' = TRUE
    /\ UNCHANGED <<page, pollVars, connect_btn, label, workerVars, callbacks, muddled>>

Leave ==
    /\ mapped' = FALSE
    /\ IF mapped THEN StopPoll(timers) ELSE UNCHANGED pollVars

ShowRows ==
    /\ page' = "rows" /\ Leave
    /\ Ask(Rows, {Task("read", r, "none") : r \in Rows})

ShowOther ==
    /\ page' = "other" /\ Leave
    /\ UNCHANGED <<connect_btn, label, workerVars, callbacks, muddled>>

PollTimer ==
    \E t \in timers :
        /\ ArmPoll(timers \ {t})
        /\ UNCHANGED <<pageVars, connect_btn, label, workerVars, callbacks, muddled>>

\* _connect
MutConnect ==
    /\ mapped /\ connect_btn
    /\ Launch({Connection})
    /\ UNCHANGED <<pageVars, pollVars, connect_btn, label, callbacks, muddled>>
Connect ==
    /\ mapped /\ connect_btn
    /\ connect_btn' = FALSE
    /\ Launch({Connection})
    /\ UNCHANGED <<pageVars, pollVars, label, callbacks, muddled>>

\* _read and _set of a row.
ClickRow(r) ==
    /\ page = "rows"
    /\ \/ Ask({r}, {Task("read", r, "none")})
       \/ \E state \in {"on", "off"} : Ask({r}, {Task("set", r, state)})
    /\ UNCHANGED <<pageVars, pollVars>>

\* The main loop runs the first of its callbacks.
RunCallback ==
    /\ callbacks # << >>
    /\ callbacks' = Tail(callbacks)
    /\ LET c == Head(callbacks)
       IN /\ connect_btn' = (connect_btn \/ c.kind = "connect")
          /\ label' = IF c.row \in Rows THEN [label EXCEPT ![c.row] = c.text]
                                        ELSE label
    /\ UNCHANGED <<pageVars, pollVars, workerVars, muddled>>

-----------------------------------------------------------------------------
(* The workers.                                                            *)

\* Free workers are all alike.
Free(tasks) == [w \in Workers |-> IF at'[w] = "free" THEN Connection ELSE tasks[w]]

Report(w, text, place) ==
    /\ callbacks' = Append(callbacks, WithResult(task[w], text))
    /\ at' = [at EXCEPT ![w] = place]
    /\ task' = Free(task)
    /\ UNCHANGED <<pageVars, pollVars, connect_btn, label, muddled>>

\* The answer has arrived.
Receive(w) == at[w] = "served" /\ Report(w, task[w].text, "free")

\* The request times out or fails on its way: before the device took it, while
\* it is with it, or on the way back.
GiveUp(w) ==
    \/ at[w] = "sent" /\ Report(w, "error", "left")
    \/ at[w] = "serving" /\ Report(w, "error", "left_serving")
    \/ at[w] = "served" /\ Report(w, "error", "free")

\* Nobody serves this request: the device is not reached or drops it.
Lost(w) ==
    /\ at[w] = "left" /\ at' = [at EXCEPT ![w] = "free"] /\ task' = Free(task)
    /\ UNCHANGED <<pageVars, pollVars, connect_btn, label, callbacks, muddled>>

\* The finally clause of _connect comes on every way out.
MutConnectEnds(w) == Receive(w)
ConnectEnds(w) == Receive(w) \/ GiveUp(w)

WorkerStep(w) ==
    \/ task[w].kind = "connect" /\ ConnectEnds(w)
    \/ task[w].kind # "connect" /\ (Receive(w) \/ GiveUp(w))
    \/ Lost(w)

UserStep == ShowProvision \/ TkIdle \/ ShowRows \/ ShowOther \/ Connect
            \/ \E r \in Rows : ClickRow(r)

-----------------------------------------------------------------------------
(* The side of the device: it takes a request, and answers it.             *)

Waiting(w) == at[w] \in {"sent", "left"}

Take(w) ==
    /\ Waiting(w)
    /\ at' = [at EXCEPT ![w] = IF @ = "sent" THEN "serving" ELSE "left_serving"]
    /\ UNCHANGED <<pageVars, pollVars, connect_btn, label, task, callbacks,
                   muddled>>

\* Every request that the device has taken ends with this text; it takes one.
EndWith(text) ==
    /\ at' = [w \in Workers |-> IF at[w] = "serving" THEN "served"
                               ELSE IF at[w] = "left_serving" THEN "free" ELSE at[w]]
    /\ task' = Free([w \in Workers |->
                        IF at[w] = "serving" THEN WithResult(task[w], text)
                                             ELSE task[w]])
    /\ UNCHANGED <<pageVars, pollVars, connect_btn, label, callbacks>>

Reply(text) == EndWith(text) /\ UNCHANGED muddled

\* Behind the back of the app another client drives the output of a row, or a
\* reset lets all of them fall and drops the connection of the request in hand.
OthersDrive(r) ==
    /\ muddled' = muddled \cup {r}
    /\ UNCHANGED <<pageVars, pollVars, connect_btn, label, workerVars, callbacks>>

DeviceReset == EndWith("error") /\ muddled' = Rows

AppNext ==
    \/ UserStep \/ PollTimer \/ RunCallback
    \/ \E w \in Workers : WorkerStep(w) \/ Take(w)
    \/ \E text \in Texts : Reply(text)
    \/ \E r \in Rows : OthersDrive(r)
    \/ DeviceReset

AppSpec == AppInit /\ [][AppNext]_appVars

-----------------------------------------------------------------------------
(* What the user relies on.                                                *)

AppTypeOK ==
    /\ page \in Pages /\ (mapped => page = "provision") /\ timers \subseteq Timers
    /\ poll_job \in {None} \cup Timers
    /\ connect_btn \in BOOLEAN /\ label \in [Rows -> Texts]
    /\ at \in [Workers -> Places] /\ task \in [Workers -> TaskType]
    /\ callbacks \in Seq(TaskType) /\ muddled \subseteq Rows

\* However often and in whatever order pages are shown and timers fire, at most
\* one poll is armed, the one _poll_job knows.  (That none is armed while the page
\* is hidden does not hold: a page that is left before Tk has mapped it keeps it.)
OnePoll == timers \subseteq {poll_job}

\* The workers and the callbacks that will enable the button again.
Asking == {w \in Workers : task[w].kind = "connect"
                             /\ at[w] \in {"sent", "serving", "served"}}
Ending == {i \in DOMAIN callbacks : callbacks[i].kind = "connect"}

\* At most one worker waits for a POST /wifi, which blocks the device: the
\* button is disabled from the click until the callback that ends it, and
\* enabled otherwise.
OneConnect ==
    /\ \A v, w \in Asking : v = w
    /\ connect_btn <=> (Asking = {} /\ Ending = {})

\* The button comes back, whatever becomes of the request.
ConnectComesBack == ~connect_btn ~> connect_btn
=============================================================================
