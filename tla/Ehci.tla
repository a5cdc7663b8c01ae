-------------------------------- MODULE Ehci --------------------------------
(***************************************************************************)
(* The EHCI driver (src/kernel/drivers/usb/ehci.c): start of the           *)
(* controller, the asynchronous schedule, the descriptor pools and the one *)
(* transfer the kernel makes, ehci_get_device_descriptor.  The controller  *)
(* is external: it works on the schedule in memory while the driver runs   *)
(* and takes any time to follow the command register, so every polled wait *)
(* of the driver may end either way.  Ports are in EhciPort.               *)
(*                                                                         *)
(* Reads and writes of USBCMD are one step: nobody else writes RS and ASE. *)
(* Links are 0 for g_async_head, i for g_qh_pool[i].                       *)
(***************************************************************************)
EXTENDS Integers, Sequences

CONSTANTS
    MAX_QH,     \* EHCI_MAX_QH
    MAX_QTD,    \* EHCI_MAX_QTD
    MaxReq      \* bound: descriptor requests

VARIABLES
    hc,         \* the controller's registers
    pos,        \* the queue head the controller is at, or NONE
    found,      \* g_ehci_found
    head,       \* g_async_head.horiz_link
    qh,         \* g_qh_pool: link and chain of qTDs of each queue head
    token,      \* g_qtd_pool: the status in the token of each qTD
    qh_used,    \* g_qh_used
    qtd_used,   \* g_qtd_used
    setup_buf,  \* g_setup_buf: the request in it
    data_buf,   \* g_data_buf: the request it answers, 0 when cleared
    reply,      \* the request the device answers next
    pc,         \* the driver's next step
    why,        \* the call ehci_async_start or ehci_async_stop returns to
    ok,         \* what it returns
    cur,        \* qh, q0, q1 and q2 of the transfer under way
    old_next,   \* old_next of ehci_control_transfer
    req,        \* the request under way or made last
    ret,        \* what ehci_get_device_descriptor returns
    untrusted,  \* ghost: a wait the lists depend on timed out since the last
                \* complete reset of the controller
    failed      \* ghost: transfers that failed since ehci_pool_reset

controller == <<hc, pos, reply>>
pools == <<qh, token, qh_used, qtd_used>>
buffers == <<setup_buf, data_buf>>
ghosts == <<untrusted, failed>>
vars == <<hc, pos, reply, found, head, qh, token, qh_used, qtd_used, setup_buf,
          data_buf, pc, why, ok, cur, old_next, req, ret, untrusted, failed>>

ASSUME BoundsAssumption ==
    /\ MAX_QH \in Nat \ {0} /\ MaxReq \in Nat
    /\ MAX_QTD \in Nat /\ MAX_QTD >= 3 * MAX_QH     \* 8 and 32 in the driver

HEAD == 0           \* g_async_head
NOWHERE == -1       \* a zeroed link
FIRMWARE == -2      \* the list the firmware left in ASYNCLISTADDR
NONE == -3
QHs == 1 .. MAX_QH
QTDs == 1 .. MAX_QTD
ZeroQh == [link |-> NOWHERE, chain |-> <<>>]
NoTransfer == [qh |-> 0, chain |-> <<>>]
Halted == [RS |-> FALSE, ASE |-> FALSE, HCRESET |-> FALSE, ASS |-> FALSE,
           HCH |-> TRUE, HSE |-> FALSE, list |-> NOWHERE]
FirmwareRunning == [RS |-> TRUE, ASE |-> TRUE, HCRESET |-> FALSE, ASS |-> TRUE,
                    HCH |-> FALSE, HSE |-> FALSE, list |-> FIRMWARE]

Init ==
    /\ \/ hc = Halted /\ pos = NONE
       \/ hc = FirmwareRunning /\ pos = FIRMWARE
    /\ reply = 0 /\ found = FALSE /\ head = NOWHERE
    /\ qh = [i \in QHs |-> ZeroQh] /\ token = [i \in QTDs |-> "zero"]
    /\ qh_used = 0 /\ qtd_used = 0 /\ setup_buf = 0 /\ data_buf = 0
    /\ pc = "boot" /\ why = "boot" /\ ok = TRUE
    /\ cur = NoTransfer /\ old_next = NOWHERE /\ req = 0
    /\ ret = [rc |-> 0, data |-> 0, exhausted |-> FALSE]
    /\ untrusted = TRUE /\ failed = 0
----------------------------------------------------------------------------
\* The controller.  It halts, runs, enables and disables the schedule some
\* time after the command asks for it.

driver == <<found, head, qh, qh_used, qtd_used, setup_buf, pc, why, ok, cur,
            old_next, req, ret, untrusted, failed>>

HcStop ==
    /\ ~hc.RS /\ ~hc.HCH
    /\ hc' = [hc EXCEPT !.HCH = TRUE, !.ASS = FALSE] /\ pos' = NONE
HcRun ==
    /\ hc.RS /\ hc.HCH
    /\ hc' = [hc EXCEPT !.HCH = FALSE] /\ UNCHANGED pos
HcAsyncOn ==
    /\ hc.RS /\ ~hc.HCH /\ hc.ASE /\ ~hc.ASS
    /\ hc' = [hc EXCEPT !.ASS = TRUE] /\ pos' = hc.list
HcAsyncOff ==
    /\ ~hc.ASE /\ hc.ASS
    /\ hc' = [hc EXCEPT !.ASS = FALSE] /\ pos' = NONE
HcResetDone ==
    /\ hc.HCRESET
    /\ hc' = Halted /\ pos' = NONE
HcHostError ==
    /\ hc.ASS /\ ~hc.HSE
    /\ hc' = [hc EXCEPT !.HSE = TRUE, !.RS = FALSE, !.HCH = TRUE, !.ASS = FALSE]
    /\ pos' = NONE
HcFollow ==
    /\ hc.ASS /\ pos \in {HEAD} \cup QHs
    /\ pos' = (IF pos = HEAD THEN head ELSE qh[pos].link) /\ UNCHANGED hc

\* The first qTD of the chain that is not done is executed when it is
\* active: SETUP sends what the buffer holds, a full DATA fills the buffer
\* with the answer and a short one leaves it, any may end in an error.
HcExecute ==
    /\ hc.ASS /\ pos \in QHs
    /\ \E k \in DOMAIN qh[pos].chain :
        LET d == qh[pos].chain[k] IN
        /\ token[d] = "active"
        /\ \A j \in 1 .. k - 1 : token[qh[pos].chain[j]] = "done"
        /\ \/ /\ token' = [token EXCEPT ![d] = "done"]
              /\ reply' = IF k = 1 THEN setup_buf ELSE reply
              /\ data_buf' \in (IF k = 2 THEN {reply, data_buf} ELSE {data_buf})
           \/ /\ token' = [token EXCEPT ![d] = "error"]
              /\ UNCHANGED <<reply, data_buf>>
    /\ UNCHANGED <<hc, pos>>

Controller ==
    /\ \/ /\ \/ HcStop \/ HcRun \/ HcAsyncOn \/ HcAsyncOff
             \/ HcResetDone \/ HcHostError \/ HcFollow
          /\ UNCHANGED <<token, reply, data_buf>>
       \/ HcExecute
    /\ UNCHANGED driver
----------------------------------------------------------------------------
\* Helpers of the driver.

\* MUTANT: the counter of queue heads is not reset.
ehci_pool_reset_KeepQh ==
    /\ qh_used' = qh_used /\ qtd_used' = 0 /\ failed' = 0
    /\ qh' = [i \in QHs |-> ZeroQh] /\ token' = [i \in QTDs |-> "zero"]
\* Both pools are emptied and their memory is zeroed.
ehci_pool_reset ==
    /\ qh_used' = 0 /\ qtd_used' = 0 /\ failed' = 0
    /\ qh' = [i \in QHs |-> ZeroQh] /\ token' = [i \in QTDs |-> "zero"]

\* MUTANT: the schedule is not awaited.
ehci_async_stop_NoWait(caller) ==
    /\ why' = caller
    /\ hc' = [hc EXCEPT !.ASE = FALSE]
    /\ pc' = "stopped" /\ ok' = TRUE
\* Ask for the schedule to stop; nothing is awaited when ASE is clear.
ehci_async_stop(caller) ==
    /\ why' = caller
    /\ IF hc.ASE THEN /\ hc' = [hc EXCEPT !.ASE = FALSE]
                      /\ pc' = "stop_async" /\ UNCHANGED ok
                 ELSE /\ pc' = "stopped" /\ ok' = TRUE /\ UNCHANGED hc
ehci_async_start(caller) ==
    /\ why' = caller
    /\ hc' = [hc EXCEPT !.ASE = TRUE, !.RS = TRUE]
    /\ pc' = "start_run" /\ UNCHANGED ok

\* The caller of the transfer sees rc, and what was copied to it.
Return(rc, data, exhausted) ==
    /\ pc' = "return"
    /\ ret' = [rc |-> rc, data |-> data, exhausted |-> exhausted]
Fail ==
    /\ Return(-1, 0, FALSE) /\ failed' = failed + 1
InitReturn == pc' = IF why = "boot" THEN "complete" ELSE "idle"

\* The polled waits.  Each reads a status bit until it has the value asked
\* for, or gives up when the last read still has the other.
ehci_wait_async_off ==
    /\ pc = "stop_async"
    /\ pc' = "stopped" /\ ok' = ~hc.ASS
    /\ untrusted' = (untrusted \/ (hc.ASS /\ why \in {"retry", "after"}))
    /\ UNCHANGED <<controller, found, head, pools, buffers, why, cur, old_next,
                   req, ret, failed>>
ehci_wait_running ==
    /\ pc = "start_run"
    /\ IF hc.HCH THEN pc' = "started" /\ ok' = FALSE
                 ELSE pc' = "start_async" /\ UNCHANGED ok
    /\ UNCHANGED <<controller, found, head, pools, buffers, why, cur, old_next,
                   req, ret, ghosts>>
\* MUTANT: the wait has no timeout.
ehci_wait_async_on_NoTimeout ==
    /\ pc = "start_async"
    /\ IF hc.ASS THEN pc' = "started" /\ ok' = TRUE ELSE UNCHANGED <<pc, ok>>
    /\ UNCHANGED <<controller, found, head, pools, buffers, why, cur, old_next,
                   req, ret, ghosts>>
ehci_wait_async_on ==
    /\ pc = "start_async"
    /\ pc' = "started" /\ ok' = hc.ASS
    /\ UNCHANGED <<controller, found, head, pools, buffers, why, cur, old_next,
                   req, ret, ghosts>>
----------------------------------------------------------------------------
\* ehci_init and ehci_init_controller.

transfer == <<setup_buf, data_buf, cur, old_next, req, ret>>

InitStop(caller) ==
    /\ hc' = [hc EXCEPT !.RS = FALSE, !.ASE = FALSE]
    /\ pc' = "halt" /\ why' = caller
    /\ UNCHANGED <<pos, reply, head, pools, transfer, ok, ghosts>>

\* No controller on the bus, no usable BAR, a page that cannot be mapped; or
\* one that is initialized.
ehci_init ==
    /\ pc = "boot"
    /\ \/ /\ found' = FALSE /\ pc' = "idle"
          /\ UNCHANGED <<controller, head, pools, transfer, why, ok, ghosts>>
       \/ found' = TRUE /\ InitStop("boot")
ehci_init_controller ==
    /\ pc = "idle" /\ found
    /\ InitStop("shell") /\ UNCHANGED found
InitHalted ==
    /\ pc = "halt"
    /\ IF hc.HCH THEN /\ hc' = [hc EXCEPT !.HCRESET = TRUE] /\ pc' = "reset"
                      /\ UNCHANGED untrusted
                 ELSE InitReturn /\ untrusted' = TRUE /\ UNCHANGED hc
    /\ UNCHANGED <<pos, reply, found, head, pools, transfer, why, ok, failed>>
InitReset ==
    /\ pc = "reset"
    /\ \/ /\ ~hc.HCRESET
          /\ ehci_pool_reset
          /\ head' = HEAD
          /\ hc' = [hc EXCEPT !.list = HEAD, !.RS = TRUE, !.ASE = FALSE]
          /\ pc' = "run" /\ untrusted' = FALSE
       \/ /\ hc.HCRESET
          /\ InitReturn /\ untrusted' = TRUE
          /\ UNCHANGED <<hc, head, pools, failed>>
    /\ UNCHANGED <<pos, reply, found, transfer, why, ok>>
InitRun ==
    /\ pc = "run"
    /\ IF hc.HCH THEN InitReturn /\ UNCHANGED <<hc, why, ok>>
                 ELSE ehci_async_start(why)
    /\ UNCHANGED <<pos, reply, found, head, pools, transfer, ghosts>>
InitStarted ==
    /\ pc = "started" /\ why \in {"boot", "shell"}
    /\ InitReturn
    /\ UNCHANGED <<controller, found, head, pools, transfer, why, ok, ghosts>>

\* ehci_init reports "initialization complete" and returns.
InitComplete ==
    /\ pc = "complete"
    /\ pc' = "idle"
    /\ UNCHANGED <<controller, found, head, pools, transfer, why, ok, ghosts>>
----------------------------------------------------------------------------
\* ehci_get_device_descriptor and ehci_control_transfer.

\* Refused at once: no controller, or no enabled port (any time, the ports
\* are not part of this module).
Refuse ==
    /\ pc = "idle"
    /\ Return(-1, 0, FALSE)
    /\ UNCHANGED <<controller, found, head, pools, buffers, why, ok, cur, old_next,
                   req, ghosts>>

\* MUTANT: the data buffer keeps the bytes of an earlier answer.
FillBuffers_NoClear == setup_buf' = req' /\ UNCHANGED data_buf
\* The request is copied in, the data buffer cleared.
FillBuffers == setup_buf' = req' /\ data_buf' = 0

\* Four descriptors are taken, each on its own: a pool that is empty does
\* not stop the other from being used up.
qtd_alloc(n) == IF qtd_used + n <= MAX_QTD THEN qtd_used + n ELSE MAX_QTD
TakeDescriptors ==
    LET i == qh_used + 1
        chain == [k \in 1 .. 3 |-> qtd_used + k]
    IN  /\ pc = "idle" /\ found /\ req < MaxReq
        /\ req' = req + 1 /\ FillBuffers
        /\ qtd_used' = qtd_alloc(3)
        /\ qh_used' = IF qh_used < MAX_QH THEN i ELSE qh_used
        /\ \/ /\ i <= MAX_QH /\ qtd_used + 3 <= MAX_QTD
              /\ qh' = [qh EXCEPT ![i] = [link |-> NOWHERE, chain |-> chain]]
              /\ token' = [d \in QTDs |-> IF d \in qtd_used + 1 .. qtd_used + 3
                                          THEN "active" ELSE token[d]]
              /\ cur' = [qh |-> i, chain |-> chain]
              /\ ehci_async_stop("before") /\ UNCHANGED ret
           \/ /\ i > MAX_QH \/ qtd_used + 3 > MAX_QTD
              /\ Return(-1, 0, TRUE)
              /\ UNCHANGED <<hc, qh, token, why, ok, cur>>
        /\ UNCHANGED <<pos, reply, found, head, old_next, ghosts>>

\* The queue head goes in after g_async_head, its own link first.
LinkQh ==
    /\ pc = "stopped" /\ why = "before"
    /\ \/ /\ ok
          /\ old_next' = head
          /\ qh' = [qh EXCEPT ![cur.qh].link = head]
          /\ pc' = "link" /\ UNCHANGED <<ret, failed>>
       \/ ~ok /\ Fail /\ UNCHANGED <<old_next, qh>>
    /\ UNCHANGED <<controller, found, head, token, qh_used, qtd_used, buffers, why,
                   ok, cur, req, untrusted>>
LinkHead ==
    /\ pc = "link"
    /\ head' = cur.qh
    /\ ehci_async_start("xfer")
    /\ UNCHANGED <<pos, reply, found, pools, transfer, ghosts>>

\* The schedule did not start: stop, take the queue head out, start again;
\* the results of both are ignored.
XferStarted ==
    /\ pc = "started" /\ why = "xfer"
    /\ IF ok THEN pc' = "poll" /\ UNCHANGED <<hc, why, ok>>
             ELSE ehci_async_stop("retry")
    /\ UNCHANGED <<pos, reply, found, head, pools, transfer, ghosts>>
Retry ==
    /\ pc = "stopped" /\ why = "retry"
    /\ head' = old_next
    /\ ehci_async_start("giveup")
    /\ UNCHANGED <<pos, reply, found, pools, transfer, ghosts>>

\* The polling ends when no token is active, on a host system error, or at
\* the timeout, whatever the tokens are then.
PollTokens ==
    /\ pc = "poll"
    /\ ehci_async_stop("after")
    /\ UNCHANGED <<pos, reply, found, head, pools, transfer, ghosts>>

AllDone == \A k \in 1 .. 3 : token[cur.chain[k]] = "done"
XferStopped ==
    /\ pc = "stopped" /\ why = "after"
    /\ \/ /\ ok
          /\ head' = old_next
          /\ ehci_async_start(IF AllDone THEN "done" ELSE "fail")
          /\ UNCHANGED <<ret, failed>>
       \/ ~ok /\ Fail /\ UNCHANGED <<hc, why, ok, head>>
    /\ UNCHANGED <<pos, reply, found, pools, buffers, cur, old_next, req, untrusted>>

\* After the restart: failure, or the answer is copied out and the pools are
\* emptied.  A descriptor that does not begin as one is refused.
XferReturn ==
    /\ pc = "started" /\ why \in {"giveup", "fail", "done"}
    /\ \/ /\ why = "done" /\ ok
          /\ Return(IF data_buf = 0 THEN -1 ELSE 0, data_buf, FALSE)
          /\ ehci_pool_reset
       \/ /\ why # "done" \/ ~ok
          /\ Fail /\ UNCHANGED pools
    /\ UNCHANGED <<controller, found, head, buffers, why, ok, cur, old_next, req,
                   untrusted>>
Returned ==
    /\ pc = "return"
    /\ pc' = "idle" /\ cur' = NoTransfer /\ old_next' = NOWHERE
    /\ ret' = [rc |-> 0, data |-> 0, exhausted |-> FALSE]
    /\ UNCHANGED <<controller, found, head, pools, buffers, why, ok, req, ghosts>>
----------------------------------------------------------------------------
\* The steps of a call once it is made.
Running ==
    \/ ehci_init \/ InitHalted \/ InitReset \/ InitRun \/ InitStarted \/ InitComplete
    \/ ehci_wait_async_off \/ ehci_wait_running \/ ehci_wait_async_on
    \/ LinkQh \/ LinkHead \/ XferStarted \/ Retry \/ PollTokens \/ XferStopped
    \/ XferReturn \/ Returned
Next ==
    \/ Controller
    \/ Running
    \/ ehci_init_controller \/ Refuse \/ TakeDescriptors

Spec == Init /\ [][Next]_vars
\* The kernel's only thread goes on; nothing is assumed of the controller.
FairSpec == Spec /\ WF_vars(Running)
----------------------------------------------------------------------------
\* As long as the waits that guard the lists were answered, and again after
\* every complete reset, the list is the anchor and at most the queue head of
\* the transfer under way, linked back to the anchor, and the controller is
\* on one of the two: it never follows a zeroed link, nor a queue head that
\* was taken out or whose memory was given back to the pool.
ScheduleIntact ==
    ~untrusted =>
        /\ \/ head = HEAD
           \/ head = cur.qh /\ head \in 1 .. qh_used /\ qh[head].link = HEAD
        /\ hc.ASS => pos \in {HEAD, head}

\* Under the same condition ehci_get_device_descriptor returns 0 only with
\* the answer to this very request, never what an earlier one left in the
\* buffer or in the schedule.
SuccessIsOwnAnswer ==
    pc = "return" /\ ret.rc = 0 /\ ~untrusted => ret.data = req /\ req # 0

\* "descriptor pool exhausted" is reported only after as many failed
\* transfers as there are queue heads since the pools were last emptied:
\* nothing else uses descriptors up.
RefusedOnlyAfterFailures ==
    pc = "return" /\ ret.exhausted => failed >= MAX_QH

\* Every call of the driver returns, whatever the controller does.
CallsReturn == pc # "idle" ~> pc = "idle"
=============================================================================
