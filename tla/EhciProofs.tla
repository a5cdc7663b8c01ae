----------------------------- MODULE EhciProofs -----------------------------
(***************************************************************************)
(* Theorems about Ehci, for pools of every size and any number of          *)
(* requests, whatever the controller does and whichever waits time out;    *)
(* about EhciPort, for every number of ports and of devices, every set     *)
(* of high-speed devices and with or without port power switches; and      *)
(* about Pci, for every well-formed machine, every size of the table and   *)
(* every BAR of the controller.                                            *)
(***************************************************************************)
EXTENDS Ehci, EhciPort, Pci, FiniteSetTheorems, SequenceTheorems, WellFoundedInduction, TLAPS

(***************************************************************************)
(* The inductive invariant.                                                *)
(***************************************************************************)

Registers == [RS : BOOLEAN, ASE : BOOLEAN, HCRESET : BOOLEAN, ASS : BOOLEAN,
              HCH : BOOLEAN, HSE : BOOLEAN, list : Int]
Chains == [1 .. 3 -> QTDs]

\* Inside ehci_async_stop and ehci_async_start.
Stopping == {"stop_async", "stopped"}
Starting == {"start_run", "start_async", "started"}

EhciType ==
    /\ hc \in Registers /\ head \in Int /\ old_next \in Int
    /\ qh \in [QHs -> [link : Int, chain : {<<>>} \cup Chains]]
    /\ token \in [QTDs -> {"zero", "active", "done", "error"}]
    /\ qh_used \in 0 .. MAX_QH /\ qtd_used \in 0 .. MAX_QTD
    /\ failed \in Nat /\ req \in Nat
    /\ ok \in BOOLEAN /\ untrusted \in BOOLEAN

\* Which caller ehci_async_stop and ehci_async_start return to.
CallerInv ==
    /\ pc \in Stopping => why \in {"before", "retry", "after"}
    /\ pc \in Starting => why \in {"boot", "shell", "xfer", "giveup", "done", "fail"}
    /\ pc \in {"halt", "reset", "run"} => why \in {"boot", "shell"}

\* A transfer holds its descriptors; while it is linked its queue head is on
\* the schedule.
InTransfer ==
    \/ pc \in {"link", "poll"} \cup Stopping
    \/ pc \in Starting /\ why \in {"xfer", "giveup", "done", "fail"}
Linked ==
    \/ pc = "poll"
    \/ pc \in Starting /\ why = "xfer"
    \/ pc \in Stopping /\ why \in {"retry", "after"}

\* Queue heads are used up by failed transfers and the one under way, qTDs
\* three with each.
CountInv ==
    /\ qh_used < MAX_QH => qtd_used = 3 * qh_used
    /\ InTransfer => qh_used = failed + 1
    /\ ~InTransfer => qh_used = failed
    /\ RefusedOnlyAfterFailures

TransferInv ==
    InTransfer =>
      /\ cur.qh = qh_used /\ req > 0
      /\ cur.chain \in Chains /\ qh[cur.qh].chain = cur.chain

\* The registers, also when the lists are not to be trusted.
RegisterInv ==
    /\ hc.HCH => ~hc.ASS
    /\ pc \in {"halt", "reset"} => ~hc.RS
    /\ pc = "reset" => hc.HCH

\* The schedule as the driver believes it to be.
ListInv ==
    /\ pc # "reset" => hc.list = HEAD /\ ~hc.HCRESET
    /\ Linked => head = cur.qh
    /\ ~Linked => head = HEAD
    /\ Linked \/ pc = "link" => old_next = HEAD /\ qh[cur.qh].link = HEAD
    /\ hc.ASS => pos \in {HEAD, head}
    /\ pc = "poll" \/ (pc \in Starting /\ why = "xfer") => hc.ASE
    /\ pc \in Stopping /\ why \in {"retry", "after"} => ~hc.ASE
    /\ pc = "stopped" /\ why \in {"retry", "after"} => ok /\ ~hc.ASS

\* Whose answer the buffer may hold.
AnswerInv ==
    /\ InTransfer =>
         /\ setup_buf = req /\ data_buf \in {0, req}
         /\ token[cur.chain[1]] = "done" => reply = req
    /\ SuccessIsOwnAnswer

EhciInv ==
    /\ EhciType /\ CallerInv /\ CountInv /\ TransferInv /\ RegisterInv
    /\ ~untrusted => ListInv /\ AnswerInv
----------------------------------------------------------------------------
\* The controller.

\* The registers at reset and as the firmware may leave them.
LEMMA StartRegisters ==
    /\ Halted \in Registers /\ ~Halted.ASS /\ Halted.HCH /\ ~Halted.RS
    /\ FirmwareRunning \in Registers /\ ~FirmwareRunning.HCH
<1>1. Halted \in Registers
  BY DEF Halted, Registers, NOWHERE
<1>2. FirmwareRunning \in Registers
  BY DEF FirmwareRunning, Registers, FIRMWARE
<1>. QED
  BY <1>1, <1>2 DEF Halted, FirmwareRunning

\* It holds when the kernel starts, whatever the firmware left running.
LEMMA EhciInit == Init => EhciInv
<1>. SUFFICES ASSUME Init PROVE EhciInv
  OBVIOUS
<1>1. hc \in Registers /\ (hc.HCH => ~hc.ASS)
  BY StartRegisters DEF Init
<1>2. EhciType
  BY <1>1, BoundsAssumption DEF Init, EhciType, ZeroQh, NOWHERE, QHs, QTDs
<1>3. ~InTransfer /\ untrusted
  BY DEF Init, InTransfer, Stopping, Starting
<1>. QED
  BY <1>1, <1>2, <1>3, BoundsAssumption
  DEF Init, EhciInv, CallerInv, CountInv, TransferInv, RegisterInv,
      RefusedOnlyAfterFailures, Stopping, Starting

\* Its registers and its place in the list change; the memory does not.
HcMoves == HcStop \/ HcRun \/ HcAsyncOn \/ HcAsyncOff \/ HcResetDone \/ HcHostError
           \/ HcFollow

\* What none of its steps does to them.  A schedule that comes on starts at the
\* list register.
LEMMA HcEffect ==
    ASSUME hc \in Registers, hc.HCH => ~hc.ASS, HcMoves
    PROVE  /\ hc' \in Registers
           /\ hc'.HCH => ~hc'.ASS
           /\ ~hc.RS => ~hc'.RS /\ (hc.HCH => hc'.HCH)
           /\ ~hc.HCRESET => ~hc'.HCRESET /\ hc'.list = hc.list /\ (hc'.ASE <=> hc.ASE)
           /\ hc'.ASS => \/ ~hc.ASS /\ hc.RS /\ hc.ASE /\ pos' = hc.list
                         \/ hc.ASS /\ HcFollow
<1>. DEFINE Effect ==
           /\ hc' \in Registers
           /\ hc'.HCH => ~hc'.ASS
           /\ ~hc.RS => ~hc'.RS /\ (hc.HCH => hc'.HCH)
           /\ ~hc.HCRESET => ~hc'.HCRESET /\ hc'.list = hc.list /\ (hc'.ASE <=> hc.ASE)
           /\ hc'.ASS => \/ ~hc.ASS /\ hc.RS /\ hc.ASE /\ pos' = hc.list
                         \/ hc.ASS /\ HcFollow
<1>. USE DEF Registers
<1>1. HcStop => Effect
  BY DEF HcStop
<1>2. HcRun => Effect
  BY DEF HcRun
<1>3. HcAsyncOn => Effect
  BY DEF HcAsyncOn
<1>4. HcAsyncOff => Effect
  BY DEF HcAsyncOff
<1>5. HcResetDone => Effect
  BY StartRegisters DEF HcResetDone
<1>6. HcHostError => Effect
  BY DEF HcHostError
<1>7. HcFollow => Effect
  BY DEF HcFollow
<1>. HIDE DEF Effect
<1>8. Effect
  BY <1>1, <1>2, <1>3, <1>4, <1>5, <1>6, <1>7 DEF HcMoves
<1>. QED
  BY <1>8 DEF Effect

\* A list that is intact is followed to the anchor and the transfer's queue
\* head only.
LEMMA HcMovesStep ==
    ASSUME EhciInv, HcMoves, UNCHANGED <<token, reply, data_buf>>, UNCHANGED driver
    PROVE  EhciInv'
<1>. USE DEF driver
<1>1. /\ EhciType /\ CallerInv /\ CountInv /\ TransferInv /\ RegisterInv
      /\ ~untrusted => ListInv /\ AnswerInv
  BY DEF EhciInv
<1>2. /\ hc' \in Registers
      /\ hc'.HCH => ~hc'.ASS
      /\ ~hc.RS => ~hc'.RS /\ (hc.HCH => hc'.HCH)
      /\ ~hc.HCRESET => ~hc'.HCRESET /\ hc'.list = hc.list /\ (hc'.ASE <=> hc.ASE)
      /\ hc'.ASS => \/ ~hc.ASS /\ hc.RS /\ hc.ASE /\ pos' = hc.list
                    \/ hc.ASS /\ HcFollow
  BY <1>1, HcEffect DEF EhciType, RegisterInv
<1>3. EhciType' /\ CallerInv'
  BY <1>1, <1>2 DEF EhciType, CallerInv
<1>4. (InTransfer' <=> InTransfer) /\ (Linked' <=> Linked)
  BY DEF InTransfer, Linked
<1>5. CountInv' /\ TransferInv'
  BY <1>1, <1>4 DEF CountInv, RefusedOnlyAfterFailures, TransferInv
<1>6. RegisterInv'
  BY <1>1, <1>2 DEF RegisterInv
<1>7. ASSUME ~untrusted' PROVE ListInv' /\ AnswerInv'
  <2>1. ListInv /\ AnswerInv
    BY <1>1, <1>7
  <2>2. AnswerInv'
    BY <1>4, <2>1 DEF AnswerInv, SuccessIsOwnAnswer
  <2>3. pc # "reset" => hc'.list = HEAD /\ ~hc'.HCRESET /\ (hc'.ASE <=> hc.ASE)
    BY <1>2, <2>1 DEF ListInv
  <2>4. ASSUME hc'.ASS PROVE pos' \in {HEAD, head}
    <3>1. CASE hc.ASS /\ HcFollow
      <4>1. pos \in {HEAD, head}
        BY <2>1, <3>1 DEF ListInv
      <4>2. CASE pos = HEAD
        BY <3>1, <4>2 DEF HcFollow
      <4>3. CASE pos # HEAD
        <5>1. pos = head /\ head = cur.qh /\ qh[cur.qh].link = HEAD
          BY <2>1, <4>1, <4>3 DEF ListInv
        <5>. QED
          BY <3>1, <4>3, <5>1 DEF HcFollow
      <4>. QED
        BY <4>2, <4>3
    <3>2. CASE hc.RS /\ pos' = hc.list
      BY <1>1, <2>1, <3>2 DEF RegisterInv, ListInv
    <3>. QED
      BY <1>2, <2>4, <3>1, <3>2
  <2>5. hc'.ASS => hc.ASS \/ hc.ASE
    BY <1>2
  <2>6. ListInv'
    BY <1>4, <2>1, <2>3, <2>4, <2>5 DEF ListInv, Stopping, Starting
  <2>. QED
    BY <2>2, <2>6
<1>. QED
  BY <1>3, <1>5, <1>6, <1>7 DEF EhciInv

\* The transfer under way is the only one whose tokens and answer the
\* controller writes.
LEMMA HcExecuteStep ==
    ASSUME EhciInv, HcExecute, UNCHANGED driver
    PROVE  EhciInv'
<1>. USE DEF driver
<1>1. /\ EhciType /\ CallerInv /\ CountInv /\ TransferInv /\ RegisterInv
      /\ ~untrusted => ListInv /\ AnswerInv
  BY DEF EhciInv
<1>2. PICK k \in DOMAIN qh[pos].chain :
        LET d == qh[pos].chain[k] IN
        /\ token[d] = "active"
        /\ \A j \in 1 .. k - 1 : token[qh[pos].chain[j]] = "done"
        /\ \/ /\ token' = [token EXCEPT ![d] = "done"]
              /\ reply' = IF k = 1 THEN setup_buf ELSE reply
              /\ data_buf' \in (IF k = 2 THEN {reply, data_buf} ELSE {data_buf})
           \/ /\ token' = [token EXCEPT ![d] = "error"]
              /\ UNCHANGED <<reply, data_buf>>
  BY DEF HcExecute
<1>3. UNCHANGED <<hc, pos>> /\ hc.ASS /\ pos \in QHs
  BY DEF HcExecute
<1>. DEFINE d == qh[pos].chain[k]
<1>4. token' \in [QTDs -> {"zero", "active", "done", "error"}]
  <2>1. token \in [QTDs -> {"zero", "active", "done", "error"}]
    BY <1>1 DEF EhciType
  <2>2. token' = [token EXCEPT ![d] = "done"] \/ token' = [token EXCEPT ![d] = "error"]
    BY <1>2
  <2>. HIDE DEF d
  <2>. QED
    BY <2>1, <2>2
<1>5. EhciType' /\ CallerInv'
  BY <1>1, <1>3, <1>4 DEF EhciType, CallerInv
<1>6. (InTransfer' <=> InTransfer) /\ (Linked' <=> Linked)
  BY DEF InTransfer, Linked
<1>7. CountInv' /\ TransferInv'
  BY <1>1, <1>6 DEF CountInv, RefusedOnlyAfterFailures, TransferInv
<1>8. RegisterInv'
  BY <1>1, <1>3 DEF RegisterInv
<1>9. ASSUME ~untrusted' PROVE ListInv' /\ AnswerInv'
  <2>1. ListInv /\ AnswerInv
    BY <1>1, <1>9
  <2>2. ListInv'
    BY <1>3, <1>6, <2>1 DEF ListInv
  <2>3. Linked /\ pos = cur.qh
    BY <1>3, <2>1, BoundsAssumption DEF ListInv, HEAD, QHs
  <2>4. InTransfer
    BY <2>3 DEF InTransfer, Linked
  <2>5. qh[pos].chain = cur.chain /\ cur.chain \in Chains
    BY <1>1, <2>3, <2>4 DEF TransferInv
  <2>6. k \in 1 .. 3 /\ (k # 1 => 1 \in 1 .. k - 1)
    <3>1. k \in 1 .. 3
      BY <2>5 DEF Chains
    <3>. QED
      BY <3>1
  <2>7. k # 1 => token[cur.chain[1]] = "done" /\ reply = req
    BY <1>2, <2>1, <2>4, <2>5, <2>6 DEF AnswerInv
  <2>8. setup_buf = req /\ data_buf \in {0, req}
    BY <2>1, <2>4 DEF AnswerInv
  <2>9. data_buf' \in {0, req}
    BY <1>2, <2>6, <2>7, <2>8
  <2>10. token'[cur.chain[1]] = "done" => reply' = req
    <3>1. CASE token' = [token EXCEPT ![d] = "done"] /\ reply' = IF k = 1 THEN setup_buf ELSE reply
      BY <2>7, <2>8, <3>1
    <3>2. CASE token' = [token EXCEPT ![d] = "error"] /\ reply' = reply
      <4>1. cur.chain[1] \in QTDs
        BY <2>5 DEF Chains
      <4>2. token'[cur.chain[1]] = "done" => token[cur.chain[1]] = "done"
        <5>1. token \in [QTDs -> {"zero", "active", "done", "error"}]
          BY <1>1 DEF EhciType
        <5>. HIDE DEF d
        <5>. QED
          BY <3>2, <4>1, <5>1
      <4>. QED
        BY <2>1, <2>4, <3>2, <4>2 DEF AnswerInv
    <3>. QED
      BY <1>2, <3>1, <3>2
  <2>. QED
    BY <1>6, <2>1, <2>2, <2>8, <2>9, <2>10 DEF AnswerInv, SuccessIsOwnAnswer
<1>. QED
  BY <1>5, <1>7, <1>8, <1>9 DEF EhciInv

----------------------------------------------------------------------------
\* The driver's waits.

\* What ehci_async_start and ehci_async_stop do before they wait.
LEMMA StartEffect ==
    ASSUME NEW caller, hc \in Registers, ehci_async_start(caller)
    PROVE  /\ hc' \in Registers /\ hc'.ASE /\ hc'.RS
           /\ (hc'.ASS <=> hc.ASS) /\ (hc'.HCH <=> hc.HCH)
           /\ (hc'.HCRESET <=> hc.HCRESET) /\ hc'.list = hc.list
           /\ pc' = "start_run" /\ why' = caller /\ ok' = ok
BY DEF ehci_async_start, Registers

LEMMA StopEffect ==
    ASSUME NEW caller, hc \in Registers, ok \in BOOLEAN, ehci_async_stop(caller)
    PROVE  /\ hc' \in Registers /\ ~hc'.ASE
           /\ (hc'.RS <=> hc.RS) /\ (hc'.ASS <=> hc.ASS) /\ (hc'.HCH <=> hc.HCH)
           /\ (hc'.HCRESET <=> hc.HCRESET) /\ hc'.list = hc.list
           /\ pc' \in Stopping /\ why' = caller /\ ok' \in BOOLEAN
           /\ hc.ASE => pc' = "stop_async"
<1>1. CASE hc.ASE
  BY <1>1 DEF ehci_async_stop, Registers, Stopping
<1>2. CASE ~hc.ASE
  BY <1>2 DEF ehci_async_stop, Registers, Stopping
<1>. QED
  BY <1>1, <1>2

\* A stop that is answered leaves the schedule off; one that is not is no
\* longer trusted when a queue head has to be taken out.
LEMMA WaitOffStep ==
    ASSUME EhciInv, ehci_wait_async_off
    PROVE  EhciInv'
<1>. USE DEF ehci_wait_async_off, controller, pools, buffers
<1>1. /\ EhciType /\ CallerInv /\ CountInv /\ TransferInv /\ RegisterInv
      /\ ~untrusted => ListInv /\ AnswerInv
  BY DEF EhciInv
<1>2. pc = "stop_async" /\ pc' = "stopped" /\ why' = why
  OBVIOUS
<1>3. InTransfer /\ InTransfer' /\ (Linked' <=> Linked)
  BY <1>2 DEF InTransfer, Linked, Stopping, Starting
<1>4. ok' \in BOOLEAN /\ untrusted' \in BOOLEAN /\ (untrusted => untrusted')
      /\ (~untrusted' /\ why \in {"retry", "after"} => ~hc.ASS /\ ok')
  <2>1. hc.ASS \in BOOLEAN /\ untrusted \in BOOLEAN
    BY <1>1 DEF EhciType, Registers
  <2>. QED
    BY <2>1
<1>5. EhciType'
  BY <1>1, <1>4 DEF EhciType
<1>6. CallerInv' /\ CountInv' /\ TransferInv' /\ RegisterInv'
  BY <1>1, <1>2, <1>3 DEF CallerInv, CountInv, TransferInv, RegisterInv,
     RefusedOnlyAfterFailures, Stopping, Starting
<1>7. ASSUME ~untrusted' PROVE ListInv' /\ AnswerInv'
  <2>1. ListInv /\ AnswerInv
    BY <1>1, <1>4, <1>7
  <2>2. ListInv'
    BY <1>2, <1>3, <1>4, <1>7, <2>1 DEF ListInv, Stopping, Starting
  <2>3. AnswerInv'
    BY <1>2, <1>3, <2>1 DEF AnswerInv, SuccessIsOwnAnswer
  <2>. QED
    BY <2>2, <2>3
<1>. QED
  BY <1>5, <1>6, <1>7 DEF EhciInv

\* The waits of ehci_async_start change nothing but the driver's place.
LEMMA WaitOnStep ==
    ASSUME EhciInv, ehci_wait_running \/ ehci_wait_async_on
    PROVE  EhciInv'
<1>. USE DEF ehci_wait_running, ehci_wait_async_on, controller, pools, buffers, ghosts
<1>1. /\ EhciType /\ CallerInv /\ CountInv /\ TransferInv /\ RegisterInv
      /\ ~untrusted => ListInv /\ AnswerInv
  BY DEF EhciInv
<1>2. pc \in Starting /\ pc' \in Starting /\ why' = why /\ ok' \in BOOLEAN
  <2>1. hc.ASS \in BOOLEAN /\ ok \in BOOLEAN
    BY <1>1 DEF EhciType, Registers
  <2>. QED
    BY <2>1 DEF Starting
<1>3. (InTransfer' <=> InTransfer) /\ (Linked' <=> Linked)
  BY <1>2 DEF InTransfer, Linked, Stopping, Starting
<1>4. UNCHANGED <<hc, pos, reply, head, qh, token, qh_used, qtd_used, setup_buf, data_buf,
                  cur, old_next, req, ret, untrusted, failed>>
  OBVIOUS
<1>5. EhciType'
  BY <1>1, <1>2, <1>4 DEF EhciType
<1>6. CallerInv' /\ CountInv' /\ TransferInv' /\ RegisterInv'
  BY <1>1, <1>2, <1>3, <1>4 DEF CallerInv, CountInv, TransferInv, RegisterInv,
     RefusedOnlyAfterFailures, Stopping, Starting
<1>7. ASSUME ~untrusted' PROVE ListInv' /\ AnswerInv'
  <2>1. ListInv /\ AnswerInv
    BY <1>1, <1>4, <1>7
  <2>2. ListInv'
    BY <1>2, <1>3, <1>4, <2>1 DEF ListInv, Stopping, Starting
  <2>3. AnswerInv'
    BY <1>2, <1>3, <1>4, <2>1 DEF AnswerInv, SuccessIsOwnAnswer, Starting
  <2>. QED
    BY <2>2, <2>3
<1>. QED
  BY <1>5, <1>6, <1>7 DEF EhciInv

----------------------------------------------------------------------------
\* ehci_init_controller.

\* Steps outside a transfer that leave the lists, the pools and the buffers
\* alone: enough for the invariant is what they do to the registers.
LEMMA OutsideTransfer ==
    ASSUME EhciInv, ~InTransfer, ~InTransfer',
           UNCHANGED <<pos, reply, head, qh, token, qh_used, qtd_used, failed, req>>,
           hc' \in Registers, ok' = ok, untrusted' \in BOOLEAN, CallerInv', RegisterInv',
           old_next' \in Int,
           untrusted => untrusted',
           pc' = "return" => ret'.rc # 0 /\ ~ret'.exhausted,
           hc'.ASS <=> hc.ASS,
           pc' # "reset" => \/ untrusted'
                            \/ pc # "reset" /\ hc'.list = hc.list /\ (hc'.HCRESET <=> hc.HCRESET)
    PROVE  EhciInv'
<1>1. /\ EhciType /\ CallerInv /\ CountInv /\ TransferInv /\ RegisterInv
      /\ ~untrusted => ListInv /\ AnswerInv
  BY DEF EhciInv
<1>2. ~Linked /\ ~Linked' /\ pc' \notin Stopping \cup {"link", "poll"}
      /\ ~(pc' \in Starting /\ why' = "xfer")
  BY DEF InTransfer, Linked, Stopping, Starting
<1>3. EhciType'
  BY <1>1 DEF EhciType
<1>4. CountInv' /\ TransferInv'
  BY <1>1 DEF CountInv, TransferInv, RefusedOnlyAfterFailures
<1>5. ASSUME ~untrusted' PROVE ListInv' /\ AnswerInv'
  <2>1. ListInv /\ AnswerInv
    BY <1>1, <1>5
  <2>2. ListInv'
    BY <1>2, <1>5, <2>1 DEF ListInv, Stopping
  <2>3. AnswerInv'
    BY <2>1 DEF AnswerInv, SuccessIsOwnAnswer
  <2>. QED
    BY <2>2, <2>3
<1>. QED
  BY <1>3, <1>4, <1>5 DEF EhciInv

\* The controller is asked to halt.
LEMMA InitStopStep ==
    ASSUME EhciInv, ehci_init \/ ehci_init_controller
    PROVE  EhciInv'
<1>1. /\ EhciType /\ CallerInv /\ CountInv /\ TransferInv /\ RegisterInv
      /\ ~untrusted => ListInv /\ AnswerInv
  BY DEF EhciInv
<1>2. pc \in {"boot", "idle"} /\ ~InTransfer
  BY DEF ehci_init, ehci_init_controller, InTransfer, Stopping, Starting
<1>3. UNCHANGED <<pos, reply, head, qh, token, qh_used, qtd_used, failed, req, ok,
                untrusted, ret, old_next>>
  BY DEF ehci_init, ehci_init_controller, InitStop, controller, pools, transfer, ghosts
<1>4. \/ pc' = "idle" /\ hc' = hc
      \/ pc' = "halt" /\ why' \in {"boot", "shell"}
         /\ hc' = [hc EXCEPT !.RS = FALSE, !.ASE = FALSE]
  BY DEF ehci_init, ehci_init_controller, InitStop, controller
<1>5. /\ hc' \in Registers /\ (hc'.ASS <=> hc.ASS) /\ (hc'.HCH <=> hc.HCH)
      /\ hc'.list = hc.list /\ (hc'.HCRESET <=> hc.HCRESET)
      /\ pc' = "halt" => ~hc'.RS
  <2>1. hc \in Registers
    BY <1>1 DEF EhciType
  <2>2. CASE pc' = "idle" /\ hc' = hc
    BY <2>1, <2>2
  <2>3. CASE pc' = "halt" /\ hc' = [hc EXCEPT !.RS = FALSE, !.ASE = FALSE]
    BY <2>1, <2>3 DEF Registers
  <2>. QED
    BY <1>4, <2>2, <2>3
<1>6. ~InTransfer' /\ CallerInv' /\ RegisterInv'
  BY <1>1, <1>4, <1>5 DEF InTransfer, CallerInv, RegisterInv, Stopping, Starting
<1>7. untrusted' \in BOOLEAN /\ old_next' \in Int
  BY <1>1, <1>3 DEF EhciType
<1>. QED
  BY <1>2, <1>3, <1>4, <1>5, <1>6, <1>7, OutsideTransfer

\* It halted and is reset, or the initialization gives up.
LEMMA InitHaltedStep ==
    ASSUME EhciInv, InitHalted
    PROVE  EhciInv'
<1>1. /\ EhciType /\ CallerInv /\ CountInv /\ TransferInv /\ RegisterInv
      /\ ~untrusted => ListInv /\ AnswerInv
  BY DEF EhciInv
<1>2. pc = "halt" /\ ~InTransfer /\ hc \in Registers /\ ~hc.RS
  BY <1>1 DEF InitHalted, InTransfer, Stopping, Starting, EhciType, RegisterInv
<1>3. /\ UNCHANGED <<pos, reply, head, qh, token, qh_used, qtd_used, failed, req, ok, why>>
      /\ old_next' \in Int
  BY <1>1 DEF InitHalted, pools, transfer, EhciType
<1>4. CASE hc.HCH
  <2>1. pc' = "reset" /\ hc' = [hc EXCEPT !.HCRESET = TRUE] /\ untrusted' = untrusted
    BY <1>4 DEF InitHalted
  <2>2. hc' \in Registers /\ (hc'.ASS <=> hc.ASS) /\ hc'.HCH /\ ~hc'.RS
    BY <1>2, <1>4, <2>1 DEF Registers
  <2>3. ~InTransfer' /\ CallerInv' /\ RegisterInv'
    BY <1>1, <1>2, <1>3, <1>4, <2>1, <2>2
    DEF InTransfer, CallerInv, RegisterInv, Stopping, Starting
  <2>4. untrusted' \in BOOLEAN
    BY <1>1, <2>1 DEF EhciType
  <2>. QED
    BY <1>2, <1>3, <2>1, <2>2, <2>3, <2>4, OutsideTransfer
<1>5. CASE ~hc.HCH
  <2>1. pc' \in {"complete", "idle"} /\ hc' = hc /\ untrusted' = TRUE
    BY <1>5 DEF InitHalted, InitReturn
  <2>2. ~InTransfer' /\ CallerInv' /\ RegisterInv'
    BY <1>1, <2>1 DEF InTransfer, CallerInv, RegisterInv, Stopping, Starting
  <2>. QED
    BY <1>2, <1>3, <2>1, <2>2, OutsideTransfer
<1>. QED
  BY <1>4, <1>5

\* What the zeroed pools look like.
LEMMA PoolResetEffect ==
    ASSUME ehci_pool_reset
    PROVE  /\ qh_used' = 0 /\ qtd_used' = 0 /\ failed' = 0
           /\ qh' \in [QHs -> [link : Int, chain : {<<>>} \cup Chains]]
           /\ token' \in [QTDs -> {"zero", "active", "done", "error"}]
BY DEF ehci_pool_reset, ZeroQh, NOWHERE

\* After a complete reset everything is as it should be, and trusted again.
LEMMA InitResetStep ==
    ASSUME EhciInv, InitReset
    PROVE  EhciInv'
<1>1. /\ EhciType /\ CallerInv /\ CountInv /\ TransferInv /\ RegisterInv
      /\ ~untrusted => ListInv /\ AnswerInv
  BY DEF EhciInv
<1>2. pc = "reset" /\ ~InTransfer /\ hc \in Registers /\ hc.HCH /\ ~hc.ASS /\ ~hc.RS
      /\ why \in {"boot", "shell"}
  BY <1>1 DEF InitReset, InTransfer, Stopping, Starting, EhciType, RegisterInv, CallerInv
<1>3. UNCHANGED <<pos, reply, setup_buf, data_buf, cur, old_next, req, ret, ok, why>>
  BY DEF InitReset, transfer
<1>4. old_next' \in Int
  BY <1>1, <1>3 DEF EhciType
<1>5. CASE hc.HCRESET
  <2>1. /\ pc' \in {"complete", "idle"} /\ hc' = hc /\ untrusted' = TRUE
        /\ UNCHANGED <<head, qh, token, qh_used, qtd_used, failed>>
    BY <1>5 DEF InitReset, InitReturn, pools
  <2>2. ~InTransfer' /\ CallerInv' /\ RegisterInv'
    BY <1>1, <2>1 DEF InTransfer, CallerInv, RegisterInv, Stopping, Starting
  <2>. QED
    BY <1>2, <1>3, <1>4, <2>1, <2>2, OutsideTransfer
<1>6. CASE ~hc.HCRESET
  <2>1. /\ ehci_pool_reset /\ head' = HEAD /\ pc' = "run" /\ untrusted' = FALSE
        /\ hc' = [hc EXCEPT !.list = HEAD, !.RS = TRUE, !.ASE = FALSE]
    BY <1>6 DEF InitReset
  <2>2. hc' \in Registers /\ hc'.list = HEAD /\ ~hc'.ASS /\ ~hc'.HCRESET
    <3>1. HEAD \in Int
      BY DEF HEAD
    <3>2. hc' \in Registers
      BY <1>2, <2>1, <3>1 DEF Registers
    <3>. QED
      BY <1>2, <1>6, <2>1, <3>2 DEF Registers
  <2>3. ~InTransfer' /\ ~Linked'
    BY <2>1 DEF InTransfer, Linked, Stopping, Starting
  <2>4. EhciType'
    <3>1. /\ qh_used' = 0 /\ qtd_used' = 0 /\ failed' = 0
          /\ qh' \in [QHs -> [link : Int, chain : {<<>>} \cup Chains]]
          /\ token' \in [QTDs -> {"zero", "active", "done", "error"}]
      BY <2>1, PoolResetEffect
    <3>2. 0 \in 0 .. MAX_QH /\ 0 \in 0 .. MAX_QTD
      BY BoundsAssumption
    <3>3. head' \in Int
      BY <2>1 DEF HEAD
    <3>. QED
      BY <1>1, <1>3, <1>4, <2>1, <2>2, <3>1, <3>2, <3>3 DEF EhciType
  <2>5. CallerInv' /\ TransferInv' /\ RegisterInv'
    BY <1>2, <1>3, <2>1, <2>2, <2>3 DEF CallerInv, TransferInv, RegisterInv, Stopping, Starting
  <2>6. CountInv'
    BY <2>1, <2>3, PoolResetEffect DEF CountInv, RefusedOnlyAfterFailures
  <2>7. ListInv' /\ AnswerInv'
    BY <2>1, <2>2, <2>3 DEF ListInv, AnswerInv, SuccessIsOwnAnswer, Stopping, Starting
  <2>. QED
    BY <2>4, <2>5, <2>6, <2>7 DEF EhciInv
<1>. QED
  BY <1>5, <1>6

\* The schedule is started, and the initialization returns.
LEMMA InitEndStep ==
    ASSUME EhciInv, InitRun \/ InitStarted \/ InitComplete
    PROVE  EhciInv'
<1>1. /\ EhciType /\ CallerInv /\ CountInv /\ TransferInv /\ RegisterInv
      /\ ~untrusted => ListInv /\ AnswerInv
  BY DEF EhciInv
<1>2. hc \in Registers /\ untrusted \in BOOLEAN
  BY <1>1 DEF EhciType
<1>3. /\ pc \in {"run", "started", "complete"}
      /\ pc = "run" => why \in {"boot", "shell"}
      /\ pc = "started" => why \in {"boot", "shell"}
  BY <1>1 DEF InitRun, InitStarted, InitComplete, CallerInv
<1>4. ~InTransfer
  BY <1>3 DEF InTransfer, Stopping, Starting
<1>5. /\ UNCHANGED <<pos, reply, head, qh, token, qh_used, qtd_used, failed, req, untrusted>>
      /\ old_next' \in Int
  BY <1>1 DEF InitRun, InitStarted, InitComplete, controller, pools, transfer, ghosts, EhciType
<1>6. CASE pc' \in {"complete", "idle"} /\ hc' = hc /\ ok' = ok
  <2>1. ~InTransfer' /\ CallerInv' /\ RegisterInv'
    BY <1>1, <1>6 DEF InTransfer, CallerInv, RegisterInv, Stopping, Starting
  <2>. QED
    BY <1>2, <1>3, <1>4, <1>5, <1>6, <2>1, OutsideTransfer
<1>7. CASE pc = "run" /\ ~hc.HCH /\ ehci_async_start(why)
  <2>1. /\ hc' \in Registers /\ (hc'.ASS <=> hc.ASS) /\ (hc'.HCH <=> hc.HCH)
        /\ (hc'.HCRESET <=> hc.HCRESET) /\ hc'.list = hc.list
        /\ pc' = "start_run" /\ why' = why /\ ok' = ok
    BY <1>2, <1>7, StartEffect
  <2>2. ~InTransfer' /\ CallerInv' /\ RegisterInv'
    BY <1>1, <1>3, <1>7, <2>1 DEF InTransfer, CallerInv, RegisterInv, Stopping, Starting
  <2>. QED
    BY <1>2, <1>3, <1>4, <1>5, <2>1, <2>2, OutsideTransfer
<1>. QED
  BY <1>6, <1>7 DEF InitRun, InitStarted, InitComplete, InitReturn, controller

----------------------------------------------------------------------------
\* ehci_get_device_descriptor and ehci_control_transfer.

\* A call that is refused, and one that has returned.
LEMMA RefuseStep ==
    ASSUME EhciInv, Refuse \/ Returned
    PROVE  EhciInv'
<1>1. /\ EhciType /\ CallerInv /\ CountInv /\ TransferInv /\ RegisterInv
      /\ ~untrusted => ListInv /\ AnswerInv
  BY DEF EhciInv
<1>2. /\ pc \in {"idle", "return"} /\ pc' \in {"idle", "return"}
      /\ UNCHANGED <<hc, pos, reply, head, qh, token, qh_used, qtd_used, failed, req, why,
                     ok, untrusted>>
      /\ pc' = "return" => ret' = [rc |-> -1, data |-> 0, exhausted |-> FALSE]
  BY DEF Refuse, Returned, Return, controller, pools, buffers, ghosts
<1>3. pc' = "return" => ret'.rc # 0 /\ ~ret'.exhausted
  BY <1>2
<1>4. ~InTransfer /\ ~InTransfer' /\ CallerInv' /\ RegisterInv'
  BY <1>1, <1>2 DEF InTransfer, CallerInv, RegisterInv, Stopping, Starting
<1>5. hc' \in Registers /\ untrusted' \in BOOLEAN /\ old_next \in Int
  BY <1>1, <1>2 DEF EhciType
<1>6. old_next' \in Int
  <2>1. old_next' \in {old_next, NOWHERE}
    BY DEF Refuse, Returned
  <2>. QED
    BY <1>5, <2>1 DEF NOWHERE
<1>. QED
  BY <1>2, <1>3, <1>4, <1>5, <1>6, OutsideTransfer

\* Descriptors are taken for a request; an empty pool means that the queue
\* heads went to failed transfers.
LEMMA TakeDescriptorsStep ==
    ASSUME EhciInv, TakeDescriptors
    PROVE  EhciInv'
<1>. DEFINE i == qh_used + 1
            chain == [k \in 1 .. 3 |-> qtd_used + k]
<1>1. /\ EhciType /\ CallerInv /\ CountInv /\ TransferInv /\ RegisterInv
      /\ ~untrusted => ListInv /\ AnswerInv
  BY DEF EhciInv
<1>2. pc = "idle" /\ ~InTransfer /\ ~Linked
  BY DEF TakeDescriptors, InTransfer, Linked, Stopping, Starting
<1>3. /\ hc \in Registers /\ qh_used \in 0 .. MAX_QH /\ qtd_used \in 0 .. MAX_QTD
      /\ req \in Nat /\ failed = qh_used /\ ok \in BOOLEAN
      /\ qh \in [QHs -> [link : Int, chain : {<<>>} \cup Chains]]
      /\ token \in [QTDs -> {"zero", "active", "done", "error"}]
      /\ qh_used < MAX_QH => qtd_used = 3 * qh_used
      /\ MAX_QH \in Nat /\ MAX_QTD \in Nat /\ MAX_QTD >= 3 * MAX_QH
  BY <1>1, <1>2, BoundsAssumption DEF EhciType, CountInv
<1>4. /\ req' = req + 1 /\ setup_buf' = req' /\ data_buf' = 0
      /\ UNCHANGED <<pos, reply, found, head, old_next, untrusted, failed>>
  BY DEF TakeDescriptors, FillBuffers, ghosts
<1>5. qtd_used' \in 0 .. MAX_QTD
  BY <1>3 DEF TakeDescriptors, qtd_alloc
<1>6. CASE i <= MAX_QH
  <2>1. qtd_used + 3 <= MAX_QTD /\ qtd_used = 3 * qh_used /\ i \in QHs
    BY <1>3, <1>6 DEF QHs
  <2>2. /\ qh_used' = i /\ qtd_used' = qtd_used + 3
        /\ qh' = [qh EXCEPT ![i] = [link |-> NOWHERE, chain |-> chain]]
        /\ token' = [d \in QTDs |-> IF d \in qtd_used + 1 .. qtd_used + 3
                                    THEN "active" ELSE token[d]]
        /\ cur' = [qh |-> i, chain |-> chain]
        /\ ehci_async_stop("before") /\ UNCHANGED ret
    <3>1. /\ qh_used' = IF qh_used < MAX_QH THEN i ELSE qh_used
          /\ qtd_used' = qtd_alloc(3)
      BY DEF TakeDescriptors
    <3>2. qh_used' = i /\ qtd_used' = qtd_used + 3
      BY <1>3, <1>6, <2>1, <3>1 DEF qtd_alloc
    <3>3. ~(i > MAX_QH) /\ ~(qtd_used + 3 > MAX_QTD)
      BY <1>3, <1>6, <2>1
    <3>. QED
      BY <3>2, <3>3 DEF TakeDescriptors
  <2>3. chain \in Chains /\ chain[1] = qtd_used + 1
    <3>1. \A k \in 1 .. 3 : qtd_used + k \in QTDs
      BY <1>3, <2>1 DEF QTDs
    <3>. QED
      BY <3>1 DEF Chains
  <2>. HIDE DEF chain
  <2>4. /\ hc' \in Registers /\ ~hc'.ASE
        /\ (hc'.RS <=> hc.RS) /\ (hc'.ASS <=> hc.ASS) /\ (hc'.HCH <=> hc.HCH)
        /\ (hc'.HCRESET <=> hc.HCRESET) /\ hc'.list = hc.list
        /\ pc' \in Stopping /\ why' = "before" /\ ok' \in BOOLEAN
    BY <1>3, <2>2, StopEffect
  <2>5. InTransfer' /\ ~Linked'
    BY <2>4 DEF InTransfer, Linked, Stopping, Starting
  <2>6. /\ qh' \in [QHs -> [link : Int, chain : {<<>>} \cup Chains]]
        /\ qh'[i].chain = chain
    <3>1. [link |-> NOWHERE, chain |-> chain] \in [link : Int, chain : {<<>>} \cup Chains]
      BY <2>3 DEF NOWHERE
    <3>. HIDE DEF i
    <3>. QED
      BY <1>3, <2>1, <2>2, <3>1
  <2>7. /\ token' \in [QTDs -> {"zero", "active", "done", "error"}]
        /\ token'[chain[1]] = "active"
    <3>1. chain[1] \in QTDs /\ chain[1] \in qtd_used + 1 .. qtd_used + 3
      BY <1>3, <2>3 DEF Chains
    <3>2. token'[chain[1]] = "active"
      BY <2>2, <3>1
    <3>3. \A d \in QTDs : token'[d] \in {"zero", "active", "done", "error"}
      BY <1>3, <2>2
    <3>. QED
      BY <2>2, <3>2, <3>3
  <2>8. EhciType'
    BY <1>1, <1>3, <1>4, <1>5, <1>6, <2>2, <2>4, <2>6, <2>7 DEF EhciType
  <2>9. CallerInv' /\ RegisterInv'
    BY <1>1, <2>4 DEF CallerInv, RegisterInv, Stopping, Starting
  <2>10. CountInv'
    BY <1>3, <1>4, <2>1, <2>2, <2>4, <2>5
    DEF CountInv, RefusedOnlyAfterFailures, Stopping
  <2>11. TransferInv'
    BY <1>3, <1>4, <2>2, <2>3, <2>6 DEF TransferInv
  <2>12. ASSUME ~untrusted' PROVE ListInv' /\ AnswerInv'
    <3>1. ListInv
      BY <1>1, <1>4, <2>12
    <3>2. ListInv'
      BY <1>2, <1>4, <2>4, <2>5, <3>1 DEF ListInv, Stopping, Starting
    <3>3. AnswerInv'
      BY <1>4, <2>2, <2>4, <2>7 DEF AnswerInv, SuccessIsOwnAnswer, Stopping
    <3>. QED
      BY <3>2, <3>3
  <2>. QED
    BY <2>8, <2>9, <2>10, <2>11, <2>12 DEF EhciInv
<1>7. CASE ~(i <= MAX_QH)
  <2>1. qh_used = MAX_QH /\ ~(qh_used < MAX_QH)
    BY <1>3, <1>7
  <2>2. /\ qh_used' = qh_used /\ UNCHANGED <<hc, qh, token, why, ok, cur>>
        /\ pc' = "return" /\ ret' = [rc |-> -1, data |-> 0, exhausted |-> TRUE]
    BY <1>7, <2>1 DEF TakeDescriptors, Return
  <2>3. ~InTransfer' /\ ~Linked'
    BY <2>2 DEF InTransfer, Linked, Stopping, Starting
  <2>4. EhciType'
    BY <1>1, <1>3, <1>4, <1>5, <2>2 DEF EhciType
  <2>5. CallerInv' /\ RegisterInv' /\ TransferInv'
    BY <1>1, <2>2, <2>3 DEF CallerInv, RegisterInv, TransferInv, Stopping, Starting
  <2>6. CountInv'
    BY <1>3, <1>4, <2>1, <2>2, <2>3 DEF CountInv, RefusedOnlyAfterFailures
  <2>7. ASSUME ~untrusted' PROVE ListInv' /\ AnswerInv'
    <3>1. ListInv
      BY <1>1, <1>4, <2>7
    <3>2. ListInv'
      BY <1>2, <1>4, <2>2, <2>3, <3>1 DEF ListInv, Stopping, Starting
    <3>3. AnswerInv'
      BY <2>2, <2>3 DEF AnswerInv, SuccessIsOwnAnswer
    <3>. QED
      BY <3>2, <3>3
  <2>. QED
    BY <2>4, <2>5, <2>6, <2>7 DEF EhciInv
<1>. QED
  BY <1>6, <1>7

\* A transfer that fails gives up its queue head for good: the pools are
\* emptied only by one that succeeds and by a reset.
LEMMA FailStep ==
    ASSUME EhciInv, Fail, InTransfer,
           UNCHANGED <<hc, pos, reply, head, qh, token, qh_used, qtd_used, why, ok, old_next,
                       req, untrusted>>,
           ~untrusted => head = HEAD
    PROVE  EhciInv'
<1>1. /\ EhciType /\ CallerInv /\ CountInv /\ TransferInv /\ RegisterInv
      /\ ~untrusted => ListInv /\ AnswerInv
  BY DEF EhciInv
<1>2. /\ pc' = "return" /\ failed' = failed + 1
      /\ ret' = [rc |-> -1, data |-> 0, exhausted |-> FALSE]
  BY DEF Fail, Return
<1>3. ~InTransfer' /\ ~Linked' /\ pc # "reset"
  BY <1>2 DEF InTransfer, Linked, Stopping, Starting
<1>4. EhciType'
  BY <1>1, <1>2 DEF EhciType
<1>5. CallerInv' /\ RegisterInv' /\ TransferInv'
  BY <1>1, <1>2, <1>3 DEF CallerInv, RegisterInv, TransferInv, Stopping, Starting
<1>6. CountInv'
  BY <1>1, <1>2, <1>3 DEF CountInv, RefusedOnlyAfterFailures
<1>7. ASSUME ~untrusted' PROVE ListInv' /\ AnswerInv'
  <2>1. ListInv
    BY <1>1, <1>7
  <2>2. ListInv'
    BY <1>2, <1>3, <1>7, <2>1 DEF ListInv, Stopping, Starting
  <2>3. AnswerInv'
    BY <1>2, <1>3 DEF AnswerInv, SuccessIsOwnAnswer
  <2>. QED
    BY <2>2, <2>3
<1>. QED
  BY <1>4, <1>5, <1>6, <1>7 DEF EhciInv

\* The new queue head is linked to what follows the anchor, then the anchor to
\* it: the list is closed at every moment.
LEMMA LinkQhStep ==
    ASSUME EhciInv, LinkQh
    PROVE  EhciInv'
<1>. USE DEF controller, buffers
<1>1. /\ EhciType /\ CallerInv /\ CountInv /\ TransferInv /\ RegisterInv
      /\ ~untrusted => ListInv /\ AnswerInv
  BY DEF EhciInv
<1>2. pc = "stopped" /\ why = "before" /\ InTransfer /\ ~Linked
  BY DEF LinkQh, InTransfer, Linked, Stopping, Starting
<1>3. CASE ~ok
  <2>1. /\ Fail
        /\ UNCHANGED <<hc, pos, reply, head, qh, token, qh_used, qtd_used, why, ok, old_next,
                       req, untrusted>>
    BY <1>3 DEF LinkQh
  <2>2. ~untrusted => head = HEAD
    BY <1>1, <1>2 DEF ListInv
  <2>. QED
    BY <1>2, <2>1, <2>2, FailStep
<1>4. CASE ok
  <2>1. /\ old_next' = head /\ qh' = [qh EXCEPT ![cur.qh].link = head] /\ pc' = "link"
        /\ UNCHANGED <<hc, pos, reply, head, token, qh_used, qtd_used, setup_buf, data_buf,
                       why, ok, cur, req, ret, untrusted, failed>>
    BY <1>4 DEF LinkQh
  <2>2. InTransfer' /\ ~Linked'
    BY <2>1 DEF InTransfer, Linked, Stopping, Starting
  <2>3. cur.qh \in QHs /\ cur.qh = qh_used
    BY <1>1, <1>2 DEF TransferInv, CountInv, EhciType, QHs
  <2>4. ASSUME head \in Int
        PROVE  qh' \in [QHs -> [link : Int, chain : {<<>>} \cup Chains]]
    BY <1>1, <2>1, <2>3, <2>4 DEF EhciType
  <2>5. qh'[cur.qh].chain = qh[cur.qh].chain /\ qh'[cur.qh].link = head
    BY <1>1, <2>1, <2>3 DEF EhciType
  <2>6. head \in Int
    BY <1>1 DEF EhciType
  <2>7. EhciType'
    BY <1>1, <2>1, <2>4, <2>6 DEF EhciType
  <2>8. CallerInv' /\ RegisterInv' /\ TransferInv'
    BY <1>1, <1>2, <2>1, <2>2, <2>5
    DEF CallerInv, RegisterInv, TransferInv, Stopping, Starting
  <2>9. CountInv'
    BY <1>1, <1>2, <2>1, <2>2 DEF CountInv, RefusedOnlyAfterFailures
  <2>10. ASSUME ~untrusted' PROVE ListInv' /\ AnswerInv'
    <3>1. ListInv /\ AnswerInv
      BY <1>1, <2>1, <2>10
    <3>2. ListInv'
      BY <1>2, <2>1, <2>2, <2>5, <3>1 DEF ListInv, Stopping, Starting
    <3>3. AnswerInv'
      BY <1>2, <2>1, <2>2, <3>1 DEF AnswerInv, SuccessIsOwnAnswer
    <3>. QED
      BY <3>2, <3>3
  <2>. QED
    BY <2>7, <2>8, <2>9, <2>10 DEF EhciInv
<1>. QED
  BY <1>3, <1>4

\* Steps of a transfer that start or stop the schedule and change no memory but
\* the anchor's link.
LEMMA InsideTransfer ==
    ASSUME EhciInv, InTransfer, InTransfer', pc' # "link", pc' # "return",
           UNCHANGED <<pos, reply, qh, token, qh_used, qtd_used, setup_buf, data_buf, cur,
                       old_next, req, untrusted, failed>>,
           hc' \in Registers, ok' \in BOOLEAN, CallerInv', head' \in Int,
           hc'.ASS <=> hc.ASS, hc'.HCH <=> hc.HCH,
           hc'.HCRESET <=> hc.HCRESET, hc'.list = hc.list,
           ~untrusted =>
             /\ Linked' => head' = cur.qh /\ (Linked \/ pc = "link")
             /\ ~Linked' => head' = HEAD
             /\ head' = head \/ pos = HEAD \/ ~hc.ASS
             /\ pc' = "poll" \/ (pc' \in Starting /\ why' = "xfer") => hc'.ASE
             /\ pc' \in Stopping /\ why' \in {"retry", "after"} => ~hc'.ASE
             /\ pc' = "stopped" /\ why' \in {"retry", "after"} => ok' /\ ~hc'.ASS
    PROVE  EhciInv'
<1>1. /\ EhciType /\ CallerInv /\ CountInv /\ TransferInv /\ RegisterInv
      /\ ~untrusted => ListInv /\ AnswerInv
  BY DEF EhciInv
<1>2. pc # "reset" /\ pc' \notin {"reset", "halt"}
  BY DEF InTransfer, Stopping, Starting
<1>3. EhciType'
  BY <1>1 DEF EhciType
<1>4. RegisterInv' /\ TransferInv'
  BY <1>1, <1>2 DEF RegisterInv, TransferInv
<1>5. CountInv'
  BY <1>1 DEF CountInv, RefusedOnlyAfterFailures
<1>6. ASSUME ~untrusted' PROVE ListInv' /\ AnswerInv'
  <2>1. ListInv /\ AnswerInv
    BY <1>1, <1>6
  <2>2. hc'.ASS => pos' \in {HEAD, head'}
    BY <1>6, <2>1 DEF ListInv
  <2>3. Linked' => old_next' = HEAD /\ qh'[cur'.qh].link = HEAD
    BY <1>6, <2>1 DEF ListInv
  <2>4. ListInv'
    BY <1>2, <1>6, <2>1, <2>2, <2>3 DEF ListInv
  <2>5. AnswerInv'
    BY <2>1 DEF AnswerInv, SuccessIsOwnAnswer
  <2>. QED
    BY <2>4, <2>5
<1>. QED
  BY <1>3, <1>4, <1>5, <1>6 DEF EhciInv

\* The anchor is linked to the queue head and the schedule is started.
LEMMA LinkHeadStep ==
    ASSUME EhciInv, LinkHead
    PROVE  EhciInv'
<1>1. /\ EhciType /\ CallerInv /\ CountInv /\ TransferInv /\ RegisterInv
      /\ ~untrusted => ListInv /\ AnswerInv
  BY DEF EhciInv
<1>2. /\ pc = "link" /\ head' = cur.qh /\ ehci_async_start("xfer")
      /\ UNCHANGED <<pos, reply, qh, token, qh_used, qtd_used, setup_buf, data_buf, cur,
                     old_next, req, untrusted, failed>>
  BY DEF LinkHead, pools, transfer, ghosts
<1>3. hc \in Registers /\ ok \in BOOLEAN
  BY <1>1 DEF EhciType
<1>4. /\ hc' \in Registers /\ hc'.ASE
      /\ (hc'.ASS <=> hc.ASS) /\ (hc'.HCH <=> hc.HCH)
      /\ (hc'.HCRESET <=> hc.HCRESET) /\ hc'.list = hc.list
      /\ pc' = "start_run" /\ why' = "xfer" /\ ok' = ok
  BY <1>2, <1>3, StartEffect
<1>5. InTransfer /\ InTransfer' /\ ~Linked /\ Linked'
  BY <1>2, <1>4 DEF InTransfer, Linked, Stopping, Starting
<1>6. CallerInv'
  BY <1>4 DEF CallerInv, Stopping, Starting
<1>7. ~untrusted => pos = HEAD \/ ~hc.ASS
  BY <1>1, <1>5 DEF ListInv
<1>8. head' \in Int
  BY <1>1, <1>2, <1>5 DEF TransferInv, EhciType
<1>. QED
  BY <1>2, <1>3, <1>4, <1>5, <1>6, <1>7, <1>8, InsideTransfer DEF Stopping

\* The schedule is polled, or stopped again when it did not start.
LEMMA XferStartedStep ==
    ASSUME EhciInv, XferStarted \/ PollTokens
    PROVE  EhciInv'
<1>1. /\ EhciType /\ CallerInv /\ CountInv /\ TransferInv /\ RegisterInv
      /\ ~untrusted => ListInv /\ AnswerInv
  BY DEF EhciInv
<1>2. /\ pc = "poll" \/ (pc = "started" /\ why = "xfer")
      /\ UNCHANGED <<pos, reply, head, qh, token, qh_used, qtd_used, setup_buf, data_buf, cur,
                     old_next, req, untrusted, failed>>
  BY DEF XferStarted, PollTokens, pools, transfer, ghosts
<1>3. hc \in Registers /\ ok \in BOOLEAN /\ head' \in Int
  BY <1>1, <1>2 DEF EhciType
<1>4. InTransfer /\ Linked
  BY <1>2 DEF InTransfer, Linked, Stopping, Starting
<1>5. ~untrusted => head = cur.qh /\ hc.ASE
  BY <1>1, <1>2, <1>4 DEF ListInv, Starting
<1>6. CASE pc' = "poll" /\ hc' = hc /\ why' = why /\ ok' = ok
  <2>1. InTransfer' /\ Linked' /\ CallerInv'
    BY <1>6 DEF InTransfer, Linked, CallerInv, Stopping, Starting
  <2>. QED
    BY <1>2, <1>3, <1>4, <1>5, <1>6, <2>1, InsideTransfer DEF Stopping
<1>7. ASSUME NEW caller \in {"retry", "after"}, ehci_async_stop(caller)
      PROVE  EhciInv'
  <2>1. /\ hc' \in Registers /\ ~hc'.ASE
        /\ (hc'.ASS <=> hc.ASS) /\ (hc'.HCH <=> hc.HCH)
        /\ (hc'.HCRESET <=> hc.HCRESET) /\ hc'.list = hc.list
        /\ pc' \in Stopping /\ why' = caller /\ ok' \in BOOLEAN
        /\ hc.ASE => pc' = "stop_async"
    BY <1>3, <1>7, StopEffect
  <2>2. InTransfer' /\ Linked' /\ CallerInv' /\ pc' # "poll" /\ pc' \notin Starting
    BY <2>1 DEF InTransfer, Linked, CallerInv, Stopping, Starting
  <2>3. pc' # "link" /\ pc' # "return"
    BY <2>1 DEF Stopping
  <2>. QED
    BY <1>2, <1>3, <1>4, <1>5, <2>1, <2>2, <2>3, InsideTransfer
<1>. QED
  BY <1>6, <1>7 DEF XferStarted, PollTokens

\* The queue head is taken out once the schedule is known to be off.
LEMMA UnlinkStep ==
    ASSUME EhciInv, Retry \/ XferStopped
    PROVE  EhciInv'
<1>1. /\ EhciType /\ CallerInv /\ CountInv /\ TransferInv /\ RegisterInv
      /\ ~untrusted => ListInv /\ AnswerInv
  BY DEF EhciInv
<1>2. /\ pc = "stopped" /\ why \in {"retry", "after"}
      /\ UNCHANGED <<pos, reply, qh, token, qh_used, qtd_used, setup_buf, data_buf, cur,
                     old_next, req, untrusted>>
  BY DEF Retry, XferStopped, pools, transfer, buffers, ghosts
<1>3. hc \in Registers /\ ok \in BOOLEAN /\ old_next \in Int
  BY <1>1 DEF EhciType
<1>4. InTransfer /\ Linked
  BY <1>2 DEF InTransfer, Linked, Stopping, Starting
<1>5. ~untrusted => old_next = HEAD /\ ok /\ ~hc.ASS
  BY <1>1, <1>2, <1>4 DEF ListInv
<1>6. ASSUME NEW caller \in {"giveup", "done", "fail"}, ehci_async_start(caller),
             head' = old_next, failed' = failed
      PROVE  EhciInv'
  <2>1. /\ hc' \in Registers
        /\ (hc'.ASS <=> hc.ASS) /\ (hc'.HCH <=> hc.HCH)
        /\ (hc'.HCRESET <=> hc.HCRESET) /\ hc'.list = hc.list
        /\ pc' = "start_run" /\ why' = caller /\ ok' = ok
    BY <1>3, <1>6, StartEffect
  <2>2. InTransfer' /\ ~Linked' /\ CallerInv'
    BY <2>1 DEF InTransfer, Linked, CallerInv, Stopping, Starting
  <2>. QED
    BY <1>2, <1>3, <1>4, <1>5, <1>6, <2>1, <2>2, InsideTransfer DEF Stopping
<1>7. CASE ~ok /\ Fail /\ UNCHANGED <<hc, why, ok, head>>
  BY <1>2, <1>4, <1>5, <1>7, FailStep
<1>. QED
  BY <1>6, <1>7 DEF Retry, XferStopped, ghosts

\* The answer is copied out and the pools are emptied, or the transfer failed.
LEMMA XferReturnStep ==
    ASSUME EhciInv, XferReturn
    PROVE  EhciInv'
<1>1. /\ EhciType /\ CallerInv /\ CountInv /\ TransferInv /\ RegisterInv
      /\ ~untrusted => ListInv /\ AnswerInv
  BY DEF EhciInv
<1>2. /\ pc = "started" /\ why \in {"giveup", "fail", "done"}
      /\ UNCHANGED <<hc, pos, reply, head, setup_buf, data_buf, why, ok, cur, old_next, req,
                     untrusted>>
  BY DEF XferReturn, controller, buffers
<1>3. InTransfer /\ ~Linked
  BY <1>2 DEF InTransfer, Linked, Stopping, Starting
<1>4. ~untrusted => head = HEAD
  BY <1>1, <1>3 DEF ListInv
<1>5. CASE Fail /\ UNCHANGED pools
  BY <1>2, <1>3, <1>4, <1>5, FailStep DEF pools
<1>6. CASE Return(IF data_buf = 0 THEN -1 ELSE 0, data_buf, FALSE) /\ ehci_pool_reset
  <2>1. /\ pc' = "return" /\ ret'.rc = (IF data_buf = 0 THEN -1 ELSE 0)
        /\ ret'.data = data_buf /\ ret'.exhausted = FALSE
    BY <1>6 DEF Return
  <2>2. /\ qh_used' = 0 /\ qtd_used' = 0 /\ failed' = 0
        /\ qh' \in [QHs -> [link : Int, chain : {<<>>} \cup Chains]]
        /\ token' \in [QTDs -> {"zero", "active", "done", "error"}]
    BY <1>6, PoolResetEffect
  <2>3. ~InTransfer' /\ ~Linked'
    BY <2>1 DEF InTransfer, Linked, Stopping, Starting
  <2>4. EhciType'
    <3>1. 0 \in 0 .. MAX_QH /\ 0 \in 0 .. MAX_QTD
      BY BoundsAssumption
    <3>. QED
      BY <1>1, <1>2, <2>2, <3>1 DEF EhciType
  <2>5. CallerInv' /\ RegisterInv' /\ TransferInv'
    BY <1>1, <1>2, <2>1, <2>3 DEF CallerInv, RegisterInv, TransferInv, Stopping, Starting
  <2>6. CountInv'
    BY <2>1, <2>2, <2>3 DEF CountInv, RefusedOnlyAfterFailures
  <2>7. ASSUME ~untrusted' PROVE ListInv' /\ AnswerInv'
    <3>1. ListInv /\ AnswerInv
      BY <1>1, <1>2, <2>7
    <3>2. ListInv'
      BY <1>2, <1>3, <2>1, <2>3, <3>1 DEF ListInv, Stopping, Starting
    <3>3. data_buf \in {0, req} /\ req # 0 /\ req' = req
      BY <1>1, <1>2, <1>3, <3>1 DEF AnswerInv, TransferInv, EhciType
    <3>4. SuccessIsOwnAnswer'
      BY <2>1, <3>3 DEF SuccessIsOwnAnswer
    <3>. QED
      BY <2>3, <3>2, <3>4 DEF AnswerInv
  <2>. QED
    BY <2>4, <2>5, <2>6, <2>7 DEF EhciInv
<1>. QED
  BY <1>5, <1>6 DEF XferReturn

----------------------------------------------------------------------------
\* The theorems.

\* Every step of the driver and of the controller preserves the invariant.
LEMMA EhciStep == EhciInv /\ [Next]_vars => EhciInv'
<1>. SUFFICES ASSUME EhciInv, [Next]_vars PROVE EhciInv'
  OBVIOUS
<1>1. CASE UNCHANGED vars
  BY <1>1 DEF vars, EhciInv, EhciType, CallerInv, CountInv, TransferInv, RegisterInv,
     ListInv, AnswerInv, InTransfer, Linked, RefusedOnlyAfterFailures, SuccessIsOwnAnswer
<1>2. CASE Controller
  BY <1>2, HcMovesStep, HcExecuteStep DEF Controller, HcMoves
<1>3. CASE Running
  BY <1>3, InitStopStep, InitHaltedStep, InitResetStep, InitEndStep, WaitOffStep,
     WaitOnStep, LinkQhStep, LinkHeadStep, XferStartedStep, UnlinkStep, XferReturnStep,
     RefuseStep
  DEF Running
<1>4. CASE ehci_init_controller \/ Refuse \/ TakeDescriptors
  BY <1>4, InitStopStep, RefuseStep, TakeDescriptorsStep
<1>. QED
  BY <1>1, <1>2, <1>3, <1>4 DEF Next

\* The inductive invariant of the driver and the controller.
THEOREM EhciInvariant == Spec => []EhciInv
<1>. QED
  BY EhciInit, EhciStep, PTL DEF Spec

\* As long as the waits that guard the list were answered, the controller is on
\* the anchor or on the queue head of the transfer under way, never on one that
\* was unlinked or given back to the pool.
THEOREM ScheduleStaysIntact == Spec => []ScheduleIntact
<1>1. EhciInv => ScheduleIntact
  <2>. SUFFICES ASSUME EhciInv, ~untrusted
       PROVE  /\ \/ head = HEAD
                 \/ head = cur.qh /\ head \in 1 .. qh_used /\ qh[head].link = HEAD
              /\ hc.ASS => pos \in {HEAD, head}
    BY DEF ScheduleIntact
  <2>1. ListInv /\ TransferInv /\ CountInv /\ EhciType
    BY DEF EhciInv
  <2>2. CASE ~Linked
    BY <2>1, <2>2 DEF ListInv
  <2>3. CASE Linked
    <3>1. InTransfer
      BY <2>3 DEF Linked, InTransfer
    <3>2. cur.qh = qh_used /\ qh_used \in 1 .. qh_used
      BY <2>1, <3>1 DEF TransferInv, CountInv, EhciType
    <3>. QED
      BY <2>1, <2>3, <3>2 DEF ListInv
  <2>. QED
    BY <2>2, <2>3
<1>. QED
  BY <1>1, EhciInvariant, PTL

\* A descriptor that is returned with success is the answer to this request.
THEOREM SuccessIsAnswered == Spec => []SuccessIsOwnAnswer
<1>1. EhciInv => SuccessIsOwnAnswer
  BY DEF EhciInv, AnswerInv, SuccessIsOwnAnswer
<1>. QED
  BY <1>1, EhciInvariant, PTL

\* The pools run dry only when failed transfers used every queue head.
THEOREM ExhaustedByFailures == Spec => []RefusedOnlyAfterFailures
<1>1. EhciInv => RefusedOnlyAfterFailures
  BY DEF EhciInv, CountInv
<1>. QED
  BY <1>1, EhciInvariant, PTL

(***************************************************************************)
(* The ports.                                                              *)
(***************************************************************************)
PortSteps == {"idle", "power", "clear", "assert", "asserted", "hold", "released",
          "enabled", "find", "check", "transfer"}

PortType ==
    /\ switches \in BOOLEAN
    /\ port \in [Ports -> Port] /\ devices \in 0 .. MaxDevices
    /\ port_pc \in PortSteps /\ p \in Ports /\ portsc \in Port

\* Only a high-speed device that went through a reset is enabled: the port
\* loses PED when the device leaves.
EnabledWasReset ==
    \A x \in Ports : port[x].PED => port[x].device \in wasReset \cap HighSpeed

\* From the write that asserts the reset on, which clears PED, the port of the
\* call is enabled only by the end of this very reset.
EnabledIsFresh ==
    port_pc \in {"asserted", "hold", "released", "enabled"} =>
        (port[p].PED => port[p].device \in fresh)

\* Once released, the reset of the port does not come back.
ResetStaysOver ==
    /\ port_pc = "released" => port[p].PR \in {"off", "falling"}
    /\ port_pc = "enabled" => port[p].PR = "off"

PortInv ==
    /\ PortType /\ EnabledWasReset /\ EnabledIsFresh /\ ResetStaysOver
    /\ TransferTargetWasReset

ReportTrue ==
    port_pc = "enabled" /\ port_pc' = "idle" =>
        /\ port_ret' = 0 => portsc'.device \in fresh \cap HighSpeed
        /\ port_ret' = -2 => CCS(portsc') /\ ~PR(portsc')
----------------------------------------------------------------------------
\* A device number is not 0, so an empty port has no high-speed device.
LEMMA Numbers ==
    /\ Ports \subseteq Nat /\ 0 \in Ports /\ MaxDevices \in Nat
    /\ 0 \notin HighSpeed /\ HighSpeed \subseteq Devices
BY PortsAssumption DEF Ports, Devices

\* The invariant holds behind ehci_init_controller.
LEMMA PortInitInv == PortInit => PortInv
<1>. SUFFICES ASSUME PortInit PROVE PortInv  OBVIOUS
<1>1. Empty \in Port /\ ~Empty.PED
  BY DEF Empty, Port
<1>2. PortType
  BY <1>1, Numbers DEF PortInit, PortType, PortSteps
<1>3. EnabledWasReset
  BY <1>1 DEF PortInit, EnabledWasReset
<1>. QED
  BY <1>2, <1>3
     DEF PortInit, PortInv, EnabledIsFresh, ResetStaysOver, TransferTargetWasReset

\* A step of the hardware, on the port of the call or on another one.
LEMMA HardwareInv ==
    ASSUME PortInv, NEW x \in Ports, Hardware(x) PROVE PortInv'
<1>. USE Numbers DEF PortInv, PortType
<1>. DEFINE old == port[x]
<1>0. old \in Port /\ port[p] \in Port  OBVIOUS
<1>1. CASE Plug(x)
  <2>. DEFINE new == [old EXCEPT !.device = devices + 1, !.changed = TRUE]
  <2>1. port' = [port EXCEPT ![x] = new] /\ UNCHANGED <<switches, portDriver, portGhosts>>
    BY <1>1 DEF Plug
  <2>2. devices' \in 0 .. MaxDevices /\ devices + 1 \in Devices
    BY <1>1 DEF Plug, Devices
  <2>3. new \in Port /\ new.PED = old.PED /\ new.PR = old.PR
    BY <1>0, <2>2 DEF Port
  <2>4. ~old.PED
    BY <1>1 DEF Plug, EnabledWasReset
  <2>. QED
    BY <2>1, <2>2, <2>3, <2>4
       DEF portDriver, portGhosts, EnabledWasReset, EnabledIsFresh, ResetStaysOver,
           TransferTargetWasReset
<1>2. CASE Unplug(x)
  <2>. DEFINE new == [old EXCEPT !.device = 0, !.PED = FALSE, !.changed = TRUE]
  <2>1. port' = [port EXCEPT ![x] = new] /\ UNCHANGED <<switches, devices, portDriver, portGhosts>>
    BY <1>2 DEF Unplug
  <2>2. new \in Port /\ ~new.PED /\ new.PR = old.PR
    BY <1>0 DEF Port
  <2>. QED
    BY <2>1, <2>2
       DEF portDriver, portGhosts, EnabledWasReset, EnabledIsFresh, ResetStaysOver,
           TransferTargetWasReset
<1>3. CASE ResetBegins(x)
  <2>. DEFINE new == [old EXCEPT !.PR = "on"]
  <2>1. port' = [port EXCEPT ![x] = new] /\ UNCHANGED <<switches, devices, portDriver, portGhosts>>
    BY <1>3 DEF ResetBegins
  <2>2. new \in Port /\ new.PED = old.PED /\ new.device = old.device
    BY <1>0 DEF Port
  <2>3. x = p => port_pc \notin {"released", "enabled"}
    BY <1>3 DEF ResetBegins, ResetStaysOver
  <2>. QED
    BY <2>1, <2>2, <2>3
       DEF portDriver, portGhosts, EnabledWasReset, EnabledIsFresh, ResetStaysOver,
           TransferTargetWasReset
<1>4. CASE ResetEnds(x)
  <2>. DEFINE d == old.device
              new == [old EXCEPT !.PR = "off", !.PED = d \in HighSpeed]
  <2>1. /\ port' = [port EXCEPT ![x] = new] /\ UNCHANGED <<switches, devices, portDriver>>
        /\ wasReset' = wasReset \cup ({d} \ {0}) /\ fresh' = fresh \cup ({d} \ {0})
    BY <1>4 DEF ResetEnds
  <2>2. /\ new \in Port /\ new.device = d /\ new.PR = "off"
        /\ new.PED => d \in HighSpeed
    <3>. DEFINE e == d \in HighSpeed
    <3>1. e \in BOOLEAN  OBVIOUS
    <3>. HIDE DEF e
    <3>2. /\ [old EXCEPT !.PR = "off", !.PED = e] \in Port
          /\ [old EXCEPT !.PR = "off", !.PED = e].device = old.device
          /\ [old EXCEPT !.PR = "off", !.PED = e].PR = "off"
          /\ [old EXCEPT !.PR = "off", !.PED = e].PED = e
      BY <1>0, <3>1 DEF Port
    <3>. QED  BY <3>2, Zenon DEF e
  <2>3. new.PED => d \in wasReset' \cap fresh'
    BY <2>1, <2>2
  <2>4. EnabledWasReset'
    BY <2>1, <2>2, <2>3 DEF EnabledWasReset
  <2>5. EnabledIsFresh'
    BY <2>1, <2>2, <2>3 DEF portDriver, EnabledIsFresh
  <2>6. PortType'
    BY <2>1, <2>2 DEF portDriver
  <2>. QED
    BY <2>1, <2>2, <2>4, <2>5, <2>6
       DEF portDriver, ResetStaysOver, TransferTargetWasReset
<1>. QED  BY <1>1, <1>2, <1>3, <1>4 DEF Hardware

\* Any write of PORTSC never sets PED, never moves the device, and one without
\* PR leaves no reset that is still to begin: what is known of the enabled
\* ports survives it.
LEMMA PortWriteInv ==
    ASSUME PortInv, NEW a \in BOOLEAN, NEW b \in BOOLEAN, NEW c \in BOOLEAN,
           NEW d \in BOOLEAN,
           port' = [port EXCEPT ![p] = Write(@, a, b, c, d)],
           wasReset' = wasReset, p' = p
    PROVE  /\ port' \in [Ports -> Port] /\ EnabledWasReset'
           /\ port'[p].device = port[p].device
           /\ port'[p].PED => port[p].PED /\ ~b
           /\ ~b => port'[p].PR \in {"off", "falling"}
<1>. USE DEF PortInv, PortType
<1>. DEFINE new == Write(port[p], a, b, c, d)
<1>1. /\ new \in Port /\ new.device = port[p].device
      /\ new.PED => port[p].PED /\ ~b
      /\ ~b => new.PR \in {"off", "falling"}
  <2>1. port[p] \in Port /\ switches \in BOOLEAN  OBVIOUS
  <2>. QED  BY ONLY <2>1, a \in BOOLEAN, b \in BOOLEAN, c \in BOOLEAN, d \in BOOLEAN
            DEF Write, Port
<1>2. port' = [port EXCEPT ![p] = new]  OBVIOUS
<1>. HIDE DEF new
<1>. QED  BY <1>1, <1>2 DEF EnabledWasReset

\* Each step keeps the invariant.
LEMMA PortNextInv == PortInv /\ [PortNext]_portVars => PortInv'
<1>. SUFFICES ASSUME PortInv, [PortNext]_portVars PROVE PortInv'  OBVIOUS
<1>. USE Numbers DEF PortInv, PortType, PortSteps
<1>0. port[p] \in Port /\ portsc \in Port /\ \A x \in Ports : port[x] \in Port
  OBVIOUS
<1>flags. /\ port[p].PED \in BOOLEAN /\ port[p].PP \in BOOLEAN
          /\ portsc.PED \in BOOLEAN
  BY <1>0 DEF Port
<1>1. ASSUME NEW x \in Ports, Hardware(x) PROVE PortInv'
  BY <1>1, HardwareInv
<1>2. ASSUME NEW x \in Ports, ehci_reset_port(x) PROVE PortInv'
  BY <1>2
     DEF ehci_reset_port, Continue, PortReturn, EnabledWasReset, EnabledIsFresh,
         ResetStaysOver, TransferTargetWasReset
<1>3. CASE NoSuchPort
  BY <1>3
     DEF NoSuchPort, EnabledWasReset, EnabledIsFresh, ResetStaysOver,
         TransferTargetWasReset
<1>4. CASE PowerOn
  <2>1. port' \in [Ports -> Port] /\ EnabledWasReset'
    <3>1. CASE port' = port
      BY <1>4, <3>1 DEF PowerOn, portGhosts, EnabledWasReset
    <3>2. CASE port' = [port EXCEPT ![p] = Write(@, portsc.PED, FALSE, TRUE, FALSE)]
      BY <1>4, <3>2, <1>flags, PortWriteInv DEF PowerOn, portGhosts
    <3>. QED  BY <1>4, <3>1, <3>2 DEF PowerOn
  <2>2. port_pc' \in {"clear", "idle"} /\ p' = p /\ portsc' = port'[p] /\ UNCHANGED <<switches, devices>>
    BY <1>4 DEF PowerOn, Continue, PortReturn
  <2>. QED
    BY <2>1, <2>2 DEF EnabledIsFresh, ResetStaysOver, TransferTargetWasReset
<1>5. CASE ehci_clear_port_changes
  <2>1. port' \in [Ports -> Port] /\ EnabledWasReset'
    <3>1. CASE port' = port
      BY <1>5, <3>1 DEF ehci_clear_port_changes, portGhosts, EnabledWasReset
    <3>2. CASE port' = [port EXCEPT ![p] = Write(@, FALSE, FALSE, FALSE, TRUE)]
      BY <1>5, <3>2, PortWriteInv DEF ehci_clear_port_changes, portGhosts
    <3>. QED  BY <1>5, <3>1, <3>2 DEF ehci_clear_port_changes
  <2>2. port_pc' = "assert" /\ UNCHANGED <<p, portsc, switches, devices>>
    BY <1>5 DEF ehci_clear_port_changes, Continue
  <2>. QED
    BY <2>1, <2>2 DEF EnabledIsFresh, ResetStaysOver, TransferTargetWasReset
<1>6. CASE AssertReset
  <2>1. port_pc' = "asserted" /\ UNCHANGED <<p, portsc, switches, devices, wasReset, fresh>>
    BY <1>6 DEF AssertReset, Continue, portGhosts
  <2>2. port' = [port EXCEPT ![p] = Write(@, port[p].PED, TRUE, port[p].PP, FALSE)]
    BY <1>6 DEF AssertReset
  <2>3. port' \in [Ports -> Port] /\ EnabledWasReset' /\ ~port'[p].PED
    BY <2>1, <2>2, <1>flags, PortWriteInv
  <2>. QED
    BY <2>1, <2>3 DEF EnabledIsFresh, ResetStaysOver, TransferTargetWasReset
<1>7. CASE WaitAsserted
  BY <1>7
     DEF WaitAsserted, Continue, PortReturn, portGhosts, EnabledWasReset, EnabledIsFresh,
         ResetStaysOver, TransferTargetWasReset
<1>8. CASE ReleaseReset
  <2>1. /\ port_pc = "hold" /\ port_pc' = "released"
        /\ UNCHANGED <<p, portsc, switches, devices, wasReset, fresh>>
    BY <1>8 DEF ReleaseReset, Continue, portGhosts
  <2>2. port' = [port EXCEPT ![p] = Write(@, port[p].PED, FALSE, port[p].PP, FALSE)]
    BY <1>8 DEF ReleaseReset
  <2>3. /\ port' \in [Ports -> Port] /\ EnabledWasReset'
        /\ port'[p].device = port[p].device
        /\ port'[p].PED => port[p].PED
        /\ port'[p].PR \in {"off", "falling"}
    BY <2>1, <2>2, <1>flags, PortWriteInv
  <2>. QED
    BY <2>1, <2>3 DEF EnabledIsFresh, ResetStaysOver, TransferTargetWasReset
<1>9. CASE WaitReleased
  BY <1>0, <1>9
     DEF WaitReleased, PR, Continue, PortReturn, portGhosts, EnabledWasReset, EnabledIsFresh,
         ResetStaysOver, TransferTargetWasReset
<1>10. CASE WaitEnabled
  BY <1>0, <1>10
     DEF WaitEnabled, PortReturn, portGhosts, EnabledWasReset, EnabledIsFresh,
         ResetStaysOver, TransferTargetWasReset
<1>11. CASE ehci_control_transfer
  BY <1>11
     DEF ehci_control_transfer, Continue, EnabledWasReset, EnabledIsFresh,
         ResetStaysOver, TransferTargetWasReset
<1>12. CASE ehci_find_device_port
  BY <1>12
     DEF ehci_find_device_port, Continue, PortReturn, portGhosts, EnabledWasReset,
         EnabledIsFresh, ResetStaysOver, TransferTargetWasReset
<1>13. CASE CheckEnabled
  BY <1>0, <1>13
     DEF CheckEnabled, Continue, PortReturn, portGhosts, EnabledWasReset, EnabledIsFresh,
         ResetStaysOver, TransferTargetWasReset
<1>14. CASE Transfer
  BY <1>14
     DEF Transfer, PortReturn, portGhosts, EnabledWasReset, EnabledIsFresh,
         ResetStaysOver, TransferTargetWasReset
<1>15. CASE UNCHANGED portVars
  BY <1>15
     DEF portVars, EnabledWasReset, EnabledIsFresh, ResetStaysOver, TransferTargetWasReset
<1>. QED
  BY <1>1, <1>2, <1>3, <1>4, <1>5, <1>6, <1>7, <1>8, <1>9, <1>10, <1>11, <1>12,
     <1>13, <1>14, <1>15 DEF PortNext, Reset

\* What a step may report.
LEMMA PortNextReport == PortInv /\ [PortNext]_portVars => [ReportTrue]_portVars
<1>. SUFFICES ASSUME PortInv, PortNext, port_pc = "enabled", port_pc' = "idle" PROVE ReportTrue
  BY DEF portVars, ReportTrue
<1>1. WaitEnabled
  BY DEF PortNext, Reset, Hardware, Plug, Unplug, ResetBegins, ResetEnds, portDriver,
         ehci_reset_port, NoSuchPort, PowerOn, ehci_clear_port_changes, AssertReset,
         WaitAsserted, ReleaseReset, WaitReleased, ehci_control_transfer,
         ehci_find_device_port, CheckEnabled, Transfer
<1>2. /\ portsc' = port[p] /\ port_ret' = Result(port[p]) /\ p \in Ports
  BY <1>1 DEF WaitEnabled, PortReturn, PortInv, PortType
<1>3. port_ret' = 0 => portsc'.device \in fresh \cap HighSpeed
  BY <1>2 DEF Result, PortInv, EnabledIsFresh, EnabledWasReset
<1>4. port_ret' = -2 => CCS(portsc') /\ ~PR(portsc')
  BY <1>2 DEF Result, PR, PortInv, ResetStaysOver
<1>. QED  BY <1>3, <1>4 DEF ReportTrue

----------------------------------------------------------------------------
\* Only devices that went through a reset are enabled, during a reset call
\* only those that went through this one, whatever is plugged and unplugged.
THEOREM PortInvariant == PortSpec => []PortInv
BY PortInitInv, PortNextInv, PTL DEF PortSpec

\* ehci_control_transfer only starts a transfer to a device that was reset
\* since it was plugged in.
THEOREM TransferAfterReset == PortSpec => []TransferTargetWasReset
<1>. PortInv => TransferTargetWasReset  BY DEF PortInv
<1>. QED  BY PortInvariant, PTL

\* ehci_reset_port_checked reports success only for a high-speed device that
\* went through a reset during the call, and "not high-speed" only for a
\* connected port whose reset is over.
THEOREM ReportsTrue == PortSpec => ResetReportTrue
<1>1. ResetReportTrue <=> [][ReportTrue]_portVars
  BY PTL DEF ResetReportTrue, ReportTrue
<1>. QED  BY <1>1, PortInvariant, PortNextReport, PTL DEF PortSpec

(***************************************************************************)
(* The PCI scan, and ehci_init up to the mapping of the registers.         *)
(***************************************************************************)
Loops == [bus : Buses, dev : 0 .. (LastDev + 1), func : 0 .. LastFunc, root : BOOLEAN]
Entries == [at : Addresses, kind : {"none", "other", "bridge", "ehci"}]

PciType ==
    /\ conf \in Machines /\ bus \in 0 .. LastFallback
    /\ g_devices \in Seq(Entries) /\ Len(g_devices) <= PCI_MAX_DEVICES
    /\ stack \in Seq(Loops)
    /\ pci_pc \in {"pci_init", "scanning", "found", "size", "sizing", "map", "end"}
    /\ pci_pc # "scanning" => stack = <<>>
    /\ pci_pc = "pci_init" => bus = 0 /\ g_devices = <<>>

\* What is in the table answers as the table says, and is no alias on bus 0.
TableInv ==
    \A i \in DOMAIN g_devices :
      LET a == g_devices[i].at
      IN  /\ conf[a].kind # "none" /\ g_devices[i].kind = conf[a].kind
          /\ conf[a].alias => a[1] # 0

\* The loops in progress are on different buses, farther from the root the
\* higher; the loop of scan_bus is past function 0 only of a device with several.
StackInv ==
    \A k \in DOMAIN stack :
      LET l == stack[k]
      IN  /\ l.bus = 0 => l.root
          /\ l.root => l.bus = bus
          /\ l.root /\ l.func > 0 => l.dev <= LastDev /\ conf[<<l.bus, l.dev, 0>>].multi
          /\ \A j \in 1 .. (k - 1) : stack[j].bus < l.bus

\* The loop is past the function.
Before(a, l) == a[2] < l.dev \/ (a[2] = l.dev /\ a[3] < l.func)

Started(b) ==
    \/ pci_pc # "pci_init" /\ b \in 0 .. bus
    \/ b # 0 /\ \E i \in DOMAIN g_devices : conf[g_devices[i].at].secondary = b

\* While the table has room, every function of a bus whose scan was started is
\* in the table or still ahead of a loop.
CompleteInv ==
    Len(g_devices) < PCI_MAX_DEVICES =>
      \A x \in Exist : Started(x[1]) =>
        \/ x \in Listed
        \/ \E k \in DOMAIN stack : stack[k].bus = x[1] /\ ~Before(x, stack[k])

\* From bus 0, each bus is scanned behind its bridge, once.
LoopsBehindBridges ==
    Len(g_devices) < PCI_MAX_DEVICES =>
      \A k \in DOMAIN stack : ~stack[k].root =>
        \E i \in DOMAIN g_devices : conf[g_devices[i].at].secondary = stack[k].bus
EntriesBehindBridges ==
    \A j \in DOMAIN g_devices : g_devices[j].at[1] # 0 =>
      \E i \in 1 .. (j - 1) : conf[g_devices[i].at].secondary = g_devices[j].at[1]
Distinct == \A i, j \in DOMAIN g_devices : g_devices[i].at = g_devices[j].at => i = j
LoopsAhead ==
    \A k \in DOMAIN stack, i \in DOMAIN g_devices :
      g_devices[i].at[1] = stack[k].bus => Before(g_devices[i].at, stack[k])
TreeInv ==
    bus = 0 => LoopsBehindBridges /\ EntriesBehindBridges /\ Distinct /\ LoopsAhead

\* The fallback's buses are scanned only if bus 0 is empty, and then all.
RootInv ==
    /\ bus # 0 => \A a \in Exist : a[1] # 0
    /\ Scanned => (bus = 0 /\ g_devices # <<>>) \/ bus = LastFallback

ScanInv == PciType /\ TableInv /\ StackInv /\ CompleteInv /\ TreeInv /\ RootInv

\* The BAR and its copies on the way from ehci_init to the mapping; a run of
\* pages is mapped, from the first one of the registers on.
BarRead == orig = hw.base + hw.flags /\ orig # 0 /\ orig % 2 = 0
First == hw.base \div PageSize
Run(n) == First .. (First + n - 1)
BarInv ==
    /\ g_ehci_found => conf[g_ehci_dev].kind = "ehci"
    /\ pci_pc \in {"size", "sizing", "map"} => g_ehci_found /\ hw \in Bars
    /\ pci_pc = "size" => bar = hw.base + hw.flags /\ bar # 0 /\ bar % 2 = 0
    /\ pci_pc = "sizing" => BarRead /\ bar = Written(BarSpace - 1)
    /\ pci_pc = "map" => /\ BarRead /\ bar = orig /\ bar_size \in Nat
                         /\ hw.base # 0 => bar_size = hw.size
                         /\ \E n \in Nat : mapped = Run(n)
    /\ pci_pc \notin {"map", "end"} => mapped = {}
    /\ pci_pc # "end" => g_ehci_mmio = 0
    /\ WindowMapped
----------------------------------------------------------------------------
(***************************************************************************)
(* Machines and loops.                                                     *)
(***************************************************************************)

\* A nonempty set of naturals has a least element.
LEMMA LeastNat ==
    ASSUME NEW S \in SUBSET Nat, S # {}
    PROVE  \E s \in S : \A t \in S : s <= t
<1>. DEFINE R == OpToRel(<, Nat)
<1>1. IsWellFoundedOn(R, Nat)
  BY NatLessThanWellFounded
<1>2. \A x, y \in Nat : y < x => <<y, x>> \in R
  BY DEF OpToRel
<1>. HIDE DEF R
<1>3. \E x \in S : \A y \in S : ~ (<<y, x>> \in R)
  BY <1>1, WFMin
<1>4. \E x \in S : \A y \in S : ~ (y < x)
  BY <1>2, <1>3, Zenon
<1>. QED
  BY <1>4

LEMMA Bounds ==
    /\ LastBus \in Nat /\ LastDev \in Nat /\ LastFunc \in Nat /\ PCI_MAX_DEVICES \in Nat \ {0}
    /\ LastFallback \in Nat /\ 0 .. LastFallback \subseteq Buses /\ Buses \subseteq Nat /\ 0 \in Buses
BY MachinesAssumption DEF Buses

\* What MachinesAssumption says of the machine at hand.
MachineIs ==
    /\ \A a \in Addresses :
         /\ conf[a].kind \in {"none", "other", "bridge", "ehci"} /\ conf[a].secondary \in Buses
         /\ a[3] = 0 => ~conf[a].alias
         /\ conf[a].kind # "none" => conf[<<a[1], a[2], 0>>].kind # "none"
         /\ a[3] > 0 /\ conf[a].kind # "none" =>
              (conf[a].alias <=> ~conf[<<a[1], a[2], 0>>].multi)
         /\ conf[a].secondary # 0 =>
              conf[a].kind = "bridge" /\ conf[a].secondary > a[1] /\ ~conf[a].alias
    /\ \A a, b \in Addresses :
         conf[a].secondary = conf[b].secondary /\ conf[a].secondary # 0 => a = b

LEMMA MachineFacts == conf \in Machines => MachineIs
<1>. SUFFICES ASSUME conf \in Machines PROVE MachineIs  OBVIOUS
<1>1. WellFormed(conf)
  BY MachinesAssumption
<1>2. \A a \in Addresses : conf[a] \in Answer
  BY <1>1 DEF WellFormed
<1>3. \A a \in Addresses :
        conf[a].kind \in {"none", "other", "bridge", "ehci"} /\ conf[a].secondary \in Buses
  BY <1>2 DEF Answer
<1>4. \A a \in Addresses :
         /\ a[3] = 0 => ~conf[a].alias
         /\ conf[a].kind # "none" => conf[<<a[1], a[2], 0>>].kind # "none"
         /\ a[3] > 0 /\ conf[a].kind # "none" =>
              (conf[a].alias <=> ~conf[<<a[1], a[2], 0>>].multi)
         /\ conf[a].secondary # 0 =>
              conf[a].kind = "bridge" /\ conf[a].secondary > a[1] /\ ~conf[a].alias
  BY <1>1, Zenon DEF WellFormed
<1>5. \A a, b \in Addresses :
         conf[a].secondary = conf[b].secondary /\ conf[a].secondary # 0 => a = b
  BY <1>1, Zenon DEF WellFormed
<1>. QED  BY <1>3, <1>4, <1>5, Zenon DEF MachineIs

\* An address, by its parts.
LEMMA AddressParts ==
    ASSUME NEW a \in Addresses
    PROVE  /\ a[1] \in Nat /\ a[1] \in Buses /\ a[2] \in 0 .. LastDev /\ a[3] \in 0 .. LastFunc
           /\ a = <<a[1], a[2], a[3]>> /\ <<a[1], a[2], 0>> \in Addresses
BY Bounds DEF Addresses, Buses

\* Where a loop is, as an address.
LEMMA AtIs ==
    ASSUME NEW l \in Loops, l.dev <= LastDev
    PROVE  /\ At(l) \in Addresses /\ At(l)[1] = l.bus /\ At(l)[2] = l.dev /\ At(l)[3] = l.func
           /\ <<l.bus, l.dev, 0>> \in Addresses
BY Bounds DEF At, Loops, Addresses, Buses

\* What a loop on a root bus promises of where it is.
AtMulti(l) ==
    l.root /\ l.func > 0 => l.dev <= LastDev /\ conf[<<l.bus, l.dev, 0>>].multi

\* Advancing loses no function that exists.
LEMMA AdvanceIs ==
    ASSUME MachineIs, NEW l \in Loops, l.dev <= LastDev, AtMulti(l)
    PROVE  /\ Advance(l) \in Loops /\ Advance(l).bus = l.bus /\ Advance(l).root = l.root
           /\ AtMulti(Advance(l))
           /\ \A x \in Addresses : Before(x, l) => Before(x, Advance(l))
           /\ Before(At(l), Advance(l))
           /\ \A x \in Exist : x[1] = l.bus /\ ~Before(x, l) /\ x # At(l)
                => ~Before(x, Advance(l))
<1>0. /\ l.bus \in Buses /\ l.dev \in 0 .. (LastDev + 1) /\ l.func \in 0 .. LastFunc
      /\ l.root \in BOOLEAN /\ LastDev \in Nat /\ LastFunc \in Nat
      /\ l = [bus |-> l.bus, dev |-> l.dev, func |-> l.func, root |-> l.root]
  BY Bounds DEF Loops
<1>1. NextDev(l) = [bus |-> l.bus, dev |-> l.dev + 1, func |-> 0, root |-> l.root]
  BY <1>0 DEF NextDev, Loop
<1>2. NextFunc(l) = IF l.func = LastFunc THEN NextDev(l)
                    ELSE [bus |-> l.bus, dev |-> l.dev, func |-> l.func + 1, root |-> l.root]
  BY <1>0 DEF NextFunc
<1>3. \A x \in Addresses : /\ x[2] \in 0 .. LastDev /\ x[3] \in 0 .. LastFunc
                          /\ x = <<x[1], x[2], x[3]>>
  BY AddressParts
<1>4. At(l)[2] = l.dev /\ At(l)[3] = l.func /\ At(l) = <<l.bus, l.dev, l.func>>
  BY DEF At
<1>. DEFINE skip == l.root /\ (conf[<<l.bus, l.dev, 0>>].kind = "none"
                               \/ ~conf[<<l.bus, l.dev, 0>>].multi)
<1>5. CASE skip
  <2>1. Advance(l) = [bus |-> l.bus, dev |-> l.dev + 1, func |-> 0, root |-> l.root]
    BY <1>1, <1>5 DEF Advance
  <2>2. \A x \in Exist : x[1] = l.bus /\ x[2] = l.dev => x[3] = 0
    <3>. SUFFICES ASSUME NEW x \in Exist, x[1] = l.bus, x[2] = l.dev, x[3] # 0 PROVE FALSE
      OBVIOUS
    <3>1. x \in Addresses /\ conf[x].kind # "none" /\ ~conf[x].alias
      BY DEF Exist
    <3>2. x[3] > 0
      BY <1>0, <1>3, <3>1
    <3>3. /\ conf[<<x[1], x[2], 0>>].kind # "none"
          /\ conf[x].alias <=> ~conf[<<x[1], x[2], 0>>].multi
      BY <3>1, <3>2 DEF MachineIs
    <3>. QED  BY <1>5, <3>1, <3>3
  <2>3. l.func = 0 \/ conf[<<l.bus, l.dev, 0>>].kind = "none"
    BY <1>0, <1>5 DEF AtMulti
  <2>4. \A x \in Exist : x[1] = l.bus /\ ~Before(x, l) /\ x # At(l) => ~Before(x, Advance(l))
    <3>. SUFFICES ASSUME NEW x \in Exist, x[1] = l.bus, ~Before(x, l), x # At(l)
                  PROVE  ~Before(x, Advance(l))
      OBVIOUS
    <3>1. x \in Addresses /\ conf[x].kind # "none"
      BY DEF Exist
    <3>2. CASE x[2] = l.dev
      <4>1. x[3] = 0 /\ l.func = 0
        BY <1>0, <2>2, <2>3, <3>1, <3>2 DEF MachineIs
      <4>. QED  BY <1>3, <1>4, <3>1, <3>2, <4>1
    <3>3. CASE x[2] # l.dev
      BY <1>0, <1>3, <2>1, <3>1, <3>3 DEF Before
    <3>. QED  BY <3>2, <3>3
  <2>. QED  BY <1>0, <1>3, <1>4, <2>1, <2>4 DEF AtMulti, Before, Loops
<1>6. CASE ~skip
  <2>1. Advance(l) = NextFunc(l)
    BY <1>6 DEF Advance
  <2>2. AtMulti(Advance(l))
    BY <1>0, <1>1, <1>2, <1>6, <2>1 DEF AtMulti
  <2>. QED  BY <1>0, <1>1, <1>2, <1>3, <1>4, <2>1, <2>2 DEF Before, Loops, Exist
<1>. QED  BY <1>5, <1>6

(***************************************************************************)
(* One step of the scan.                                                   *)
(***************************************************************************)

\* The loops below the last one are left alone, the last one advances, and a
\* bridge starts one above it.
StackAfter(l, a) ==
    /\ stack' \in Seq(Loops)
    /\ Len(stack') = IF conf[a].secondary # 0 THEN Len(stack) + 1 ELSE Len(stack)
    /\ \A k \in 1 .. (Len(stack) - 1) : stack'[k] = stack[k]
    /\ stack'[Len(stack)] = Advance(l)
    /\ conf[a].secondary # 0 => stack'[Len(stack) + 1] = Loop(conf[a].secondary, FALSE)

\* The function is entered unless it is absent or the table full.
TableAfter(a) ==
    /\ g_devices' \in Seq(Entries) /\ Len(g_devices') <= PCI_MAX_DEVICES
    /\ \A i \in 1 .. Len(g_devices) : g_devices'[i] = g_devices[i]
    /\ \/ conf[a].kind = "none" /\ g_devices' = g_devices
       \/ conf[a].kind # "none" /\ Len(g_devices) = PCI_MAX_DEVICES /\ g_devices' = g_devices
       \/ /\ conf[a].kind # "none" /\ Len(g_devices) < PCI_MAX_DEVICES
          /\ Len(g_devices') = Len(g_devices) + 1
          /\ g_devices'[Len(g_devices) + 1] = Entry(a)

\* The loop at work and the function it looks at.
Top == stack[Len(stack)]
ScanAt == At(Top)

LEMMA LoopIs ==
    ASSUME NEW b \in Buses, NEW root \in BOOLEAN
    PROVE  /\ Loop(b, root) \in Loops /\ Loop(b, root).bus = b /\ Loop(b, root).root = root
           /\ Loop(b, root).dev = 0 /\ Loop(b, root).func = 0
           /\ \A x \in Addresses : ~Before(x, Loop(b, root))
           /\ AtMulti(Loop(b, root))
<1>1. Loop(b, root) = [bus |-> b, dev |-> 0, func |-> 0, root |-> root]
  BY DEF Loop
<1>2. Loop(b, root) \in Loops
  BY <1>1, Bounds DEF Loops
<1>3. ASSUME NEW x \in Addresses
      PROVE  x[2] >= 0 /\ x[3] >= 0 /\ x[2] \in Int /\ x[3] \in Int
  <2>1. x[2] \in 0 .. LastDev /\ x[3] \in 0 .. LastFunc
    BY AddressParts
  <2>. QED  BY <2>1, Bounds
<1>. QED  BY <1>1, <1>2, <1>3 DEF Before, AtMulti

LEMMA TopIs ==
    ASSUME PciType, stack # <<>>
    PROVE  /\ Len(stack) \in Nat /\ Len(stack) > 0 /\ Len(stack) \in DOMAIN stack
           /\ Top \in Loops /\ Last(stack) = Top
           /\ Front(stack) \in Seq(Loops) /\ Len(Front(stack)) = Len(stack) - 1
           /\ \A k \in 1 .. (Len(stack) - 1) : Front(stack)[k] = stack[k]
<1>1. stack \in Seq(Loops)
  BY DEF PciType
<1>2. Len(stack) \in Nat /\ Len(stack) > 0 /\ Len(stack) \in DOMAIN stack
  BY <1>1
<1>3. Top \in Loops /\ Last(stack) = Top
  BY <1>1, <1>2 DEF Top, Last
<1>4. /\ Front(stack) \in Seq(Loops) /\ Len(Front(stack)) = Len(stack) - 1
      /\ \A k \in 1 .. (Len(stack) - 1) : Front(stack)[k] = stack[k]
  <2>1. \A k \in 1 .. (Len(stack) - 1) : stack[k] \in Loops /\ 1 + k - 1 = k
    BY <1>1
  <2>. DEFINE n == Len(stack) - 1
              front == SubSeq(stack, 1, n)
  <2>2. n \in Int /\ n >= 0 /\ 1 \in Int /\ \A i \in 1 .. n : stack[i] \in Loops
    BY <1>2, <2>1
  <2>. HIDE DEF n
  <2>3. /\ front \in Seq(Loops) /\ Len(front) = (IF 1 <= n THEN n - 1 + 1 ELSE 0)
        /\ \A i \in 1 .. (n - 1 + 1) : front[i] = stack[1 + i - 1]
    BY <2>2, SubSeqProperties
  <2>4. front \in Seq(Loops) /\ Len(front) = n /\ \A i \in 1 .. n : front[i] = stack[i]
    <3>. HIDE DEF front
    <3>. QED  BY <2>2, <2>3
  <2>. QED  BY <2>4 DEF Front, n
<1>. QED  BY <1>2, <1>3, <1>4

LEMMA ScanEffect ==
    ASSUME PciType, StackInv, scan_function
    PROVE  /\ MachineIs /\ stack # <<>> /\ Top \in Loops /\ Top.dev <= LastDev /\ AtMulti(Top)
           /\ ScanAt \in Addresses /\ pci_pc = "scanning"
           /\ StackAfter(Top, ScanAt) /\ TableAfter(ScanAt)
           /\ UNCHANGED <<conf, bus, pci_pc, ehci>>
<1>. DEFINE l == Top
            a == ScanAt
<1>1. /\ stack # <<>> /\ Last(stack).dev <= LastDev /\ UNCHANGED <<conf, bus, pci_pc, ehci>>
  BY DEF scan_function
<1>2. MachineIs /\ pci_pc = "scanning"
  BY <1>1, MachineFacts DEF PciType
<1>3. /\ Len(stack) \in Nat /\ Len(stack) > 0 /\ Len(stack) \in DOMAIN stack
      /\ l \in Loops /\ Last(stack) = l
      /\ Front(stack) \in Seq(Loops) /\ Len(Front(stack)) = Len(stack) - 1
      /\ \A k \in 1 .. (Len(stack) - 1) : Front(stack)[k] = stack[k]
  BY <1>1, TopIs
<1>4. l.dev <= LastDev /\ AtMulti(l)
  BY <1>1, <1>3 DEF StackInv, AtMulti, Top
<1>5. a \in Addresses
  BY <1>3, <1>4, AtIs DEF ScanAt
<1>6. Advance(l) \in Loops
  BY <1>2, <1>3, <1>4, AdvanceIs
<1>7. \/ /\ conf[a].kind = "none"
         /\ stack' = Append(Front(stack), Advance(l)) /\ UNCHANGED g_devices
      \/ /\ conf[a].kind # "none" /\ add_device(a)
         /\ stack' = Append(Front(stack), Advance(l)) \o Inner(a)
  BY <1>3 DEF scan_function, ScanAt
<1>8. conf[a].secondary \in Buses /\ (conf[a].secondary # 0 => conf[a].kind = "bridge")
  BY <1>2, <1>5 DEF MachineIs
<1>. HIDE DEF l, a
<1>. DEFINE below == Append(Front(stack), Advance(l))
<1>9. /\ below \in Seq(Loops) /\ Len(below) = Len(stack)
      /\ \A k \in 1 .. (Len(stack) - 1) : below[k] = stack[k]
      /\ below[Len(stack)] = Advance(l)
  BY <1>3, <1>6
<1>10. StackAfter(l, a)
  <2>. HIDE DEF below
  <2>1. CASE conf[a].secondary = 0
    <3>1. stack' = below
      <4>1. Inner(a) = <<>>
        BY <2>1 DEF Inner
      <4>2. below \o <<>> = below
        BY <1>9
      <4>. QED  BY <1>7, <4>1, <4>2 DEF below
    <3>. QED  BY <1>3, <1>9, <2>1, <3>1 DEF StackAfter
  <2>2. CASE conf[a].secondary # 0
    <3>. DEFINE inner == Loop(conf[a].secondary, FALSE)
    <3>1. inner \in Loops
      BY <1>8, LoopIs
    <3>2. stack' = below \o <<inner>>
      BY <1>7, <1>8, <2>2 DEF Inner, below
    <3>. HIDE DEF inner
    <3>3. /\ stack' \in Seq(Loops) /\ Len(stack') = Len(stack) + 1
          /\ \A k \in 1 .. Len(stack) : stack'[k] = below[k]
          /\ stack'[Len(stack) + 1] = inner
      <4>1. /\ <<inner>> \in Seq(Loops) /\ Len(<<inner>>) = 1 /\ <<inner>>[1] = inner
        BY <3>1
      <4>2. /\ below \o <<inner>> \in Seq(Loops)
            /\ Len(below \o <<inner>>) = Len(stack) + 1
            /\ \A k \in 1 .. (Len(stack) + 1) : (below \o <<inner>>)[k] =
                 IF k <= Len(stack) THEN below[k] ELSE <<inner>>[k - Len(stack)]
        BY <1>9, <4>1, ConcatProperties
      <4>. QED  BY <1>3, <3>2, <4>1, <4>2
    <3>. QED  BY <1>3, <1>9, <2>2, <3>3 DEF StackAfter, inner
  <2>. QED  BY <2>1, <2>2
<1>11. TableAfter(a)
  <2>1. /\ g_devices \in Seq(Entries) /\ Len(g_devices) <= PCI_MAX_DEVICES
        /\ Len(g_devices) \in Nat /\ PCI_MAX_DEVICES \in Nat
    BY Bounds DEF PciType
  <2>2. Entry(a) \in Entries
    BY <1>2, <1>5 DEF Entry, Entries, MachineIs, a
  <2>3. CASE g_devices' = g_devices /\ (conf[a].kind = "none" \/ Len(g_devices) >= PCI_MAX_DEVICES)
    BY <2>1, <2>3 DEF TableAfter
  <2>4. CASE /\ conf[a].kind # "none" /\ Len(g_devices) < PCI_MAX_DEVICES
             /\ g_devices' = Append(g_devices, Entry(a))
    BY <2>1, <2>2, <2>4 DEF TableAfter
  <2>. QED  BY <1>7, <2>1, <2>3, <2>4 DEF add_device
<1>. QED  BY <1>1, <1>2, <1>3, <1>4, <1>5, <1>10, <1>11 DEF l, a

\* The table a step leaves: what it had, and at most the function looked at.
LEMMA TableGrows ==
    ASSUME PciType, NEW a, TableAfter(a)
    PROVE  /\ DOMAIN g_devices = 1 .. Len(g_devices) /\ DOMAIN g_devices' = 1 .. Len(g_devices')
           /\ Len(g_devices) \in Nat /\ Len(g_devices') \in Nat
           /\ Len(g_devices) <= Len(g_devices')
           /\ \A i \in DOMAIN g_devices : i \in DOMAIN g_devices' /\ g_devices'[i] = g_devices[i]
           /\ \A i \in DOMAIN g_devices' : i \in DOMAIN g_devices
                \/ /\ i = Len(g_devices) + 1 /\ g_devices'[i].at = a
                   /\ g_devices'[i].kind = conf[a].kind /\ conf[a].kind # "none"
                   /\ Len(g_devices) < PCI_MAX_DEVICES
           /\ conf[a].kind # "none" /\ Len(g_devices') < PCI_MAX_DEVICES =>
                \E i \in DOMAIN g_devices' : g_devices'[i].at = a
<1>1. g_devices \in Seq(Entries) /\ g_devices' \in Seq(Entries)
  BY DEF PciType, TableAfter
<1>2. /\ DOMAIN g_devices = 1 .. Len(g_devices) /\ DOMAIN g_devices' = 1 .. Len(g_devices')
      /\ Len(g_devices) \in Nat /\ Len(g_devices') \in Nat
  BY <1>1
<1>3. CASE g_devices' = g_devices /\ (conf[a].kind = "none" \/ Len(g_devices) = PCI_MAX_DEVICES)
  <2>1. ~(conf[a].kind # "none" /\ Len(g_devices') < PCI_MAX_DEVICES)
    <3>1. conf[a].kind # "none" => Len(g_devices') = PCI_MAX_DEVICES
      BY <1>3
    <3>. QED  BY <3>1, Bounds
  <2>. QED  BY <1>2, <1>3, <2>1
<1>4. CASE /\ conf[a].kind # "none" /\ Len(g_devices) < PCI_MAX_DEVICES
           /\ Len(g_devices') = Len(g_devices) + 1
           /\ g_devices'[Len(g_devices) + 1] = Entry(a)
  <2>. DEFINE last == Len(g_devices) + 1
  <2>1. g_devices'[last].at = a /\ g_devices'[last].kind = conf[a].kind
    BY <1>4 DEF Entry
  <2>2. /\ last \in DOMAIN g_devices'
        /\ \A i \in DOMAIN g_devices' : i \in DOMAIN g_devices \/ i = last
    BY <1>2, <1>4
  <2>3. \A i \in DOMAIN g_devices : i \in DOMAIN g_devices' /\ g_devices'[i] = g_devices[i]
    BY <1>2, <1>4 DEF TableAfter
  <2>4. Len(g_devices) <= Len(g_devices')
    BY <1>2, <1>4
  <2>. HIDE DEF last
  <2>5. \A i \in DOMAIN g_devices' : i \in DOMAIN g_devices
                \/ /\ i = last /\ g_devices'[i].at = a
                   /\ g_devices'[i].kind = conf[a].kind /\ conf[a].kind # "none"
                   /\ Len(g_devices) < PCI_MAX_DEVICES
    BY <1>4, <2>1, <2>2
  <2>. QED  BY <1>2, <2>1, <2>2, <2>3, <2>4, <2>5 DEF last
<1>. QED  BY <1>3, <1>4 DEF TableAfter

LEMMA ScanTable == ASSUME ScanInv, scan_function PROVE PciType' /\ TableInv'
<1>. DEFINE a == ScanAt
<1>1. /\ MachineIs /\ Top \in Loops /\ Top.dev <= LastDev /\ AtMulti(Top) /\ a \in Addresses
      /\ pci_pc = "scanning" /\ StackAfter(Top, a) /\ TableAfter(a)
      /\ conf' = conf /\ bus' = bus /\ pci_pc' = pci_pc /\ stack # <<>>
  BY ScanEffect DEF ScanInv
<1>2. PciType'
  BY <1>1 DEF ScanInv, PciType, StackAfter, TableAfter
<1>3. conf[a].kind # "none" /\ conf[a].alias => a[1] # 0
  <2>. SUFFICES ASSUME conf[a].kind # "none", conf[a].alias, a[1] = 0 PROVE FALSE  OBVIOUS
  <2>1. a[1] = Top.bus /\ a[2] = Top.dev /\ a[3] = Top.func
    BY <1>1, AtIs DEF ScanAt
  <2>2. Top.root
    BY <1>1, <2>1, TopIs DEF ScanInv, StackInv, Top
  <2>3. a[3] # 0 /\ a[3] \in Nat
    <3>1. a \in Addresses /\ a[3] # 0
      BY <1>1 DEF MachineIs
    <3>. HIDE DEF a
    <3>2. a[3] \in 0 .. LastFunc
      BY <3>1, AddressParts
    <3>. QED  BY <3>1, <3>2, Bounds
  <2>4. conf[<<a[1], a[2], 0>>].multi
    BY <1>1, <2>1, <2>2, <2>3 DEF AtMulti
  <2>. QED  BY <1>1, <2>3, <2>4 DEF MachineIs
<1>4. TableInv'
  <2>. SUFFICES ASSUME NEW i \in DOMAIN g_devices'
                PROVE  /\ conf[g_devices'[i].at].kind # "none"
                       /\ g_devices'[i].kind = conf[g_devices'[i].at].kind
                       /\ conf[g_devices'[i].at].alias => g_devices'[i].at[1] # 0
    BY <1>1 DEF TableInv
  <2>. HIDE DEF a
  <2>1. CASE i \in DOMAIN g_devices
    BY <1>1, <2>1, TableGrows DEF ScanInv, TableInv
  <2>2. CASE i \notin DOMAIN g_devices
    BY <1>1, <1>3, <2>2, TableGrows DEF ScanInv
  <2>. QED  BY <2>1, <2>2
<1>. QED  BY <1>2, <1>4

\* The loops a step leaves, one by one.
LEMMA StackGrows ==
    ASSUME PciType, stack # <<>>, NEW l, NEW a, StackAfter(l, a)
    PROVE  /\ DOMAIN stack = 1 .. Len(stack) /\ DOMAIN stack' = 1 .. Len(stack')
           /\ Len(stack) \in Nat /\ Len(stack) \in DOMAIN stack /\ Len(stack) \in DOMAIN stack'
           /\ stack'[Len(stack)] = Advance(l)
           /\ \A k \in DOMAIN stack : k # Len(stack) =>
                k \in DOMAIN stack' /\ k < Len(stack) /\ stack'[k] = stack[k]
           /\ \A k \in DOMAIN stack' :
                \/ k \in DOMAIN stack /\ k < Len(stack) /\ stack'[k] = stack[k]
                \/ k = Len(stack)
                \/ /\ k = Len(stack) + 1 /\ conf[a].secondary # 0
                   /\ stack'[k] = Loop(conf[a].secondary, FALSE)
           /\ conf[a].secondary # 0 => Len(stack) + 1 \in DOMAIN stack'
<1>1. stack \in Seq(Loops) /\ stack' \in Seq(Loops)
  BY DEF PciType, StackAfter
<1>2. /\ DOMAIN stack = 1 .. Len(stack) /\ DOMAIN stack' = 1 .. Len(stack')
      /\ Len(stack) \in Nat /\ Len(stack) > 0
  BY <1>1
<1>3. /\ Len(stack') = IF conf[a].secondary # 0 THEN Len(stack) + 1 ELSE Len(stack)
      /\ \A k \in 1 .. (Len(stack) - 1) : stack'[k] = stack[k]
      /\ stack'[Len(stack)] = Advance(l)
      /\ conf[a].secondary # 0 => stack'[Len(stack) + 1] = Loop(conf[a].secondary, FALSE)
  BY DEF StackAfter
<1>4. Len(stack') = Len(stack) \/ Len(stack') = Len(stack) + 1
  BY <1>3
<1>n. Len(stack) \in Nat /\ Len(stack) > 0
  BY <1>2
<1>i. /\ 1 .. Len(stack) \subseteq 1 .. Len(stack')
      /\ Len(stack) \in 1 .. Len(stack) /\ Len(stack) \in 1 .. Len(stack')
      /\ \A k \in 1 .. Len(stack') :
           k \in 1 .. (Len(stack) - 1) \/ k = Len(stack) \/ k = Len(stack) + 1
      /\ \A k \in 1 .. Len(stack) :
           k # Len(stack) => k \in 1 .. (Len(stack) - 1) /\ k < Len(stack)
      /\ 1 .. (Len(stack) - 1) \subseteq 1 .. Len(stack)
  BY <1>4, <1>n
<1>5. \A k \in DOMAIN stack : k # Len(stack) =>
        k \in DOMAIN stack' /\ k < Len(stack) /\ stack'[k] = stack[k]
  BY <1>2, <1>3, <1>i
<1>6. ASSUME NEW k \in DOMAIN stack'
      PROVE  \/ k \in DOMAIN stack /\ k < Len(stack) /\ stack'[k] = stack[k]
             \/ k = Len(stack)
             \/ /\ k = Len(stack) + 1 /\ conf[a].secondary # 0
                /\ stack'[k] = Loop(conf[a].secondary, FALSE)
  <2>1. k \in 1 .. (Len(stack) - 1) \/ k = Len(stack) \/ k = Len(stack) + 1
    BY <1>2, <1>i
  <2>2. k = Len(stack) + 1 => conf[a].secondary # 0
    <3>1. k <= Len(stack')
      BY <1>2
    <3>. QED  BY <1>3, <1>n, <3>1
  <2>3. k \in 1 .. (Len(stack) - 1) => k \in DOMAIN stack /\ k < Len(stack)
    <3>1. k \in 1 .. (Len(stack) - 1) => k < Len(stack)
      BY <1>n
    <3>. QED  BY <1>2, <1>i, <3>1
  <2>. QED  BY <1>3, <2>1, <2>2, <2>3
<1>7. Len(stack) \in DOMAIN stack /\ Len(stack) \in DOMAIN stack'
  BY <1>2, <1>i
<1>8. conf[a].secondary # 0 => Len(stack) + 1 \in DOMAIN stack'
  <2>1. conf[a].secondary # 0 => Len(stack') = Len(stack) + 1
    BY <1>3
  <2>2. conf[a].secondary # 0 => Len(stack) + 1 \in 1 .. Len(stack')
    BY <1>n, <2>1
  <2>. QED  BY <1>2, <2>2
<1>. QED  BY <1>2, <1>3, <1>5, <1>6, <1>7, <1>8

LEMMA ScanStack == ASSUME ScanInv, scan_function PROVE StackInv'
<1>. DEFINE a == ScanAt
            n == Len(stack)
<1>1. /\ MachineIs /\ Top \in Loops /\ Top.dev <= LastDev /\ AtMulti(Top) /\ a \in Addresses
      /\ StackAfter(Top, a) /\ conf' = conf /\ bus' = bus /\ stack # <<>>
  BY ScanEffect DEF ScanInv
<1>2. /\ DOMAIN stack = 1 .. n /\ n \in Nat /\ n \in DOMAIN stack
      /\ stack'[n] = Advance(Top)
      /\ \A k \in DOMAIN stack : k # n => k \in DOMAIN stack' /\ k < n /\ stack'[k] = stack[k]
      /\ \A k \in DOMAIN stack' :
           \/ k \in DOMAIN stack /\ k < n /\ stack'[k] = stack[k]
           \/ k = n
           \/ k = n + 1 /\ conf[a].secondary # 0 /\ stack'[k] = Loop(conf[a].secondary, FALSE)
  BY <1>1, StackGrows DEF ScanInv
<1>3. Advance(Top).bus = Top.bus /\ Advance(Top).root = Top.root /\ AtMulti(Advance(Top))
  BY <1>1, AdvanceIs
<1>4. /\ a[1] = Top.bus /\ Top.bus \in Nat
      /\ \A j \in DOMAIN stack : stack[j].bus \in Nat
      /\ \A j \in 1 .. n : stack'[j].bus = stack[j].bus
  <2>1. \A j \in DOMAIN stack : stack[j] \in Loops
    BY DEF ScanInv, PciType
  <2>2. \A l \in Loops : l.bus \in Nat
    BY Bounds DEF Loops
  <2>. QED  BY <1>1, <1>2, <1>3, <2>1, <2>2, AtIs DEF ScanAt, Top
<1>5. /\ Top.bus = 0 => Top.root
      /\ Top.root => Top.bus = bus
      /\ \A j \in 1 .. (n - 1) : stack[j].bus < Top.bus
  BY <1>2 DEF ScanInv, StackInv, Top
<1>. SUFFICES ASSUME NEW k \in DOMAIN stack'
              PROVE  /\ stack'[k].bus = 0 => stack'[k].root
                     /\ stack'[k].root => stack'[k].bus = bus
                     /\ AtMulti(stack'[k])
                     /\ \A j \in 1 .. (k - 1) : stack'[j].bus < stack'[k].bus
  BY <1>1 DEF StackInv, AtMulti
<1>. HIDE DEF a, n
<1>6. CASE k \in DOMAIN stack /\ k < n /\ stack'[k] = stack[k]
  <2>1. /\ stack[k].bus = 0 => stack[k].root
        /\ stack[k].root => stack[k].bus = bus
        /\ AtMulti(stack[k])
        /\ \A j \in 1 .. (k - 1) : stack[j].bus < stack[k].bus
    BY <1>6 DEF ScanInv, StackInv, AtMulti
  <2>. QED  BY <1>2, <1>4, <1>6, <2>1
<1>7. CASE k = n
  BY <1>2, <1>3, <1>4, <1>5, <1>7
<1>8. CASE k = n + 1 /\ conf[a].secondary # 0 /\ stack'[k] = Loop(conf[a].secondary, FALSE)
  <2>1. conf[a].secondary \in Buses /\ conf[a].secondary > a[1]
    BY <1>1, <1>8 DEF MachineIs
  <2>2. stack'[k].bus = conf[a].secondary /\ stack'[k].root = FALSE /\ AtMulti(stack'[k])
    BY <1>8, <2>1, LoopIs
  <2>3. conf[a].secondary \in Nat
    BY <2>1, Bounds
  <2>4. \A j \in 1 .. (k - 1) : j \in 1 .. n /\ (j \in 1 .. (n - 1) \/ j = n)
    BY <1>2, <1>8
  <2>5. n \in 1 .. n /\ stack[n] = Top
    BY <1>2 DEF Top, n
  <2>6. \A j \in 1 .. (k - 1) : stack'[j].bus <= Top.bus /\ stack'[j].bus \in Nat
    BY <1>2, <1>4, <1>5, <2>4, <2>5
  <2>7. \A j \in 1 .. (k - 1) : stack'[j].bus < stack'[k].bus
    BY <1>4, <2>1, <2>2, <2>3, <2>6
  <2>. QED  BY <1>8, <2>2, <2>7
<1>. QED  BY <1>2, <1>6, <1>7, <1>8

LEMMA ScanComplete == ASSUME ScanInv, scan_function PROVE CompleteInv'
<1>. DEFINE a == ScanAt
            n == Len(stack)
<1>1. /\ MachineIs /\ Top \in Loops /\ Top.dev <= LastDev /\ AtMulti(Top) /\ a \in Addresses
      /\ pci_pc = "scanning" /\ StackAfter(Top, a) /\ TableAfter(a)
      /\ conf' = conf /\ bus' = bus /\ pci_pc' = pci_pc /\ stack # <<>>
  BY ScanEffect DEF ScanInv
<1>. HIDE DEF a, n
<1>2. /\ n \in DOMAIN stack' /\ stack'[n] = Advance(Top)
      /\ \A k \in DOMAIN stack : k # n => k \in DOMAIN stack' /\ stack'[k] = stack[k]
      /\ conf[a].secondary # 0 => n + 1 \in DOMAIN stack'
      /\ conf[a].secondary # 0 => stack'[n + 1] = Loop(conf[a].secondary, FALSE)
  <2>1. PciType /\ stack # <<>> /\ StackAfter(Top, a)
    BY <1>1 DEF ScanInv
  <2>2. /\ n \in DOMAIN stack' /\ stack'[n] = Advance(Top)
        /\ \A k \in DOMAIN stack : k # n => k \in DOMAIN stack' /\ stack'[k] = stack[k]
        /\ conf[a].secondary # 0 => n + 1 \in DOMAIN stack'
    BY <2>1, StackGrows DEF n
  <2>3. conf[a].secondary # 0 => stack'[n + 1] = Loop(conf[a].secondary, FALSE)
    BY <2>1 DEF StackAfter, n
  <2>. QED  BY <2>2, <2>3
<1>. SUFFICES ASSUME Len(g_devices') < PCI_MAX_DEVICES, NEW x \in Exist, Started(x[1])'
              PROVE  \/ x \in Listed'
                     \/ \E k \in DOMAIN stack' : stack'[k].bus = x[1] /\ ~Before(x, stack'[k])
  <2>1. Exist' = Exist
    BY <1>1 DEF Exist
  <2>2. \A x, k : Before(x, stack[k])' <=> Before(x, stack'[k])
    BY DEF Before
  <2>. QED  BY <2>1, <2>2 DEF CompleteInv
<1>3. Len(g_devices) < PCI_MAX_DEVICES
  BY <1>1, TableGrows, Bounds DEF ScanInv
<1>4. x \in Addresses /\ conf[x].kind # "none"
  BY DEF Exist
<1>5. CASE Started(x[1])
  <2>1. \/ x \in Listed
        \/ \E k \in DOMAIN stack : stack[k].bus = x[1] /\ ~Before(x, stack[k])
    BY <1>3, <1>5 DEF ScanInv, CompleteInv
  <2>2. CASE x \in Listed
    BY <1>1, <2>2, TableGrows DEF ScanInv, Listed
  <2>3. ASSUME NEW k \in DOMAIN stack, stack[k].bus = x[1], ~Before(x, stack[k])
        PROVE  \/ x \in Listed'
               \/ \E m \in DOMAIN stack' : stack'[m].bus = x[1] /\ ~Before(x, stack'[m])
    <3>1. CASE k # n
      BY <1>2, <2>3, <3>1
    <3>2. CASE k = n /\ x = a
      BY <1>1, <1>4, <3>2, TableGrows DEF ScanInv, Listed
    <3>3. CASE k = n /\ x # a
      <4>1. ~Before(x, Top) /\ Top.bus = x[1]
        BY <2>3, <3>3 DEF Top, n
      <4>2. ~Before(x, Advance(Top)) /\ Advance(Top).bus = x[1]
        BY <1>1, <3>3, <4>1, AdvanceIs DEF a, ScanAt
      <4>. QED  BY <1>2, <4>2
    <3>. QED  BY <3>1, <3>2, <3>3
  <2>. QED  BY <2>1, <2>2, <2>3
<1>6. CASE ~Started(x[1])
  <2>1. x[1] # 0 /\ \E i \in DOMAIN g_devices' : conf[g_devices'[i].at].secondary = x[1]
    BY <1>1, <1>6 DEF Started
  <2>2. conf[a].secondary = x[1]
    BY <1>1, <1>6, <2>1, TableGrows DEF ScanInv, Started
  <2>3. /\ Loop(conf[a].secondary, FALSE).bus = x[1]
        /\ ~Before(x, Loop(conf[a].secondary, FALSE))
    BY <1>1, <1>4, <2>2, LoopIs DEF MachineIs
  <2>. QED  BY <1>2, <2>1, <2>2, <2>3
<1>. QED  BY <1>5, <1>6

\* From bus 0 no function is met twice: the loops are ahead of the table.
LEMMA NotYet ==
    ASSUME ScanInv, bus = 0, scan_function, NEW i \in DOMAIN g_devices
    PROVE  g_devices[i].at # ScanAt
<1>1. Top \in Loops /\ Top.dev <= LastDev /\ stack # <<>>
  BY ScanEffect DEF ScanInv
<1>2. Len(stack) \in DOMAIN stack
  BY <1>1, TopIs DEF ScanInv
<1>3. g_devices[i].at[1] = Top.bus => Before(g_devices[i].at, Top)
  BY <1>2 DEF ScanInv, TreeInv, LoopsAhead, Top
<1>4. ScanAt[1] = Top.bus /\ ~Before(ScanAt, Top)
  <2>1. Top.dev \in Int /\ Top.func \in Int
    BY <1>1, Bounds DEF Loops
  <2>2. ScanAt[1] = Top.bus /\ ScanAt[2] = Top.dev /\ ScanAt[3] = Top.func
    BY <1>1, AtIs DEF ScanAt
  <2>. QED  BY <2>1, <2>2 DEF Before
<1>. QED  BY <1>3, <1>4

LEMMA ScanTree == ASSUME ScanInv, scan_function PROVE TreeInv'
<1>. DEFINE a == ScanAt
            n == Len(stack)
<1>1. /\ MachineIs /\ Top \in Loops /\ Top.dev <= LastDev /\ AtMulti(Top) /\ a \in Addresses
      /\ StackAfter(Top, a) /\ TableAfter(a) /\ conf' = conf /\ bus' = bus /\ stack # <<>>
  BY ScanEffect DEF ScanInv
<1>. SUFFICES ASSUME bus = 0
              PROVE  LoopsBehindBridges' /\ EntriesBehindBridges' /\ Distinct' /\ LoopsAhead'
  BY <1>1 DEF TreeInv
<1>2. LoopsBehindBridges /\ EntriesBehindBridges /\ Distinct /\ LoopsAhead
  BY DEF ScanInv, TreeInv
<1>3. \A i \in DOMAIN g_devices : g_devices[i].at # a
  BY NotYet
<1>4. /\ a[1] = Top.bus /\ Top = stack[n] /\ a = At(Top)
      /\ Top.root => Top.bus = 0
      /\ \A k \in 1 .. (n - 1) : stack[k].bus < Top.bus
  <2>1. n \in DOMAIN stack
    BY <1>1, TopIs DEF ScanInv
  <2>. QED  BY <1>1, <2>1, AtIs DEF ScanInv, StackInv, Top, ScanAt
<1>5. /\ n \in DOMAIN stack /\ stack'[n] = Advance(Top)
      /\ n \in Nat
      /\ \A k \in DOMAIN stack' :
           \/ k \in DOMAIN stack /\ k < n /\ k \in 1 .. (n - 1) /\ stack'[k] = stack[k]
           \/ k = n
           \/ k = n + 1 /\ conf[a].secondary # 0 /\ stack'[k] = Loop(conf[a].secondary, FALSE)
  <2>1. PciType /\ StackAfter(Top, a) /\ stack # <<>>
    BY <1>1 DEF ScanInv
  <2>2. /\ DOMAIN stack = 1 .. n /\ n \in Nat /\ n \in DOMAIN stack /\ stack'[n] = Advance(Top)
        /\ \A k \in DOMAIN stack' :
             \/ k \in DOMAIN stack /\ k < n /\ stack'[k] = stack[k]
             \/ k = n
             \/ k = n + 1 /\ conf[a].secondary # 0 /\ stack'[k] = Loop(conf[a].secondary, FALSE)
    BY <2>1, StackGrows
  <2>3. \A k \in DOMAIN stack : k < n => k \in 1 .. (n - 1)
    BY <2>2
  <2>. QED  BY <2>2, <2>3
<1>6. /\ Len(g_devices) \in Nat /\ Len(g_devices) <= Len(g_devices') /\ Len(g_devices') \in Nat
      /\ DOMAIN g_devices = 1 .. Len(g_devices)
      /\ \A i \in DOMAIN g_devices : i \in DOMAIN g_devices' /\ g_devices'[i] = g_devices[i]
      /\ \A i \in DOMAIN g_devices' : i \in DOMAIN g_devices
           \/ /\ i = Len(g_devices) + 1 /\ g_devices'[i].at = a
              /\ Len(g_devices) < PCI_MAX_DEVICES
      /\ conf[a].kind # "none" /\ Len(g_devices') < PCI_MAX_DEVICES =>
           \E i \in DOMAIN g_devices' : g_devices'[i].at = a
  BY <1>1, TableGrows DEF ScanInv
<1>7. /\ Advance(Top).bus = Top.bus /\ Advance(Top).root = Top.root
      /\ \A x \in Addresses : Before(x, Top) => Before(x, Advance(Top))
      /\ Before(a, Advance(Top))
  BY <1>1, <1>4, AdvanceIs
<1>8. /\ conf[a].secondary \in Nat
      /\ conf[a].secondary # 0 => conf[a].secondary > a[1] /\ conf[a].kind = "bridge"
      /\ conf[a].secondary # 0 => /\ Loop(conf[a].secondary, FALSE).bus = conf[a].secondary
                                  /\ Loop(conf[a].secondary, FALSE).root = FALSE
  <2>1. conf[a].secondary \in Buses
    BY <1>1 DEF MachineIs
  <2>. QED  BY <1>1, <2>1, LoopIs, Bounds DEF MachineIs
<1>9. \A i \in DOMAIN g_devices : g_devices[i].at \in Addresses
  <2>1. g_devices \in Seq(Entries)
    BY DEF ScanInv, PciType
  <2>2. \A i \in DOMAIN g_devices : g_devices[i] \in Entries
    BY <2>1
  <2>. QED  BY <2>2 DEF Entries
<1>. HIDE DEF a, n
<1>10. LoopsBehindBridges'
  <2>. SUFFICES ASSUME Len(g_devices') < PCI_MAX_DEVICES,
                       NEW k \in DOMAIN stack', ~stack'[k].root
                PROVE  \E i \in DOMAIN g_devices' :
                         conf[g_devices'[i].at].secondary = stack'[k].bus
    BY <1>1 DEF LoopsBehindBridges
  <2>1. Len(g_devices) < PCI_MAX_DEVICES
    BY <1>6, Bounds
  <2>2. ASSUME NEW m \in DOMAIN stack, ~stack[m].root, stack[m].bus = stack'[k].bus
        PROVE  \E i \in DOMAIN g_devices' : conf[g_devices'[i].at].secondary = stack'[k].bus
    BY <1>2, <1>6, <2>1, <2>2 DEF LoopsBehindBridges
  <2>3. CASE k = n + 1 /\ conf[a].secondary # 0 /\ stack'[k] = Loop(conf[a].secondary, FALSE)
    BY <1>6, <1>8, <2>3
  <2>. QED  BY <1>4, <1>5, <1>7, <2>2, <2>3
<1>11. EntriesBehindBridges'
  <2>. SUFFICES ASSUME NEW j \in DOMAIN g_devices', g_devices'[j].at[1] # 0
                PROVE  \E i \in 1 .. (j - 1) :
                         conf[g_devices'[i].at].secondary = g_devices'[j].at[1]
    BY <1>1 DEF EntriesBehindBridges
  <2>1. CASE j \in DOMAIN g_devices
    <3>1. PICK i \in 1 .. (j - 1) : conf[g_devices[i].at].secondary = g_devices[j].at[1]
      BY <1>2, <1>6, <2>1 DEF EntriesBehindBridges
    <3>2. i \in DOMAIN g_devices
      BY <1>6, <2>1
    <3>. QED  BY <1>6, <2>1, <3>1, <3>2
  <2>2. CASE /\ j = Len(g_devices) + 1 /\ g_devices'[j].at = a
             /\ Len(g_devices) < PCI_MAX_DEVICES
    <3>1. ~Top.root
      BY <1>4, <2>2
    <3>2. PICK i \in DOMAIN g_devices : conf[g_devices[i].at].secondary = Top.bus
      BY <1>2, <1>4, <1>5, <2>2, <3>1 DEF LoopsBehindBridges
    <3>3. i \in 1 .. (j - 1)
      BY <1>6, <2>2
    <3>. QED  BY <1>4, <1>6, <2>2, <3>2, <3>3
  <2>. QED  BY <1>6, <2>1, <2>2
<1>12. Distinct'
  <2>. SUFFICES ASSUME NEW i \in DOMAIN g_devices', NEW j \in DOMAIN g_devices',
                       g_devices'[i].at = g_devices'[j].at
                PROVE  i = j
    BY DEF Distinct
  <2>. QED  BY <1>2, <1>3, <1>6 DEF Distinct
<1>13. LoopsAhead'
  <2>. SUFFICES ASSUME NEW k \in DOMAIN stack', NEW i \in DOMAIN g_devices',
                       g_devices'[i].at[1] = stack'[k].bus
                PROVE  Before(g_devices'[i].at, stack'[k])
    BY DEF LoopsAhead, Before
  <2>1. CASE k \in DOMAIN stack /\ k < n /\ k \in 1 .. (n - 1) /\ stack'[k] = stack[k]
    <3>1. CASE i \in DOMAIN g_devices
      BY <1>2, <1>6, <2>1, <3>1 DEF LoopsAhead
    <3>2. CASE g_devices'[i].at = a
      <4>1. stack[k] \in Loops
        BY <2>1 DEF ScanInv, PciType
      <4>2. stack[k].bus \in Int /\ Top.bus \in Int
        <5>1. stack[k].bus \in Buses /\ Top.bus \in Buses
          BY <1>1, <4>1 DEF Loops
        <5>2. \A b \in Buses : b \in Int
          BY Bounds
        <5>. QED  BY <5>1, <5>2, Zenon
      <4>. QED  BY <1>4, <2>1, <3>2, <4>2
    <3>. QED  BY <1>6, <3>1, <3>2
  <2>2. CASE k = n
    <3>1. CASE i \in DOMAIN g_devices
      BY <1>2, <1>4, <1>5, <1>6, <1>7, <1>9, <2>2, <3>1 DEF LoopsAhead
    <3>2. CASE g_devices'[i].at = a
      BY <1>5, <1>7, <2>2, <3>2
    <3>. QED  BY <1>6, <3>1, <3>2
  <2>3. CASE k = n + 1 /\ conf[a].secondary # 0 /\ stack'[k] = Loop(conf[a].secondary, FALSE)
    <3>1. CASE i \in DOMAIN g_devices
      <4>1. g_devices[i].at[1] = conf[a].secondary
        BY <1>6, <1>8, <2>3, <3>1
      <4>2. PICK j \in 1 .. (i - 1) : conf[g_devices[j].at].secondary = conf[a].secondary
        BY <1>2, <2>3, <3>1, <4>1 DEF EntriesBehindBridges
      <4>3. j \in DOMAIN g_devices
        BY <1>6, <3>1
      <4>4. g_devices[j].at = a
        BY <1>1, <1>9, <2>3, <4>2, <4>3 DEF MachineIs
      <4>. QED  BY <1>3, <4>3, <4>4
    <3>2. CASE g_devices'[i].at = a
      <4>1. a[1] = conf[a].secondary /\ conf[a].secondary > a[1]
        BY <1>8, <2>3, <3>2
      <4>. QED  BY <1>8, <4>1
    <3>. QED  BY <1>6, <3>1, <3>2
  <2>. QED  BY <1>5, <2>1, <2>2, <2>3
<1>. QED  BY <1>10, <1>11, <1>12, <1>13

LEMMA ScanKeeps == ASSUME ScanInv, scan_function PROVE ScanInv'
<1>1. conf' = conf /\ bus' = bus /\ pci_pc' = pci_pc /\ pci_pc = "scanning"
  BY ScanEffect DEF ScanInv
<1>2. RootInv'
  BY <1>1 DEF ScanInv, RootInv, Exist, Scanned
<1>. QED  BY <1>2, ScanTable, ScanStack, ScanComplete, ScanTree DEF ScanInv

\* A loop that is past its last device is past every function of its bus.
LEMMA LoopEndsKeeps == ASSUME ScanInv, LoopEnds PROVE ScanInv'
<1>. DEFINE n == Len(stack)
<1>1. /\ stack # <<>> /\ Last(stack).dev > LastDev /\ stack' = Front(stack)
      /\ UNCHANGED <<conf, g_devices, bus, pci_pc, ehci>>
  BY DEF LoopEnds
<1>2. /\ n \in Nat /\ n > 0 /\ Last(stack) = Top /\ stack \in Seq(Loops)
      /\ stack' \in Seq(Loops) /\ Len(stack') = n - 1
      /\ \A k \in 1 .. (n - 1) : stack'[k] = stack[k]
  BY <1>1, TopIs DEF ScanInv, PciType
<1>3. DOMAIN stack = 1 .. n /\ DOMAIN stack' = 1 .. (n - 1)
  BY <1>2
<1>4. 1 .. (n - 1) \subseteq 1 .. n /\ \A k \in 1 .. n : k # n => k \in 1 .. (n - 1)
  BY <1>2
<1>5. /\ \A k \in DOMAIN stack' : k \in DOMAIN stack /\ stack'[k] = stack[k]
      /\ \A k \in DOMAIN stack : k # n => k \in DOMAIN stack' /\ stack'[k] = stack[k]
  BY <1>2, <1>3, <1>4
<1>6. PciType' /\ TableInv'
  BY <1>1, <1>2 DEF ScanInv, PciType, TableInv
<1>7. StackInv'
  <2>. SUFFICES ASSUME NEW k \in DOMAIN stack'
                PROVE  /\ stack'[k].bus = 0 => stack'[k].root
                       /\ stack'[k].root => stack'[k].bus = bus
                       /\ AtMulti(stack'[k])
                       /\ \A j \in 1 .. (k - 1) : stack'[j].bus < stack'[k].bus
    BY <1>1 DEF StackInv, AtMulti
  <2>1. k \in DOMAIN stack /\ stack'[k] = stack[k]
    BY <1>5
  <2>2. \A j \in 1 .. (k - 1) : stack'[j] = stack[j]
    <3>1. \A j \in 1 .. (k - 1) : j \in 1 .. (n - 1)
      BY <1>2, <1>3
    <3>. QED  BY <1>2, <3>1
  <2>. HIDE DEF n
  <2>3. /\ stack[k].bus = 0 => stack[k].root
        /\ stack[k].root => stack[k].bus = bus
        /\ AtMulti(stack[k])
        /\ \A j \in 1 .. (k - 1) : stack[j].bus < stack[k].bus
    BY <2>1 DEF ScanInv, StackInv, AtMulti
  <2>. QED  BY <2>1, <2>2, <2>3
<1>8. CompleteInv'
  <2>. SUFFICES ASSUME Len(g_devices) < PCI_MAX_DEVICES, NEW x \in Exist, Started(x[1])
                PROVE  \/ x \in Listed
                       \/ \E k \in DOMAIN stack' : stack'[k].bus = x[1] /\ ~Before(x, stack'[k])
    BY <1>1 DEF CompleteInv, Started, Listed, Exist, Before
  <2>1. \/ x \in Listed
        \/ \E k \in DOMAIN stack : stack[k].bus = x[1] /\ ~Before(x, stack[k])
    BY DEF ScanInv, CompleteInv
  <2>2. Before(x, stack[n])
    <3>1. x \in Addresses
      BY DEF Exist
    <3>2. x[2] \in 0 .. LastDev
      BY <3>1, AddressParts
    <3>3. stack[n].dev > LastDev
      BY <1>1, <1>2 DEF Top
    <3>4. stack[n] \in Loops
      BY <1>2
    <3>5. stack[n].dev \in 0 .. (LastDev + 1)
      BY <3>4 DEF Loops
    <3>6. x[2] < stack[n].dev
      BY <3>2, <3>3, <3>5, Bounds
    <3>. QED  BY <3>6 DEF Before
  <2>. HIDE DEF n
  <2>. QED  BY <1>5, <2>1, <2>2
<1>9. TreeInv'
  <2>. SUFFICES ASSUME bus = 0
                PROVE  LoopsBehindBridges' /\ EntriesBehindBridges' /\ Distinct' /\ LoopsAhead'
    BY <1>1 DEF TreeInv
  <2>1. LoopsBehindBridges /\ EntriesBehindBridges /\ Distinct /\ LoopsAhead
    BY DEF ScanInv, TreeInv
  <2>2. EntriesBehindBridges' /\ Distinct'
    BY <1>1, <2>1 DEF EntriesBehindBridges, Distinct
  <2>. HIDE DEF n
  <2>3. LoopsBehindBridges'
    BY <1>1, <1>5, <2>1 DEF LoopsBehindBridges
  <2>4. LoopsAhead'
    BY <1>1, <1>5, <2>1 DEF LoopsAhead, Before
  <2>. QED  BY <2>2, <2>3, <2>4
<1>10. RootInv'
  BY <1>1 DEF ScanInv, RootInv, Exist, Scanned
<1>. QED  BY <1>6, <1>7, <1>8, <1>9, <1>10 DEF ScanInv

LEMMA PciInitKeeps == ASSUME ScanInv, pci_init PROVE ScanInv'
<1>. DEFINE l == Loop(0, TRUE)
<1>1. /\ g_devices' = <<>> /\ stack' = <<l>> /\ pci_pc' = "scanning"
      /\ conf' = conf /\ bus' = bus /\ bus = 0
  BY DEF pci_init, ScanInv, PciType
<1>2. /\ l \in Loops /\ l.bus = 0 /\ l.root = TRUE /\ AtMulti(l)
      /\ \A x \in Addresses : ~Before(x, l)
  BY LoopIs, Bounds
<1>. HIDE DEF l
<1>3. /\ stack' \in Seq(Loops) /\ DOMAIN stack' = {1} /\ stack'[1] = l
  BY <1>1, <1>2
<1>4. /\ g_devices' \in Seq(Entries) /\ Len(g_devices') = 0 /\ DOMAIN g_devices' = {}
  BY <1>1
<1>5. PciType' /\ TableInv'
  <2>1. 0 <= PCI_MAX_DEVICES
    BY Bounds
  <2>. QED  BY <1>1, <1>3, <1>4, <2>1 DEF ScanInv, PciType, TableInv
<1>6. StackInv'
  BY <1>1, <1>2, <1>3 DEF StackInv, AtMulti
<1>7. CompleteInv'
  <2>1. \A b : Started(b)' => b = 0
    BY <1>1, <1>4 DEF Started
  <2>2. \A x \in Exist : x \in Addresses
    BY DEF Exist
  <2>3. Exist' = Exist
    BY <1>1 DEF Exist
  <2>. QED  BY <1>2, <1>3, <2>1, <2>2, <2>3 DEF CompleteInv, Before
<1>8. TreeInv'
  BY <1>2, <1>3, <1>4
     DEF TreeInv, LoopsBehindBridges, EntriesBehindBridges, Distinct, LoopsAhead
<1>9. RootInv'
  BY <1>1 DEF RootInv, Scanned
<1>. QED  BY <1>5, <1>6, <1>7, <1>8, <1>9 DEF ScanInv

\* When no loop is left, the buses started are in the table.
LEMMA NothingAhead ==
    ASSUME ScanInv, stack = <<>>, Len(g_devices) < PCI_MAX_DEVICES,
           NEW x \in Exist, Started(x[1])
    PROVE  x \in Listed
<1>1. DOMAIN stack = {}
  OBVIOUS
<1>. QED  BY <1>1 DEF ScanInv, CompleteInv

\* Steps that leave the scan alone.
LEMMA ScanRests ==
    ASSUME ScanInv, pci_pc # "pci_init", stack = <<>>, UNCHANGED <<conf, g_devices, stack, bus>>,
           pci_pc' \in {"found", "size", "sizing", "map", "end"},
           (bus = 0 /\ g_devices # <<>>) \/ bus = LastFallback
    PROVE  ScanInv'
<1>1. PciType' /\ TableInv' /\ StackInv'
  BY DEF ScanInv, PciType, TableInv, StackInv
<1>2. CompleteInv'
  BY DEF ScanInv, CompleteInv, Started, Listed, Exist, Before
<1>3. TreeInv'
  BY DEF ScanInv, TreeInv, LoopsBehindBridges, EntriesBehindBridges, Distinct, LoopsAhead, Before
<1>4. RootInv'
  BY DEF ScanInv, RootInv, Exist, Scanned
<1>. QED  BY <1>1, <1>2, <1>3, <1>4 DEF ScanInv

LEMMA NextBusKeeps == ASSUME ScanInv, NextBus PROVE ScanInv'
<1>1. pci_pc = "scanning" /\ stack = <<>> /\ conf' = conf /\ g_devices' = g_devices
  BY DEF NextBus
<1>2. CASE (bus = 0 /\ g_devices # <<>>) \/ bus = LastFallback
  BY <1>1, <1>2, ScanRests DEF NextBus
<1>3. CASE ~((bus = 0 /\ g_devices # <<>>) \/ bus = LastFallback)
  <2>. DEFINE b == bus + 1
              l == Loop(b, TRUE)
  <2>1. bus' = b /\ stack' = <<l>> /\ pci_pc' = pci_pc
    BY <1>3 DEF NextBus
  <2>2. b \in 0 .. LastFallback /\ b \in Buses /\ b # 0 /\ bus \in Nat
    <3>1. bus \in 0 .. LastFallback /\ bus # LastFallback
      BY <1>3 DEF ScanInv, PciType
    <3>2. b \in 0 .. LastFallback /\ b # 0 /\ bus \in Nat
      BY <3>1, Bounds
    <3>. QED  BY <3>2, Bounds
  <2>3. /\ l \in Loops /\ l.bus = b /\ l.root = TRUE /\ AtMulti(l)
        /\ \A x \in Addresses : ~Before(x, l)
    BY <2>2, LoopIs
  <2>4. \A c : c \in 0 .. b => c \in 0 .. bus \/ c = b
    BY <2>2
  <2>. HIDE DEF l, b
  <2>5. stack' \in Seq(Loops) /\ DOMAIN stack' = {1} /\ stack'[1] = l
    BY <2>1, <2>3
  <2>6. PciType' /\ TableInv'
    BY <1>1, <2>1, <2>2, <2>5 DEF ScanInv, PciType, TableInv
  <2>7. StackInv'
    BY <1>1, <2>1, <2>2, <2>3, <2>5 DEF StackInv, AtMulti
  <2>8. CompleteInv'
    <3>. SUFFICES ASSUME Len(g_devices) < PCI_MAX_DEVICES, NEW x \in Exist, Started(x[1])'
                  PROVE  \/ x \in Listed
                         \/ \E k \in DOMAIN stack' : stack'[k].bus = x[1] /\ ~Before(x, stack'[k])
      BY <1>1 DEF CompleteInv, Listed, Exist, Before
    <3>1. x \in Addresses
      BY DEF Exist
    <3>2. Started(x[1]) \/ x[1] = b
      BY <1>1, <2>1, <2>4 DEF Started
    <3>3. CASE Started(x[1])
      BY <1>1, <3>3, NothingAhead
    <3>4. CASE x[1] = b
      BY <2>3, <2>5, <3>1, <3>4
    <3>. QED  BY <3>2, <3>3, <3>4
  <2>9. TreeInv'
    BY <2>1, <2>2 DEF TreeInv
  <2>10. RootInv'
    <3>1. ASSUME NEW x \in Exist, x[1] = 0 PROVE FALSE
      <4>1. bus = 0
        BY <3>1 DEF ScanInv, RootInv
      <4>2. g_devices = <<>>
        BY <1>3, <4>1
      <4>3. Len(g_devices) < PCI_MAX_DEVICES /\ Listed = {}
        BY <4>2, Bounds DEF Listed
      <4>4. Started(x[1])
        BY <1>1, <3>1, <4>1 DEF Started
      <4>. QED  BY <1>1, <4>3, <4>4, NothingAhead
    <3>2. Exist' = Exist
      BY <1>1 DEF Exist
    <3>. QED  BY <1>1, <2>1, <3>1, <3>2 DEF RootInv, Scanned
  <2>. QED  BY <2>6, <2>7, <2>8, <2>9, <2>10 DEF ScanInv
<1>. QED  BY <1>2, <1>3

\* ehci_init up to the mapping of the registers.
EhciSteps == ehci_init_begin \/ SizeWrite \/ SizeRead \/ MapPage \/ Mapped

LEMMA EhciKeepsScan == ASSUME ScanInv, EhciSteps PROVE ScanInv'
<1>1. /\ UNCHANGED <<conf, g_devices, stack, bus>>
      /\ pci_pc \in {"found", "size", "sizing", "map"}
      /\ pci_pc' \in {"found", "size", "sizing", "map", "end"}
  <2>1. CASE ehci_init_begin
    BY <2>1 DEF ehci_init_begin
  <2>2. CASE SizeWrite
    BY <2>2 DEF SizeWrite
  <2>3. CASE SizeRead
    BY <2>3 DEF SizeRead
  <2>4. CASE MapPage
    BY <2>4 DEF MapPage
  <2>5. CASE Mapped
    BY <2>5 DEF Mapped
  <2>. QED  BY <2>1, <2>2, <2>3, <2>4, <2>5 DEF EhciSteps
<1>2. stack = <<>> /\ ((bus = 0 /\ g_devices # <<>>) \/ bus = LastFallback)
  BY <1>1 DEF ScanInv, PciType, RootInv, Scanned
<1>. QED  BY <1>1, <1>2, ScanRests

LEMMA ScanInit == PciInit => ScanInv
<1>. SUFFICES ASSUME PciInit PROVE ScanInv  OBVIOUS
<1>1. /\ conf \in Machines /\ g_devices = <<>> /\ stack = <<>> /\ bus = 0 /\ pci_pc = "pci_init"
  BY DEF PciInit
<1>2. PciType
  BY <1>1, Bounds DEF PciType
<1>3. TableInv /\ StackInv
  BY <1>1 DEF TableInv, StackInv
<1>4. CompleteInv
  BY <1>1 DEF CompleteInv, Started
<1>5. TreeInv
  BY <1>1 DEF TreeInv, LoopsBehindBridges, EntriesBehindBridges, Distinct, LoopsAhead
<1>6. RootInv
  BY <1>1 DEF RootInv, Scanned
<1>. QED  BY <1>2, <1>3, <1>4, <1>5, <1>6 DEF ScanInv

LEMMA ScanNext == ScanInv /\ [PciNext]_pciVars => ScanInv'
<1>. SUFFICES ASSUME ScanInv, [PciNext]_pciVars PROVE ScanInv'  OBVIOUS
<1>1. CASE UNCHANGED pciVars
  <2>1. UNCHANGED <<conf, g_devices, stack, bus, pci_pc>>
    BY <1>1 DEF pciVars
  <2>2. PciType' /\ TableInv' /\ StackInv'
    BY <2>1 DEF ScanInv, PciType, TableInv, StackInv
  <2>3. CompleteInv'
    BY <2>1 DEF ScanInv, CompleteInv, Started, Listed, Exist, Before
  <2>4. TreeInv'
    BY <2>1
       DEF ScanInv, TreeInv, LoopsBehindBridges, EntriesBehindBridges, Distinct, LoopsAhead, Before
  <2>5. RootInv'
    BY <2>1 DEF ScanInv, RootInv, Exist, Scanned
  <2>. QED  BY <2>2, <2>3, <2>4, <2>5 DEF ScanInv
<1>2. CASE PciNext
  BY <1>2, PciInitKeeps, NextBusKeeps, ScanKeeps, LoopEndsKeeps, EhciKeepsScan
     DEF PciNext, Step, EhciSteps
<1>. QED  BY <1>1, <1>2

\* What the invariant says when no loop is left.
LEMMA ScanResult == ASSUME ScanInv PROVE TableExact
<1>. SUFFICES ASSUME Scanned PROVE TableExact  BY DEF TableExact
<1>. USE DEF ScanInv
<1>1. /\ stack = <<>> /\ pci_pc # "pci_init" /\ g_devices \in Seq(Entries) /\ MachineIs
      /\ DOMAIN g_devices = 1 .. Len(g_devices) /\ Len(g_devices) \in Nat
      /\ bus \in Nat
  BY MachineFacts, Bounds DEF Scanned, PciType
<1>2. \A i \in DOMAIN g_devices : g_devices[i].at \in Addresses
  <2>1. \A i \in DOMAIN g_devices : g_devices[i] \in Entries
    BY <1>1
  <2>. QED  BY <2>1 DEF Entries
<1>3. Len(g_devices) <= PCI_MAX_DEVICES
  BY DEF PciType
<1>4. \A a \in Listed : conf[a].kind # "none" /\ (conf[a].alias => a[1] # 0)
  BY DEF TableInv, Listed
<1>5. 0 \in Roots <=> \E a \in Exist : a[1] = 0
  BY DEF Roots
<1>6. 0 \in Roots => bus = 0
  BY <1>5 DEF RootInv
<1>7. \A c : c \in Roots => c \in 0 .. bus
  <2>1. CASE 0 \in Roots
    BY <1>1, <1>5, <2>1 DEF Roots
  <2>2. CASE 0 \notin Roots
    <3>1. bus = LastFallback
      <4>. SUFFICES ASSUME bus = 0, g_devices # <<>> PROVE FALSE
        BY DEF RootInv
      <4>1. 1 \in DOMAIN g_devices
        BY <1>1
      <4>. DEFINE a == g_devices[1].at
      <4>2. a[1] = 0
        BY <4>1 DEF TreeInv, EntriesBehindBridges
      <4>3. a \in Exist
        BY <1>2, <4>1, <4>2 DEF TableInv, Exist
      <4>. QED  BY <1>5, <2>2, <4>2, <4>3
    <3>2. Roots = 1 .. LastFallback
      BY <1>5, <2>2 DEF Roots
    <3>. QED  BY <3>1, <3>2, Bounds
  <2>. QED  BY <2>1, <2>2
<1>8. ASSUME Len(g_devices) < PCI_MAX_DEVICES PROVE Reachable \subseteq Listed
  <2>. DEFINE S == {b \in Buses : \A x \in Exist : x[1] = b => x \in Listed}
  <2>1. \A x \in Exist : Started(x[1]) => x \in Listed
    BY <1>1, <1>8, NothingAhead
  <2>2. Roots \subseteq S
    <3>1. \A c \in Roots : c \in Buses
      BY Bounds DEF Roots
    <3>2. \A c : c \in Roots => Started(c)
      BY <1>1, <1>7 DEF Started
    <3>. QED  BY <2>1, <3>1, <3>2
  <2>3. ASSUME NEW a \in Exist, a[1] \in S, conf[a].secondary # 0
        PROVE  conf[a].secondary \in S
    <3>1. a \in Listed
      BY <2>3
    <3>2. Started(conf[a].secondary)
      BY <2>3, <3>1 DEF Started, Listed
    <3>3. conf[a].secondary \in Buses
      BY <1>1 DEF MachineIs, Exist
    <3>. QED  BY <2>1, <3>2, <3>3
  <2>4. Closed(S) /\ S \in SUBSET Buses
    BY <2>2, <2>3 DEF Closed
  <2>5. \A a \in Reachable : a \in Exist /\ a[1] \in S
    BY <2>4 DEF Reachable
  <2>. QED  BY <2>5
<1>9. Reachable \subseteq Listed \/ Len(g_devices) = PCI_MAX_DEVICES
  <2>1. Len(g_devices) \in Nat /\ PCI_MAX_DEVICES \in Nat
    BY <1>1, Bounds
  <2>2. Len(g_devices) < PCI_MAX_DEVICES \/ Len(g_devices) = PCI_MAX_DEVICES
    BY <1>3, <2>1
  <2>. QED  BY <1>8, <2>2
<1>10. ASSUME 0 \in Roots, NEW i \in DOMAIN g_devices, NEW j \in DOMAIN g_devices
       PROVE  /\ g_devices[i].at = g_devices[j].at => i = j
              /\ conf[g_devices[i].at].secondary = g_devices[j].at[1] /\ g_devices[j].at[1] # 0
                   => i < j
  <2>1. EntriesBehindBridges /\ Distinct
    BY <1>6, <1>10 DEF TreeInv
  <2>2. ASSUME conf[g_devices[i].at].secondary = g_devices[j].at[1], g_devices[j].at[1] # 0
        PROVE  i < j
    <3>1. PICK k \in 1 .. (j - 1) : conf[g_devices[k].at].secondary = g_devices[j].at[1]
      BY <2>1, <2>2 DEF EntriesBehindBridges
    <3>2. k \in DOMAIN g_devices /\ k < j
      BY <1>1
    <3>3. g_devices[k].at = g_devices[i].at
      BY <1>1, <1>2, <2>2, <3>1, <3>2 DEF MachineIs
    <3>. QED  BY <2>1, <3>2, <3>3 DEF Distinct
  <2>. QED  BY <2>1, <2>2 DEF Distinct
<1>. QED  BY <1>3, <1>4, <1>9, <1>10 DEF TableExact
----------------------------------------------------------------------------
(***************************************************************************)
(* The BAR.                                                                *)
(***************************************************************************)

LEMMA DivBounds ==
    ASSUME NEW x \in Nat, NEW d \in Nat \ {0}
    PROVE  x \div d \in Nat /\ d * (x \div d) <= x /\ x < d * (x \div d) + d
BY SMT

LEMMA DivIs ==
    ASSUME NEW d \in Nat \ {0}, NEW q \in Nat, NEW r \in 0 .. (d - 1)
    PROVE  (d * q + r) \div d = q
<1>. DEFINE x == d * q + r
            quo == x \div d
<1>1. x \in Nat /\ d * q <= x /\ x < d * q + d
  OBVIOUS
<1>. HIDE DEF x
<1>2. quo \in Nat /\ d * quo <= x /\ x < d * quo + d
  BY <1>1, DivBounds
<1>. HIDE DEF quo
<1>3. d * quo < d * q + d /\ d * q < d * quo + d
  BY <1>1, <1>2
<1>4. quo < q + 1 /\ q < quo + 1
  BY <1>2, <1>3
<1>5. quo = q
  BY <1>2, <1>4
<1>. QED  BY <1>5 DEF quo, x

LEMMA Multiple ==
    ASSUME NEW x \in Nat, NEW d \in Nat \ {0}, x % d = 0
    PROVE  \E q \in Nat : x = d * q
<1>1. x = d * (x \div d)
  BY SMT
<1>. QED  BY <1>1, DivBounds

LEMMA Sixteen ==
    ASSUME NEW t \in Nat, NEW f \in 0 .. 15
    PROVE  Base(16 * t + f) = 16 * t /\ (f = 15 => (16 * t + f) % 2 = 1)
BY DEF Base

\* A BAR by its quotients.
LEMMA BarParts ==
    ASSUME NEW b \in Bars
    PROVE  /\ b.base \in Nat /\ b.size \in Nat \ {0} /\ b.flags \in 0 .. 15
           /\ BarSpace \in Nat \ {0} /\ PageSize \in Nat \ {0}
           /\ b.base + b.size <= BarSpace /\ b.size >= 16
           /\ \E q \in Nat : b.base = b.size * q
           /\ \E s \in Nat : b.size = 16 * s
           /\ \E n \in Nat \ {0} : BarSpace = b.size * n
           /\ (\E m \in Nat : b.size = PageSize * m) \/ (\E m \in Nat : PageSize = b.size * m)
<1>1. /\ BarSpace \in Nat \ {0} /\ PageSize \in Nat \ {0}
      /\ b \in [base : Nat, size : Nat \ {0}, flags : 0 .. 15]
      /\ b.base % b.size = 0 /\ b.base + b.size <= BarSpace
      /\ b.size % 16 = 0 /\ BarSpace % b.size = 0
      /\ b.size % PageSize = 0 \/ PageSize % b.size = 0
  BY BarsAssumption
<1>2. b.base \in Nat /\ b.size \in Nat \ {0} /\ b.flags \in 0 .. 15
  BY <1>1
<1>3. \E q \in Nat : b.base = b.size * q
  BY <1>1, <1>2, Multiple
<1>4. PICK s \in Nat : b.size = 16 * s
  BY <1>1, <1>2, Multiple
<1>5. PICK n \in Nat : BarSpace = b.size * n
  BY <1>1, <1>2, Multiple
<1>6. n # 0
  BY <1>1, <1>2, <1>5
<1>7. (\E m \in Nat : b.size = PageSize * m) \/ (\E m \in Nat : PageSize = b.size * m)
  BY <1>1, <1>2, Multiple
<1>8. b.size >= 16
  BY <1>2, <1>4
<1>. QED  BY <1>1, <1>2, <1>3, <1>4, <1>5, <1>6, <1>7, <1>8

\* A BAR in the device, read, and read back after all ones were written.
LEMMA BarReads ==
    ASSUME hw \in Bars
    PROVE  /\ hw.base + hw.flags \in Nat /\ Base(hw.base + hw.flags) = hw.base
           /\ Written(hw.base + hw.flags) = hw.base + hw.flags
           /\ Written(BarSpace - 1) = BarSpace - hw.size + hw.flags
           /\ Base(BarSpace - hw.size + hw.flags) = BarSpace - hw.size
           /\ hw.flags = 15 => (hw.base + hw.flags) % 2 = 1
<1>. DEFINE base == hw.base
            size == hw.size
            flags == hw.flags
<1>1. /\ base \in Nat /\ size \in Nat \ {0} /\ flags \in 0 .. 15 /\ BarSpace \in Nat \ {0}
      /\ size >= 16 /\ base + size <= BarSpace
  BY BarParts
<1>2. PICK q \in Nat : base = size * q
  BY BarParts
<1>3. PICK s \in Nat : size = 16 * s
  BY BarParts
<1>4. PICK n \in Nat \ {0} : BarSpace = size * n
  BY BarParts
<1>w. \A v : Written(v) = (v \div size) * size + flags
  BY DEF Written
<1>. HIDE DEF base, size, flags
<1>5. Base(base + flags) = base /\ (flags = 15 => (base + flags) % 2 = 1)
  <2>1. s * q \in Nat /\ base = 16 * (s * q)
    BY <1>2, <1>3
  <2>. QED  BY <1>1, <2>1, Sixteen
<1>6. Written(base + flags) = base + flags
  <2>1. flags \in 0 .. (size - 1)
    BY <1>1
  <2>2. (size * q + flags) \div size = q
    BY <1>1, <2>1, DivIs
  <2>. QED  BY <1>1, <1>2, <1>w, <2>2
<1>7. Written(BarSpace - 1) = BarSpace - size + flags
  <2>1. n - 1 \in Nat /\ size - 1 \in 0 .. (size - 1)
    BY <1>1
  <2>2. (size * (n - 1) + (size - 1)) \div size = n - 1
    BY <1>1, <2>1, DivIs
  <2>3. BarSpace - 1 = size * (n - 1) + (size - 1) /\ (n - 1) * size = BarSpace - size
    BY <1>1, <1>4
  <2>. QED  BY <1>w, <2>2, <2>3
<1>8. Base(BarSpace - size + flags) = BarSpace - size
  <2>1. s * (n - 1) \in Nat /\ BarSpace - size = 16 * (s * (n - 1))
    <3>1. n - 1 \in Nat
      BY <1>4
    <3>2. BarSpace - size = size * (n - 1)
      BY <1>1, <1>4
    <3>. QED  BY <1>3, <3>1, <3>2
  <2>. QED  BY <1>1, <2>1, Sixteen
<1>. QED  BY <1>1, <1>5, <1>6, <1>7, <1>8 DEF base, size, flags

\* pci_bar_size tells the size, unless the BAR is at address 0.
LEMMA SizeIs ==
    ASSUME hw \in Bars, NEW v, v = hw.base + hw.flags, v # 0, v % 2 = 0, hw.base # 0,
           bar = BarSpace - hw.size + hw.flags
    PROVE  /\ bar \notin {0, BarSpace - 1} /\ (BarSpace - Base(bar)) % BarSpace = hw.size
           /\ hw.size # 0
<1>1. /\ hw.base \in Nat /\ hw.size \in Nat \ {0} /\ hw.flags \in 0 .. 15
      /\ BarSpace \in Nat \ {0} /\ hw.size >= 16 /\ hw.base + hw.size <= BarSpace
  BY BarParts
<1>2. Base(bar) = BarSpace - hw.size /\ (hw.flags = 15 => v % 2 = 1)
  BY BarReads
<1>3. hw.size < BarSpace /\ hw.flags # 15
  BY <1>1, <1>2
<1>. DEFINE size == hw.size
            flags == hw.flags
<1>4. /\ bar = BarSpace - size + flags /\ flags # 15 /\ Base(bar) = BarSpace - size
      /\ size \in Nat \ {0} /\ flags \in 0 .. 15 /\ BarSpace \in Nat /\ size >= 16
      /\ size < BarSpace
  BY <1>1, <1>2, <1>3
<1>. HIDE DEF size, flags
<1>5. bar # 0 /\ bar # BarSpace - 1
  BY <1>4
<1>6. BarSpace - Base(bar) = size
  BY <1>4
<1>7. size % BarSpace = size
  BY <1>4
<1>. QED  BY <1>4, <1>5, <1>6, <1>7 DEF size

\* The registers are in the run of pages that ehci_init counts.
LEMMA RunCovers ==
    ASSUME hw \in Bars, bar_size = hw.size,
           NEW x \in hw.base .. (hw.base + hw.size - 1)
    PROVE  x \div PageSize \in Run(Pages)
<1>. DEFINE base == hw.base
            size == hw.size
            P == PageSize
            u == base \div P
            v == x \div P
<1>1. base \in Nat /\ size \in Nat \ {0} /\ P \in Nat \ {0}
  BY BarParts
<1>2. PICK q \in Nat : base = size * q
  BY BarParts
<1>3. x \in Nat /\ base <= x /\ x < base + size
  BY <1>1
<1>4. (\E m \in Nat : size = P * m) \/ (\E m \in Nat : P = size * m)
  BY BarParts
<1>p. Pages = (size + P - 1) \div P /\ (v \in u .. (u + Pages - 1) => v \in Run(Pages))
  BY DEF Pages, Run, First
<1>. HIDE DEF base, size, P, v, u
<1>5. v \in Nat /\ P * v <= x /\ x < P * v + P
  BY <1>1, <1>3, DivBounds DEF v
<1>6. u \in Nat /\ P * u <= base /\ base < P * u + P
  BY <1>1, DivBounds DEF u
<1>7. u <= v
  <2>1. P * u < P * v + P
    BY <1>1, <1>3, <1>5, <1>6
  <2>2. u < v + 1
    BY <1>1, <1>5, <1>6, <2>1
  <2>. QED  BY <1>5, <1>6, <2>2
<1>8. ASSUME NEW m \in Nat, size = P * m PROVE v \in u .. (u + Pages - 1)
  <2>1. size + P - 1 = P * m + (P - 1) /\ P - 1 \in 0 .. (P - 1)
    BY <1>1, <1>8
  <2>2. Pages = m
    BY <1>1, <1>p, <2>1, DivIs
  <2>3. m * q \in Nat /\ base = P * (m * q) /\ 0 \in 0 .. (P - 1)
    BY <1>1, <1>2, <1>8
  <2>4. (P * (m * q) + 0) \div P = m * q
    BY <1>1, <2>3, DivIs
  <2>5. u = m * q
    BY <2>3, <2>4 DEF u
  <2>6. P * v < P * (u + m)
    BY <1>1, <1>3, <1>5, <1>8, <2>3, <2>5
  <2>7. v < u + m
    BY <1>1, <1>5, <1>6, <2>6
  <2>. QED  BY <1>5, <1>6, <1>7, <2>2, <2>7
<1>9. ASSUME NEW m \in Nat, P = size * m PROVE v \in u .. (u + Pages - 1)
  <2>1. m > 0 /\ size <= P
    BY <1>1, <1>9
  <2>2. size + P - 1 = P * 1 + (size - 1) /\ size - 1 \in 0 .. (P - 1)
    BY <1>1, <2>1
  <2>3. Pages = 1
    BY <1>1, <1>p, <2>2, DivIs
  <2>4. size * q < size * (m * (u + 1))
    BY <1>1, <1>2, <1>6, <1>9
  <2>5. q + 1 <= m * (u + 1)
    BY <1>1, <1>6, <2>4
  <2>6. size * (q + 1) <= size * (m * (u + 1))
    BY <1>1, <1>6, <2>5
  <2>7. base + size <= P * (u + 1)
    BY <1>1, <1>2, <1>6, <1>9, <2>6
  <2>8. P * v < P * (u + 1)
    BY <1>1, <1>3, <1>5, <1>6, <2>7
  <2>9. v < u + 1
    BY <1>1, <1>5, <1>6, <2>8
  <2>. QED  BY <1>5, <1>6, <1>7, <2>3, <2>9
<1>10. v \in u .. (u + Pages - 1)
  BY <1>4, <1>8, <1>9
<1>. QED  BY <1>p, <1>10 DEF v, P

\* pci_find_ehci returns an entry whose function is an EHCI controller.
LEMMA FoundIs ==
    ASSUME PciType, TableInv, pci_find_ehci # <<>>
    PROVE  conf[pci_find_ehci[1].at].kind = "ehci"
<1>. DEFINE hits == {i \in DOMAIN g_devices : g_devices[i].kind = "ehci"}
            i == CHOOSE j \in hits : \A k \in hits : j <= k
<1>1. hits # {} /\ pci_find_ehci[1] = g_devices[i]
  BY DEF pci_find_ehci, pci_find
<1>2. hits \in SUBSET Nat
  BY DEF PciType
<1>3. i \in hits
  BY <1>1, <1>2, LeastNat
<1>. HIDE DEF i
<1>. QED  BY <1>1, <1>3 DEF TableInv

LEMMA BarInit == PciInit => BarInv
<1>. SUFFICES ASSUME PciInit PROVE BarInv  OBVIOUS
<1>1. g_ehci_found = FALSE /\ pci_pc = "pci_init" /\ mapped = {} /\ g_ehci_mmio = 0
  BY DEF PciInit
<1>. QED  BY <1>1 DEF BarInv, WindowMapped

\* While nothing of ehci_init runs, its variables rest.
LEMMA BarRests ==
    ASSUME BarInv, UNCHANGED <<conf, ehci>>, pci_pc' = pci_pc \/ {pci_pc, pci_pc'} \subseteq {"pci_init", "scanning", "found"}
    PROVE  BarInv'
BY DEF BarInv, ehci, BarRead, First, Run, Written, WindowMapped

LEMMA EhciInitBar == ASSUME ScanInv, BarInv, ehci_init_begin PROVE BarInv'
<1>1. /\ pci_pc = "found" /\ UNCHANGED conf
      /\ mapped = {} /\ g_ehci_mmio = 0
  BY DEF ehci_init_begin, BarInv
<1>2. CASE pci_find_ehci = <<>>
  BY <1>1, <1>2 DEF ehci_init_begin, ehci, BarInv, WindowMapped
<1>3. CASE pci_find_ehci # <<>>
  <2>1. /\ g_ehci_dev' = pci_find_ehci[1].at
        /\ hw' \in Bars /\ bar' = hw'.base + hw'.flags
        /\ IF bar' = 0 \/ bar' = BarSpace - 1 \/ bar' % 2 = 1
           THEN pci_pc' = "end" /\ g_ehci_found' = FALSE
           ELSE pci_pc' = "size" /\ g_ehci_found' = TRUE
        /\ UNCHANGED <<g_ehci_mmio, orig, bar_size, mapped>>
    BY <1>3 DEF ehci_init_begin
  <2>2. conf[g_ehci_dev'].kind = "ehci"
    BY <1>3, <2>1, FoundIs DEF ScanInv
  <2>3. pci_pc' = "size" => bar' # 0 /\ bar' % 2 = 0
    <3>1. hw'.base \in Nat /\ hw'.flags \in 0 .. 15
      BY <2>1, BarParts
    <3>2. bar' \in Nat
      BY <2>1, <3>1
    <3>. QED  BY <2>1, <3>2
  <2>. QED  BY <1>1, <2>1, <2>2, <2>3 DEF BarInv, WindowMapped
<1>. QED  BY <1>2, <1>3

LEMMA SizeWriteBar == ASSUME BarInv, SizeWrite PROVE BarInv'
<1>1. /\ pci_pc = "size" /\ orig' = bar /\ bar' = Written(BarSpace - 1) /\ pci_pc' = "sizing"
      /\ UNCHANGED <<conf, g_ehci_dev, g_ehci_found, g_ehci_mmio, hw, mapped>>
  BY DEF SizeWrite
<1>2. Written(BarSpace - 1)' = Written(BarSpace - 1)
  BY <1>1 DEF Written
<1>. QED  BY <1>1, <1>2 DEF BarInv, BarRead, WindowMapped

LEMMA SizeReadBar == ASSUME BarInv, SizeRead PROVE BarInv'
<1>1. /\ pci_pc = "sizing" /\ pci_pc' = "map" /\ bar' = Written(orig)
      /\ UNCHANGED <<conf, g_ehci_dev, g_ehci_found, g_ehci_mmio, hw, orig, mapped>>
  BY DEF SizeRead
<1>. DEFINE size == IF bar \in {0, BarSpace - 1} THEN 0 ELSE (BarSpace - Base(bar)) % BarSpace
<1>2. bar_size' = IF size = 0 THEN PageSize ELSE size
  BY DEF SizeRead
<1>3. /\ hw \in Bars /\ BarRead /\ bar = Written(BarSpace - 1) /\ g_ehci_found
      /\ mapped = {} /\ g_ehci_mmio = 0
  BY <1>1 DEF BarInv
<1>4. bar = BarSpace - hw.size + hw.flags /\ Base(bar) = BarSpace - hw.size /\ bar' = orig
  BY <1>1, <1>3, BarReads DEF BarRead
<1>5. bar_size' \in Nat
  <2>1. hw.size \in Nat /\ BarSpace \in Nat \ {0} /\ PageSize \in Nat
    BY <1>3, BarParts
  <2>2. size \in Nat
    <3>1. BarSpace - Base(bar) \in Nat
      BY <1>4, <2>1
    <3>2. (BarSpace - Base(bar)) % BarSpace \in Nat
      BY <2>1, <3>1
    <3>. QED  BY <3>2
  <2>. HIDE DEF size
  <2>. QED  BY <1>2, <2>1, <2>2
<1>6. hw.base # 0 => bar_size' = hw.size
  <2>. SUFFICES ASSUME hw.base # 0 PROVE bar_size' = hw.size  OBVIOUS
  <2>1. bar \notin {0, BarSpace - 1} /\ (BarSpace - Base(bar)) % BarSpace = hw.size /\ hw.size # 0
    BY <1>3, <1>4, SizeIs DEF BarRead
  <2>. QED  BY <1>2, <2>1
<1>7. mapped = Run(0)
  <2>1. hw.base \in Nat /\ PageSize \in Nat \ {0}
    BY <1>3, BarParts
  <2>2. First \in Nat
    BY <2>1, DivBounds DEF First
  <2>. QED  BY <1>3, <2>2 DEF Run
<1>8. Run(0)' = Run(0)
  BY <1>1 DEF Run, First
<1>9. BarRead'
  BY <1>1, <1>3 DEF BarRead
<1>10. \E n \in Nat : mapped' = Run(n)'
  BY <1>1, <1>7, <1>8
<1>. HIDE DEF size
<1>. QED
  BY <1>1, <1>3, <1>4, <1>5, <1>6, <1>9, <1>10 DEF BarInv, WindowMapped

\* How many pages are mapped, and what one more makes.
LEMMA RunIs ==
    ASSUME hw \in Bars, NEW n \in Nat
    PROVE  /\ Cardinality(Run(n)) = n /\ First \in Nat
           /\ Run(n) \cup {First + n} = Run(n + 1)
<1>1. First \in Nat
  BY BarParts, DivBounds DEF First
<1>2. First \in Int /\ First + n - 1 \in Int
  BY <1>1
<1>3. Cardinality(Run(n)) = IF First > First + n - 1 THEN 0 ELSE First + n - 1 - First + 1
  BY <1>2, FS_Interval DEF Run
<1>. HIDE DEF First
<1>4. Cardinality(Run(n)) = n
  BY <1>1, <1>3
<1>5. Run(n) \cup {First + n} = Run(n + 1)
  BY <1>1 DEF Run
<1>. QED  BY <1>1, <1>4, <1>5

LEMMA MapPageBar == ASSUME BarInv, MapPage PROVE BarInv'
<1>1. /\ pci_pc = "map" /\ UNCHANGED <<conf, g_ehci_dev, bar, hw, orig, bar_size>>
      /\ \/ /\ mapped' = mapped \cup {Base(orig) \div PageSize + Cardinality(mapped)}
            /\ UNCHANGED <<pci_pc, g_ehci_found, g_ehci_mmio>>
         \/ /\ g_ehci_found' = FALSE /\ g_ehci_mmio' = 0 /\ pci_pc' = "end"
  BY DEF MapPage
<1>2. /\ hw \in Bars /\ BarRead /\ bar = orig /\ bar_size \in Nat /\ g_ehci_found
      /\ (hw.base # 0 => bar_size = hw.size)
  BY <1>1 DEF BarInv
<1>3. CASE g_ehci_found' = FALSE /\ g_ehci_mmio' = 0 /\ pci_pc' = "end"
  BY <1>1, <1>3 DEF BarInv, WindowMapped
<1>4. CASE /\ mapped' = mapped \cup {Base(orig) \div PageSize + Cardinality(mapped)}
           /\ UNCHANGED <<pci_pc, g_ehci_found, g_ehci_mmio>>
  <2>1. PICK n \in Nat : mapped = Run(n)
    BY <1>1 DEF BarInv
  <2>2. Base(orig) = hw.base
    BY <1>2, BarReads DEF BarRead
  <2>3. mapped' = Run(n + 1) /\ n + 1 \in Nat
    BY <1>2, <1>4, <2>1, <2>2, RunIs DEF First
  <2>4. Run(n + 1)' = Run(n + 1)
    BY <1>1 DEF Run, First
  <2>5. \E m \in Nat : mapped' = Run(m)'
    BY <2>3, <2>4
  <2>6. BarRead' /\ hw' \in Bars /\ bar' = orig' /\ bar_size' \in Nat
        /\ (hw'.base # 0 => bar_size' = hw'.size)
    BY <1>1, <1>2 DEF BarRead
  <2>7. g_ehci_mmio = 0
    BY <1>1 DEF BarInv
  <2>. QED  BY <1>1, <1>2, <1>4, <2>5, <2>6, <2>7 DEF BarInv, WindowMapped
<1>. QED  BY <1>1, <1>3, <1>4

LEMMA MappedBar == ASSUME BarInv, Mapped PROVE BarInv'
<1>1. /\ pci_pc = "map" /\ Cardinality(mapped) = Pages /\ g_ehci_mmio' = Base(orig) /\ pci_pc' = "end"
      /\ UNCHANGED <<conf, g_ehci_dev, g_ehci_found, bar, hw, orig, bar_size, mapped>>
  BY DEF Mapped
<1>2. /\ hw \in Bars /\ BarRead /\ bar = orig /\ g_ehci_found
      /\ (hw.base # 0 => bar_size = hw.size)
      /\ conf[g_ehci_dev].kind = "ehci"
  BY <1>1 DEF BarInv
<1>3. PICK n \in Nat : mapped = Run(n)
  BY <1>1 DEF BarInv
<1>4. Base(orig) = hw.base /\ n = Pages
  BY <1>1, <1>2, <1>3, BarReads, RunIs DEF BarRead
<1>5. ASSUME hw.base # 0, NEW x \in hw.base .. (hw.base + hw.size - 1)
      PROVE  x \div PageSize \in mapped
  BY <1>2, <1>3, <1>4, <1>5, RunCovers
<1>6. WindowMapped'
  BY <1>1, <1>2, <1>4, <1>5 DEF WindowMapped, BarRead
<1>. QED  BY <1>1, <1>2, <1>6 DEF BarInv

LEMMA BarNext == ScanInv /\ BarInv /\ [PciNext]_pciVars => BarInv'
<1>. SUFFICES ASSUME ScanInv, BarInv, [PciNext]_pciVars PROVE BarInv'  OBVIOUS
<1>1. CASE pci_init \/ NextBus \/ scan_function \/ LoopEnds \/ UNCHANGED pciVars
  <2>1. /\ UNCHANGED <<conf, ehci>>
        /\ pci_pc' = pci_pc \/ {pci_pc, pci_pc'} \subseteq {"pci_init", "scanning", "found"}
    BY <1>1 DEF pci_init, NextBus, scan_function, LoopEnds, pciVars
  <2>. QED  BY <2>1, BarRests
<1>. QED
  BY <1>1, EhciInitBar, SizeWriteBar, SizeReadBar, MapPageBar, MappedBar DEF PciNext, Step
----------------------------------------------------------------------------
\* The scan: loops, table and the buses they come from, at every step
\* (scan_function, scan_bus, pci_init); the way of the BAR through ehci_init.
THEOREM PciInvariant == PciSpec => [](ScanInv /\ BarInv)
<1>1. ScanInv /\ BarInv /\ [PciNext]_pciVars => ScanInv' /\ BarInv'
  BY ScanNext, BarNext
<1>. QED  BY ScanInit, BarInit, <1>1, PTL DEF PciSpec

\* The table of pci_init has every function on a bus that chains of bridges
\* lead to, once and behind its bridge, as long as it has room.
THEOREM TableIsExact == PciSpec => []TableExact
BY PciInvariant, ScanResult, PTL

\* The registers of the controller that ehci_init takes are mapped, all of
\* them, and its BAR is as the firmware left it (pci_bar_size, ehci_init).
THEOREM WindowIsMapped == PciSpec => []WindowMapped
<1>1. BarInv => WindowMapped
  BY DEF BarInv
<1>. QED  BY PciInvariant, <1>1, PTL
=============================================================================
