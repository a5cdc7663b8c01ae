------------------------------ MODULE EhciPort ------------------------------
(***************************************************************************)
(* The ports of the EHCI controller (src/kernel/drivers/usb/ehci.c,        *)
(* 351-525): the reset of a port, read by read and write by write of       *)
(* PORTSC, while devices come and go, and the choice of the port a control *)
(* transfer goes to.  The port hardware and the devices are external.      *)
(*                                                                         *)
(* A write of PORTSC that leaves out PED disables the port; one that       *)
(* leaves out PP switches its power off where the controller has power     *)
(* switches.  CSC and PEDC, cleared by writing them, are one bit here.     *)
(*                                                                         *)
(* Names that Ehci has too begin with port, so that a module can extend    *)
(* both.                                                                   *)
(***************************************************************************)
EXTENDS Integers

CONSTANTS
    NumPorts,   \* g_num_ports
    MaxDevices, \* bound: devices ever plugged in
    HighSpeed   \* those of them that are high-speed

VARIABLES
    switches,   \* the controller has port power switches
    port,       \* per port: device (0 none), PED, PR, PP, changed
    devices,    \* devices plugged in so far
    port_pc,    \* the next step of the call under way, "idle" between calls
    p,          \* the port of the call
    portsc,     \* what the driver read of it last
    port_ret,   \* what the call returned
    wasReset,   \* ghost: devices that went through a reset
    fresh       \* ghost: those that did during the call

portVars == <<switches, port, devices, port_pc, p, portsc, port_ret, wasReset, fresh>>
portDriver == <<port_pc, p, portsc, port_ret>>
portGhosts == <<wasReset, fresh>>

Ports == 0 .. NumPorts - 1
Devices == 1 .. MaxDevices
Port == [device : Devices \cup {0}, PED : BOOLEAN,
         PR : {"off", "rising", "on", "falling"}, PP : BOOLEAN, changed : BOOLEAN]
Empty == [device |-> 0, PED |-> FALSE, PR |-> "off", PP |-> TRUE, changed |-> FALSE]

ASSUME PortsAssumption ==
    NumPorts \in 1 .. 15 /\ MaxDevices \in Nat /\ HighSpeed \subseteq Devices

\* Behind ehci_init_controller; devices are noticed one by one.
PortInit ==
    /\ switches \in BOOLEAN
    /\ port = [x \in Ports |-> Empty] /\ devices = 0
    /\ port_pc = "idle" /\ p = 0 /\ portsc = Empty /\ port_ret = 0
    /\ wasReset = {} /\ fresh = {}
----------------------------------------------------------------------------
\* The port hardware.  CCS is 0 without power; PR reads as 1 from some time
\* after it is set to some time after it is cleared.

CCS(x) == x.device # 0 /\ x.PP
PR(x) == x.PR \in {"on", "falling"}

Plug(x) ==
    /\ port[x].device = 0 /\ port[x].PR = "off" /\ devices < MaxDevices
    /\ devices' = devices + 1
    /\ port' = [port EXCEPT ![x].device = devices + 1, ![x].changed = TRUE]
    /\ UNCHANGED <<switches, portDriver, portGhosts>>
Unplug(x) ==
    /\ port[x].device # 0
    /\ port' = [port EXCEPT ![x].device = 0, ![x].PED = FALSE, ![x].changed = TRUE]
    /\ UNCHANGED <<switches, devices, portDriver, portGhosts>>
ResetBegins(x) ==
    /\ port[x].PR = "rising"
    /\ port' = [port EXCEPT ![x].PR = "on"]
    /\ UNCHANGED <<switches, devices, portDriver, portGhosts>>

\* A high-speed device that is there at the end of the reset is enabled.
ResetEnds(x) ==
    LET d == port[x].device IN
    /\ port[x].PR = "falling"
    /\ port' = [port EXCEPT ![x].PR = "off", ![x].PED = d \in HighSpeed]
    /\ wasReset' = wasReset \cup ({d} \ {0}) /\ fresh' = fresh \cup ({d} \ {0})
    /\ UNCHANGED <<switches, devices, portDriver>>
Hardware(x) == Plug(x) \/ Unplug(x) \/ ResetBegins(x) \/ ResetEnds(x)

\* A write of PORTSC: PED can only be cleared, PP only where there is a
\* switch, the change bits by writing them.
Write(old, PEDbit, PRbit, PPbit, clear) ==
    LET power == PPbit \/ ~switches
    IN  [device |-> old.device,
         PED |-> old.PED /\ PEDbit /\ power /\ ~PRbit,
         PP |-> power,
         PR |-> IF ~power \/ (~PRbit /\ old.PR = "rising") THEN "off"
                ELSE IF PRbit /\ old.PR = "off" THEN "rising"
                ELSE IF ~PRbit /\ old.PR = "on" THEN "falling"
                ELSE old.PR,
         changed |-> old.changed /\ ~clear]
----------------------------------------------------------------------------
\* ehci_reset_port_checked.

PortReturn(rc) == port_pc' = "idle" /\ port_ret' = rc
Continue(step) == port_pc' = step /\ UNCHANGED port_ret

\* A call for a port that does not exist returns at once.
NoSuchPort ==
    /\ port_pc = "idle"
    /\ port_ret' = -1 /\ fresh' = {}
    /\ UNCHANGED <<switches, port, devices, port_pc, p, portsc, wasReset>>
ehci_reset_port(x) ==
    /\ port_pc = "idle"
    /\ p' = x /\ portsc' = port[x] /\ fresh' = {}
    /\ IF CCS(port[x]) THEN Continue("power") ELSE PortReturn(-1)
    /\ UNCHANGED <<switches, port, devices, wasReset>>

\* Power is switched on if it is off, and the device must still be there.
PowerOn ==
    /\ port_pc = "power"
    /\ port' = IF portsc.PP THEN port
               ELSE [port EXCEPT ![p] = Write(@, portsc.PED, FALSE, TRUE, FALSE)]
    /\ portsc' = port'[p]
    /\ IF CCS(port'[p]) THEN Continue("clear") ELSE PortReturn(-1)
    /\ UNCHANGED <<switches, devices, p, portGhosts>>

\* Only the change bits are written: PED and PP are written as 0.
ehci_clear_port_changes ==
    /\ port_pc = "clear"
    /\ port' = IF portsc.changed
               THEN [port EXCEPT ![p] = Write(@, FALSE, FALSE, FALSE, TRUE)] ELSE port
    /\ Continue("assert")
    /\ UNCHANGED <<switches, devices, p, portsc, portGhosts>>
AssertReset ==
    /\ port_pc = "assert"
    /\ port' = [port EXCEPT ![p] = Write(@, @.PED, TRUE, @.PP, FALSE)]
    /\ Continue("asserted")
    /\ UNCHANGED <<switches, devices, p, portsc, portGhosts>>
WaitAsserted ==
    /\ port_pc = "asserted"
    /\ IF PR(port[p]) THEN Continue("hold") ELSE PortReturn(-1)
    /\ UNCHANGED <<switches, port, devices, p, portsc, portGhosts>>

\* After the hold time.
ReleaseReset ==
    /\ port_pc = "hold"
    /\ port' = [port EXCEPT ![p] = Write(@, @.PED, FALSE, @.PP, FALSE)]
    /\ Continue("released")
    /\ UNCHANGED <<switches, devices, p, portsc, portGhosts>>
WaitReleased ==
    /\ port_pc = "released"
    /\ portsc' = port[p]
    /\ IF PR(port[p]) THEN PortReturn(-1) ELSE Continue("enabled")
    /\ UNCHANGED <<switches, port, devices, p, portGhosts>>

\* MUTANT: a port that is not enabled is reported as ready.
Result_NoPed(x) == IF ~CCS(x) THEN -1 ELSE 0
\* The last read decides: no device, not enabled, or ready.
Result(x) == IF ~CCS(x) THEN -1 ELSE IF ~x.PED THEN -2 ELSE 0

\* PED is waited for; the last read decides, also at the timeout.
WaitEnabled ==
    /\ port_pc = "enabled"
    /\ portsc' = port[p]
    /\ PortReturn(Result(port[p]))
    /\ UNCHANGED <<switches, port, devices, p, portGhosts>>
----------------------------------------------------------------------------
\* The port of a control transfer: the first that is connected, by its own
\* read; it must be enabled, by another.

ehci_control_transfer ==
    /\ port_pc = "idle"
    /\ p' = 0 /\ fresh' = {} /\ Continue("find")
    /\ UNCHANGED <<switches, port, devices, portsc, wasReset>>
ehci_find_device_port ==
    /\ port_pc = "find"
    /\ \/ CCS(port[p]) /\ Continue("check") /\ UNCHANGED p
       \/ ~CCS(port[p]) /\ p + 1 \in Ports /\ p' = p + 1 /\ Continue("find")
       \/ ~CCS(port[p]) /\ p + 1 \notin Ports /\ PortReturn(-1) /\ UNCHANGED p
    /\ UNCHANGED <<switches, port, devices, portsc, portGhosts>>

\* MUTANT: the port is not tested for being enabled.
CheckEnabled_Connected ==
    /\ port_pc = "check"
    /\ portsc' = port[p]
    /\ IF CCS(port[p]) THEN Continue("transfer") ELSE PortReturn(-1)
    /\ UNCHANGED <<switches, port, devices, p, portGhosts>>
CheckEnabled ==
    /\ port_pc = "check"
    /\ portsc' = port[p]
    /\ IF port[p].PED THEN Continue("transfer") ELSE PortReturn(-1)
    /\ UNCHANGED <<switches, port, devices, p, portGhosts>>
Transfer ==
    /\ port_pc = "transfer"
    /\ \E rc \in {0, -1} : PortReturn(rc)
    /\ UNCHANGED <<switches, port, devices, p, portsc, portGhosts>>
----------------------------------------------------------------------------
Reset ==
    \/ PowerOn \/ ehci_clear_port_changes \/ AssertReset \/ WaitAsserted
    \/ ReleaseReset \/ WaitReleased \/ WaitEnabled
PortNext ==
    \/ \E x \in Ports : Hardware(x) \/ ehci_reset_port(x)
    \/ NoSuchPort \/ Reset
    \/ ehci_control_transfer \/ ehci_find_device_port \/ CheckEnabled \/ Transfer

PortSpec == PortInit /\ [][PortNext]_portVars
----------------------------------------------------------------------------
\* A reset that reports success, or a device that is not high-speed, was
\* decided from one read of a connected port; success means that the device
\* seen in it went through a reset in this very call and is high-speed, even
\* when devices were exchanged on the way.
ResetReportTrue ==
    [][port_pc = "enabled" /\ port_pc' = "idle" =>
        /\ port_ret' = 0 => portsc'.device \in fresh \cap HighSpeed
        /\ port_ret' = -2 => CCS(portsc') /\ ~PR(portsc')]_portVars

\* A transfer is started only when the port it found has a device that was
\* reset since it was plugged in, whatever was unplugged between the two
\* reads.
TransferTargetWasReset == port_pc = "transfer" => portsc.device \in wasReset
=============================================================================
