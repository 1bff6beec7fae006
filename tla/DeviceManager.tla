----------------------------- MODULE DeviceManager -----------------------------
(***************************************************************************)
(* The registry of devices and drivers, src/device/device_manager.c.       *)
(*                                                                         *)
(* Binding is not one step: a driver's probe runs in the middle of it, and *)
(* the probe of a host controller registers the devices it finds on its    *)
(* bus (src/drivers/xhci.c, enumerate_connected_ports), which are bound in *)
(* their turn while the loop that started it all still stands over the     *)
(* array that grew.  The calls in progress are kept on a stack, innermost  *)
(* first.                                                                  *)
(*                                                                         *)
(* Labels, log messages and last_probe_result are left out; so are calls   *)
(* that fail at once (an invalid or a second registration, a full table,   *)
(* a catalog that cannot be read), which change nothing.                   *)
(***************************************************************************)
EXTENDS Integers, Sequences

CONSTANTS MaxDevices, MaxDrivers,
          Identities,    \* what a bus reports about a device
          Usb,           \* the identities of USB interfaces
          Kinds,         \* drivers, by name
          Matches(_, _), \* Matches(d, id): some id of driver d matches id
          Catalog(_),    \* the driver the catalog names for id, or NoDriver
          Hubs,          \* drivers whose probe registers devices
          NoDriver

ASSUME DeviceManagerAssumption ==
    /\ MaxDevices \in Nat /\ MaxDrivers \in 0..32   \* attempted_driver_mask has 32 bits
    /\ Identities # {} /\ Usb \subseteq Identities /\ Hubs \subseteq Kinds /\ NoDriver \notin Kinds
    /\ \A d \in Kinds, id \in Identities : Matches(d, id) \in BOOLEAN
    /\ \A id \in Identities : Catalog(id) \in Kinds \cup {NoDriver}
    /\ \A id \in Identities \ Usb : Catalog(id) = NoDriver

VARIABLES
    drivers, driver_count,   \* the table of drivers
    devices, device_count,   \* the table of devices
    loaded,                  \* whether the catalog is loaded
    stack,                   \* calls in progress, innermost first
    probes                   \* history: probes made, by device and driver index

vars == <<drivers, driver_count, devices, device_count, loaded, stack, probes>>

Slots == 1..MaxDevices
Indices == 1..MaxDrivers
States == {"DISCOVERED", "UNBOUND", "PROBE_FAILED", "BOUND"}
Names == Kinds \cup {NoDriver}

\* npk_device_t: driver is an index of the table of drivers, attempted the
\* set of bits of attempted_driver_mask
Device == [identity : Identities, state : States, driver : 0..MaxDrivers,
           attempted : SUBSET Indices, expected : Names]

\* A call in progress: bind_device at driver at of device dev, having seen a
\* match or not and waiting for a probe or not; or the loop over the devices
\* of devmgr_register_driver or devmgr_load_default_config, at device dev.
Frame == [call : {"bind", "driver", "config"}, dev : 1..MaxDevices + 1,
          at : 0..MaxDrivers, seen : BOOLEAN, probing : BOOLEAN]
Loop(call) == [call |-> call, dev |-> 1, at |-> 0, seen |-> FALSE, probing |-> FALSE]
Bind(v) == [call |-> "bind", dev |-> v, at |-> 0, seen |-> FALSE, probing |-> FALSE]

Top == stack[1]
Push(frame, rest) == << frame >> \o rest

Blank == [identity |-> CHOOSE id \in Identities : TRUE, state |-> "DISCOVERED", driver |-> 0,
          attempted |-> {}, expected |-> NoDriver]

\* devmgr_init
Init ==
    /\ drivers = [i \in Indices |-> NoDriver] /\ driver_count = 0
    /\ devices = [v \in Slots |-> Blank]
    /\ device_count = 0
    /\ loaded = FALSE
    /\ stack = << >>
    /\ probes = [v \in Slots |-> [i \in Indices |-> 0]]

\* driver_matches, and the catalog's choice for a USB interface
Candidate(device, i) ==
    /\ Matches(drivers[i], device.identity)
    /\ device.expected \in {NoDriver, drivers[i]}

-----------------------------------------------------------------------------
(* Calls from outside, and registrations by the probe of a host controller. *)

Calling == stack = << >>
Probing == stack # << >> /\ Top.probing /\ drivers[Top.at] \in Hubs

devmgr_register_driver(d) ==
    /\ Calling
    /\ driver_count < MaxDrivers
    /\ \A i \in 1..driver_count : drivers[i] # d
    /\ drivers' = [drivers EXCEPT ![driver_count + 1] = d]
    /\ driver_count' = driver_count + 1
    /\ stack' = << Loop("driver") >>
    /\ UNCHANGED <<devices, device_count, loaded, probes>>

\* with resolve_usb_config
devmgr_register_device(id) ==
    /\ Calling \/ Probing
    /\ device_count < MaxDevices
    /\ devices' = [devices EXCEPT ![device_count + 1] =
                      [identity |-> id, state |-> "DISCOVERED", driver |-> 0, attempted |-> {},
                       expected |-> IF loaded THEN Catalog(id) ELSE NoDriver]]
    /\ device_count' = device_count + 1
    /\ stack' = Push(Bind(device_count + 1), stack)
    /\ UNCHANGED <<drivers, driver_count, loaded, probes>>

devmgr_load_default_config ==
    /\ Calling
    /\ loaded' = TRUE
    /\ stack' = << Loop("config") >>
    /\ UNCHANGED <<drivers, driver_count, devices, device_count, probes>>

-----------------------------------------------------------------------------
(* The loops over the devices.                                             *)

\* Mutant: bound devices are visited too.
TodoBound(v) ==
    /\ v \in Top.dev..device_count
    /\ Top.call = "config" => devices[v].identity \in Usb

\* Mutant: a device whose drivers all failed is given up.
TodoUnfailed(v) ==
    /\ v \in Top.dev..device_count
    /\ devices[v].state \notin {"BOUND", "PROBE_FAILED"}
    /\ Top.call = "config" => devices[v].identity \in Usb

Todo(v) ==
    /\ v \in Top.dev..device_count
    /\ devices[v].state # "BOUND"
    /\ Top.call = "config" => devices[v].identity \in Usb

\* Mutant: the loop looks at the same device again.
LoopAgain ==
    /\ stack # << >> /\ Top.call # "bind"
    /\ \E v \in Slots :
         /\ Todo(v) /\ \A w \in Slots : Todo(w) => v <= w
         /\ stack' = Push(Bind(v), Push([Top EXCEPT !.dev = v], Tail(stack)))
    /\ UNCHANGED <<drivers, driver_count, devices, device_count, loaded, probes>>

\* The next device that is not bound; the catalog is consulted again first.
LoopNext ==
    /\ stack # << >> /\ Top.call # "bind"
    /\ \E v \in Slots :
         /\ Todo(v) /\ \A w \in Slots : Todo(w) => v <= w
         /\ devices' = IF Top.call = "config"
                       THEN [devices EXCEPT ![v].expected = Catalog(devices[v].identity)] ELSE devices
         /\ stack' = Push(Bind(v), Push([Top EXCEPT !.dev = v + 1], Tail(stack)))
    /\ UNCHANGED <<drivers, driver_count, device_count, loaded, probes>>

LoopEnds ==
    /\ stack # << >> /\ Top.call # "bind"
    /\ \A v \in Slots : ~Todo(v)
    /\ stack' = Tail(stack)
    /\ UNCHANGED <<drivers, driver_count, devices, device_count, loaded, probes>>

-----------------------------------------------------------------------------
(* bind_device.                                                            *)

Binding == stack # << >> /\ Top.call = "bind" /\ ~Top.probing
Matching(i) == i \in Top.at + 1..driver_count /\ Candidate(devices[Top.dev], i)

\* Mutant: a driver is tried again whenever a device is bound again.
Retried(i) == Matching(i)

Untried(i) == Matching(i) /\ i \notin devices[Top.dev].attempted

\* The next matching driver that was not tried yet is probed.
Probe ==
    /\ Binding
    /\ \E i \in Indices :
         /\ Untried(i) /\ \A j \in Indices : Untried(j) => i <= j
         /\ devices' = [devices EXCEPT ![Top.dev].attempted = @ \cup {i}]
         /\ probes' = [probes EXCEPT ![Top.dev][i] = @ + 1]
         /\ stack' = Push([Top EXCEPT !.at = i, !.seen = TRUE, !.probing = TRUE], Tail(stack))
    /\ UNCHANGED <<drivers, driver_count, device_count, loaded>>

ProbeSucceeds ==
    /\ stack # << >> /\ Top.probing
    /\ devices' = [devices EXCEPT ![Top.dev].driver = Top.at, ![Top.dev].state = "BOUND"]
    /\ stack' = Tail(stack)
    /\ UNCHANGED <<drivers, driver_count, device_count, loaded, probes>>

ProbeFails ==
    /\ stack # << >> /\ Top.probing
    /\ stack' = Push([Top EXCEPT !.probing = FALSE], Tail(stack))
    /\ UNCHANGED <<drivers, driver_count, devices, device_count, loaded, probes>>

BindFails ==
    /\ Binding
    /\ \A i \in Indices : ~Untried(i)
    /\ devices' = [devices EXCEPT
                      ![Top.dev].driver = 0,
                      ![Top.dev].state = IF Top.seen \/ \E i \in Indices : Matching(i)
                                         THEN "PROBE_FAILED" ELSE "UNBOUND"]
    /\ stack' = Tail(stack)
    /\ UNCHANGED <<drivers, driver_count, device_count, loaded, probes>>

Running == LoopNext \/ LoopEnds \/ Probe \/ ProbeSucceeds \/ ProbeFails \/ BindFails

Next ==
    \/ \E d \in Kinds : devmgr_register_driver(d)
    \/ \E id \in Identities : devmgr_register_device(id)
    \/ devmgr_load_default_config
    \/ Running

\* The loops run on, and a probe returns: every wait in it is bounded.
Spec == Init /\ [][Next]_vars /\ WF_vars(Running)

-----------------------------------------------------------------------------
(* Properties.                                                             *)

Devices == 1..device_count

\* The tables, the calls in progress and the history have their types.
TypeOK ==
    /\ drivers \in [Indices -> Names] /\ driver_count \in 0..MaxDrivers
    /\ devices \in [Slots -> Device] /\ device_count \in 0..MaxDevices
    /\ loaded \in BOOLEAN
    /\ stack \in Seq(Frame)
    /\ probes \in [Slots -> [Indices -> Nat]]

\* However often a device is bound again, when drivers come and when the
\* catalog comes, no driver is probed twice with the same device: a probe
\* resets the hardware.
ProbedOnce == \A v \in Slots, i \in Indices : probes[v][i] <= 1

\* A bound device has a driver that matches it, that the catalog's choice
\* allows, and whose probe was made.
BoundToMatch ==
    \A v \in Devices : devices[v].state = "BOUND" =>
        LET i == devices[v].driver
        IN i \in 1..driver_count /\ Candidate(devices[v], i) /\ probes[v][i] = 1

\* Between calls, every driver that could serve an unbound device was tried,
\* also for devices that appeared while another was being probed.
NothingMissed ==
    stack = << >> =>
        \A v \in Devices : devices[v].state # "BOUND" =>
            /\ \A i \in 1..driver_count : Candidate(devices[v], i) => probes[v][i] = 1
            /\ devices[v].state = "PROBE_FAILED" <=> \E i \in 1..driver_count : Candidate(devices[v], i)
            /\ devices[v].state # "DISCOVERED"

\* A bound device keeps its driver, and a device its identity.
KeepsBound ==
    \A v \in Devices : /\ devices'[v].identity = devices[v].identity
                       /\ devices[v].state = "BOUND" =>
                              devices'[v].state = "BOUND" /\ devices'[v].driver = devices[v].driver
BoundStays == [][KeepsBound]_vars

\* Every registration returns: the loops end although the table grows under them.
Returns == []<>(stack = << >>)

-----------------------------------------------------------------------------
(* The inductive invariant behind ProbedOnce, BoundToMatch, NothingMissed  *)
(* and BoundStays.                                                         *)

Calls == 1..Len(stack)

\* The mask records the probes made; beyond the table there are none.
MaskIsHistory ==
    /\ \A v \in Slots, i \in Indices : probes[v][i] = IF i \in devices[v].attempted THEN 1 ELSE 0
    /\ \A v \in Slots : v > device_count => devices[v].attempted = {}

\* A device being bound is in the table and not bound; the call f that binds
\* it has tried all matching drivers it has passed.
Tried(f) ==
    /\ f.dev \in Devices /\ devices[f.dev].state # "BOUND"
    /\ f.at <= driver_count
    /\ \A i \in 1..f.at : Candidate(devices[f.dev], i) => i \in devices[f.dev].attempted
    /\ f.seen <=> f.at # 0
    /\ f.at # 0 => Candidate(devices[f.dev], f.at) /\ f.at \in devices[f.dev].attempted
BindsInProgress == \A j \in Calls : stack[j].call = "bind" => Tried(stack[j])

\* No device is being bound by two calls.
BoundByOne ==
    \A j, k \in Calls : stack[j].call = "bind" /\ stack[k].call = "bind" /\ stack[j].dev = stack[k].dev => j = k

\* A loop over the devices is the outermost call, and waits for no probe.
LoopsOutermost ==
    \A j \in Calls : /\ stack[j].call # "bind" => j = Len(stack)
                     /\ stack[j].probing => stack[j].call = "bind" /\ stack[j].at # 0

\* All drivers that could serve device v were tried and its state says so.
Served(v) ==
    /\ \A i \in 1..driver_count : Candidate(devices[v], i) => i \in devices[v].attempted
    /\ devices[v].state = "PROBE_FAILED" <=> \E i \in 1..driver_count : Candidate(devices[v], i)
    /\ devices[v].state # "DISCOVERED"

\* Some call in progress will still look at device v.
WillVisit(f, v) == (f.call = "bind" /\ f.dev = v) \/ (f.call = "driver" /\ f.dev <= v)
Pending(v) ==
    \E j \in Calls : WillVisit(stack[j], v)

ServedOrPending == \A v \in Devices : devices[v].state = "BOUND" \/ Pending(v) \/ Served(v)

IInv ==
    /\ TypeOK /\ MaskIsHistory /\ BindsInProgress /\ BoundByOne /\ LoopsOutermost
    /\ ServedOrPending /\ BoundToMatch
=============================================================================
