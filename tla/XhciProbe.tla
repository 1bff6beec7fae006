------------------------------- MODULE XhciProbe -------------------------------
(***************************************************************************)
(* Bringing up a USB host controller, xhci_probe in src/drivers/xhci.c,    *)
(* and the memory it is given.                                             *)
(*                                                                         *)
(* A controller that runs reads and writes the pages its registers and     *)
(* rings point to (reach), whatever the kernel uses them for.  The driver  *)
(* records the pages it gives away (dma_pages) and returns them when the   *)
(* start fails, but only if the controller is known not to run; otherwise  *)
(* it keeps them for ever and takes no other controller.                   *)
(*                                                                         *)
(* The firmware may have left controllers running; what they reach then is *)
(* not memory the kernel hands out.  Register writes cannot fail once the  *)
(* BAR was found large enough; waits for the controller can.  Pages that   *)
(* others allocate do not matter here: only that none of them is reached.  *)
(***************************************************************************)
EXTENDS Integers, FiniteSets

CONSTANTS Controllers,      \* their places on the PCI bus, smaller ones found first
          Frames,           \* physical pages, smaller ones allocated first
          ControllerPages,  \* pages allocate_controller_dma asks for
          DmaLimit,         \* XHCI_DMA_PAGE_LIMIT
          Machines          \* the machine: pages free at boot (frames), controllers the
                            \* firmware left running (running), waits and checks that
                            \* may fail (faults)

Faults == {"bar", "registers", "halt", "reset", "start", "stop"}

ASSUME XhciProbeAssumption ==
    /\ Controllers \subseteq Nat /\ Frames \subseteq Nat /\ IsFiniteSet(Frames)
    /\ ControllerPages \in Nat /\ DmaLimit \in Nat
    /\ \A m \in Machines : m.frames \subseteq Frames /\ m.running \subseteq Controllers /\ m.faults \subseteq Faults

VARIABLES
    phase,            \* where xhci_probe is, "idle" outside
    device,           \* the controller it was last called for
    untried,          \* controllers not probed yet
    active, start_attempted, xhci_quarantined,
    dma_pages,        \* pages given to the controller
    free,             \* pages free in the system
    runs,             \* controllers that may be running
    reach,            \* by controller: the pages it was told of
    mastering,        \* controllers the driver let become bus masters
    machine

probe == <<phase, device, untried, active, start_attempted, xhci_quarantined, dma_pages, free, runs, reach,
           mastering>>

ProbeInit ==
    /\ machine \in Machines
    /\ phase = "idle" /\ untried = Controllers /\ device \in Controllers /\ \A c \in Controllers : device <= c
    /\ active = FALSE /\ start_attempted = FALSE /\ xhci_quarantined = FALSE
    /\ dma_pages = {} /\ free = machine.frames
    /\ runs = machine.running /\ reach = [c \in Controllers |-> {}] /\ mastering = {}

MayFail(fault) == fault \in machine.faults

-----------------------------------------------------------------------------
(* alloc_dma_page, n times: the lowest free pages, as many as there are.   *)

Granted(n) ==
    {f \in free : LET before == Cardinality({g \in free : g < f})
                  IN before < n /\ Cardinality(dma_pages) + before < DmaLimit}

Allocate(n) ==
    /\ dma_pages' = dma_pages \cup Granted(n)
    /\ free' = free \ Granted(n)

Enough(n) == Cardinality(Granted(n)) = n

-----------------------------------------------------------------------------
(* xhci_probe, step by step.                                               *)

\* The device manager offers each controller once.
xhci_probe(c) ==
    /\ phase = "idle" /\ c \in untried /\ \A d \in untried : c <= d
    /\ ~active /\ ~xhci_quarantined
    /\ device' = c /\ untried' = untried \ {c} /\ phase' = "bar"
    /\ UNCHANGED <<active, start_attempted, xhci_quarantined, dma_pages, free, runs, reach, mastering>>

\* start_xhci_for_pci_device up to the registers: BAR and bus mastering, MMIO mapping
MapRegisters ==
    /\ phase = "bar"
    /\ \/ /\ phase' = "registers" /\ mastering' = mastering \cup {device}
       \/ /\ MayFail("bar") /\ phase' = "failed"
          /\ mastering' \in {mastering, mastering \cup {device}}
    /\ UNCHANGED <<device, untried, active, start_attempted, xhci_quarantined, dma_pages, free, runs, reach>>

\* The capability registers say what the driver can work with, or not.
initialize_controller_registers ==
    /\ phase = "registers"
    /\ phase' = "reset" \/ (MayFail("registers") /\ phase' = "failed")
    /\ UNCHANGED <<device, untried, active, start_attempted, xhci_quarantined, dma_pages, free, runs, reach, mastering>>

\* A controller that was reset has forgotten every address.
stop_and_reset_controller ==
    /\ phase = "reset"
    /\ \/ phase' = "alloc" /\ runs' = runs \ {device} /\ reach' = [reach EXCEPT ![device] = {}]
       \/ MayFail("halt") /\ phase' = "failed" /\ UNCHANGED <<runs, reach>>
       \/ MayFail("reset") /\ phase' = "failed" /\ runs' = runs \ {device} /\ UNCHANGED reach
    /\ UNCHANGED <<device, untried, active, start_attempted, xhci_quarantined, dma_pages, free, mastering>>

\* Pages are kept also when there are not enough of them.
allocate_controller_dma ==
    /\ phase = "alloc"
    /\ Allocate(ControllerPages)
    /\ phase' = IF Enough(ControllerPages) THEN "rings" ELSE "failed"
    /\ UNCHANGED <<device, untried, active, start_attempted, xhci_quarantined, runs, reach, mastering>>

configure_rings ==
    /\ phase = "rings"
    /\ reach' = [reach EXCEPT ![device] = dma_pages] /\ phase' = "start"
    /\ UNCHANGED <<device, untried, active, start_attempted, xhci_quarantined, dma_pages, free, runs, mastering>>

\* The controller is told to run; that it does may be seen too late, or an
\* error with it.
start_controller ==
    /\ phase = "start"
    /\ start_attempted' = TRUE /\ runs' = runs \cup {device}
    /\ \/ phase' = "ports" /\ active' = TRUE
       \/ MayFail("start") /\ phase' = "failed" /\ UNCHANGED active
    /\ UNCHANGED <<device, untried, xhci_quarantined, dma_pages, free, reach, mastering>>

\* Mutant: a controller is given up without asking it to stop.
StopAssumed ==
    /\ phase = "failed"
    /\ phase' = "free"
    /\ UNCHANGED <<device, untried, active, start_attempted, xhci_quarantined, dma_pages, free, runs, reach, mastering>>

\* After a failed start: the controller is halted, or the driver could not see
\* that it is.
stop_after_failed_start ==
    /\ phase = "failed"
    /\ \/ /\ ~start_attempted
          /\ phase' = "free" /\ UNCHANGED <<xhci_quarantined, runs>>
       \/ /\ start_attempted
          /\ phase' = "free" /\ runs' = runs \ {device} /\ UNCHANGED xhci_quarantined
       \/ /\ start_attempted /\ MayFail("stop")
          /\ phase' = "idle" /\ xhci_quarantined' = TRUE /\ UNCHANGED runs
    /\ UNCHANGED <<device, untried, active, start_attempted, dma_pages, free, reach, mastering>>

\* The pages go back, PCI command and state are restored.
free_dma_pages ==
    /\ phase = "free"
    /\ free' = free \cup dma_pages /\ dma_pages' = {}
    /\ mastering' = mastering \ {device} /\ start_attempted' = FALSE /\ phase' = "idle"
    /\ UNCHANGED <<device, untried, active, xhci_quarantined, runs, reach>>

Probing ==
    \/ \E c \in Controllers : xhci_probe(c)
    \/ MapRegisters \/ initialize_controller_registers \/ stop_and_reset_controller
    \/ allocate_controller_dma \/ configure_rings \/ start_controller \/ stop_after_failed_start \/ free_dma_pages

\* create_slot_context, xhci_update_ep0_max_packet, xhci_configure_interrupt_in:
\* a running controller is told of n more pages.
Grow(n) ==
    /\ phase = "ports"
    /\ Allocate(n)
    /\ reach' = [reach EXCEPT ![device] = @ \cup Granted(n)]
    /\ UNCHANGED <<phase, device, untried, active, start_attempted, xhci_quarantined, runs, mastering>>

\* enumerate_connected_ports is done.
Enumerated ==
    /\ phase = "ports" /\ phase' = "idle"
    /\ UNCHANGED <<device, untried, active, start_attempted, xhci_quarantined, dma_pages, free, runs, reach, mastering>>

ProbeNext == UNCHANGED machine /\ (Probing \/ (\E n \in Nat : Grow(n)) \/ Enumerated)

\* What the driver does with controllers and pages, whatever it enumerates
ProbeSpec == ProbeInit /\ [][ProbeNext]_<<probe, machine>>

-----------------------------------------------------------------------------
(* Properties.                                                             *)

Phases == {"idle", "bar", "registers", "reset", "alloc", "rings", "start", "ports", "failed", "free"}

ProbeTypeOK ==
    /\ phase \in Phases /\ device \in Controllers /\ untried \subseteq Controllers
    /\ active \in BOOLEAN /\ start_attempted \in BOOLEAN /\ xhci_quarantined \in BOOLEAN
    /\ dma_pages \subseteq Frames /\ free \subseteq Frames
    /\ runs \subseteq Controllers /\ reach \in [Controllers -> SUBSET Frames] /\ mastering \subseteq Controllers

\* Every page a controller that may be running can still reach is one the driver
\* holds: it is neither free nor in anybody else's hands, whichever wait failed
\* and however many controllers were tried.
DmaConfined == \A c \in runs : reach[c] \subseteq dma_pages /\ reach[c] \cap free = {}

\* Between probes, no page is held and no controller left a bus master for
\* nothing: only by the controller that runs, or by one that would not stop.
NothingKept ==
    phase = "idle" =>
        /\ active \/ xhci_quarantined \/ (dma_pages = {} /\ mastering = {})
        /\ mastering \subseteq {device}

\* Both: what is reached is held, and what is held is reached for a reason.
ProbeSafe == DmaConfined /\ NothingKept

-----------------------------------------------------------------------------
(* The inductive invariant behind DmaConfined and NothingKept.             *)

\* A controller other than the one started knows no page.
OthersKnowNothing == \A c \in runs : (c = device /\ start_attempted) \/ reach[c] = {}

PhaseInv ==
    /\ phase \in {"bar", "registers", "reset", "alloc"} => dma_pages = {}
    /\ phase \in {"alloc", "rings", "start"} => device \notin runs
    /\ phase \in {"bar", "registers", "reset", "alloc", "rings", "start"} => ~start_attempted
    /\ phase # "idle" => ~xhci_quarantined /\ (active <=> phase = "ports")
    /\ phase = "idle" => (start_attempted <=> active \/ xhci_quarantined)
    /\ phase = "free" => \A c \in runs : reach[c] = {}
    /\ start_attempted => reach[device] \subseteq dma_pages
    /\ phase = "ports" => start_attempted
    /\ phase = "start" => reach[device] \subseteq dma_pages
    /\ mastering \subseteq {device}

ProbeIInv == ProbeTypeOK /\ OthersKnowNothing /\ PhaseInv /\ NothingKept /\ dma_pages \cap free = {}
=============================================================================
