---------------------------- MODULE XhciProbeProofs ----------------------------
(***************************************************************************)
(* For any number of controllers and pages, a controller that may be       *)
(* running reaches only pages the driver holds, and a failed probe leaves  *)
(* nothing behind.  ProbeIInv is inductive: the pages of a controller that *)
(* failed to start go back only in phase "free", where PhaseInv says that  *)
(* no controller that may run knows any page.                              *)
(***************************************************************************)
EXTENDS XhciProbe, TLAPS

\* What is allocated was free.
LEMMA GrantedFree == ASSUME NEW n PROVE Granted(n) \subseteq free
  BY DEF Granted

\* At boot nothing is held, and what runs knows no page.
LEMMA InitIInv == ProbeInit => ProbeIInv
  <1> SUFFICES ASSUME ProbeInit PROVE ProbeIInv
    OBVIOUS
  <1>1. machine.frames \subseteq Frames /\ machine.running \subseteq Controllers
    BY XhciProbeAssumption DEF ProbeInit
  <1>2. ProbeTypeOK
    BY <1>1 DEF ProbeInit, ProbeTypeOK, Phases
  <1>3. OthersKnowNothing /\ PhaseInv /\ NothingKept /\ dma_pages \cap free = {}
    BY <1>1 DEF ProbeInit, OthersKnowNothing, PhaseInv, NothingKept
  <1> QED
    BY <1>2, <1>3 DEF ProbeIInv

USE DEF ProbeIInv, ProbeTypeOK, OthersKnowNothing, PhaseInv, NothingKept, Phases

\* A probe begins only when the one before it has left nothing behind.
LEMMA ProbeKeeps == ASSUME ProbeIInv, NEW c \in Controllers, xhci_probe(c) PROVE ProbeIInv'
  <1>1. ProbeTypeOK' /\ dma_pages' \cap free' = {}
    BY DEF xhci_probe
  <1>2. ~start_attempted /\ dma_pages = {} /\ mastering = {}
    BY DEF xhci_probe
  <1>3. OthersKnowNothing'
    BY <1>2 DEF xhci_probe
  <1>4. PhaseInv' /\ NothingKept'
    BY <1>2 DEF xhci_probe
  <1> QED
    BY <1>1, <1>3, <1>4

\* Finding the registers gives nothing away.
LEMMA MapKeeps == ASSUME ProbeIInv, MapRegisters PROVE ProbeIInv'
  <1>1. ProbeTypeOK' /\ dma_pages' \cap free' = {}
    BY DEF MapRegisters
  <1>2. OthersKnowNothing'
    BY DEF MapRegisters
  <1>3. PhaseInv' /\ NothingKept'
    BY DEF MapRegisters
  <1> QED
    BY <1>1, <1>2, <1>3

\* Nor does reading them.
LEMMA RegistersKeep == ASSUME ProbeIInv, initialize_controller_registers PROVE ProbeIInv'
  <1>1. ProbeTypeOK' /\ dma_pages' \cap free' = {}
    BY DEF initialize_controller_registers
  <1>2. OthersKnowNothing'
    BY DEF initialize_controller_registers
  <1>3. PhaseInv' /\ NothingKept'
    BY DEF initialize_controller_registers
  <1> QED
    BY <1>1, <1>2, <1>3

\* A reset makes a controller stop and forget; one that failed to halt has not
\* been told anything yet.
LEMMA ResetKeeps == ASSUME ProbeIInv, stop_and_reset_controller PROVE ProbeIInv'
  <1>1. ProbeTypeOK' /\ dma_pages' \cap free' = {}
    BY DEF stop_and_reset_controller
  <1>2. OthersKnowNothing'
    BY DEF stop_and_reset_controller
  <1>3. PhaseInv' /\ NothingKept'
    BY DEF stop_and_reset_controller
  <1> QED
    BY <1>1, <1>2, <1>3

\* Pages move from the free ones to the driver's.
LEMMA AllocateKeeps == ASSUME ProbeIInv, allocate_controller_dma PROVE ProbeIInv'
  <1>1. Granted(ControllerPages) \subseteq free
    BY GrantedFree
  <1>2. ProbeTypeOK' /\ dma_pages' \cap free' = {}
    BY <1>1 DEF allocate_controller_dma, Allocate
  <1>3. OthersKnowNothing' /\ PhaseInv' /\ NothingKept'
    BY <1>1 DEF allocate_controller_dma, Allocate
  <1> QED
    BY <1>2, <1>3

\* A controller is told of the driver's pages while it does not run.
LEMMA RingsKeep == ASSUME ProbeIInv, configure_rings PROVE ProbeIInv'
  BY DEF configure_rings

\* From here on the controller may run, and knows the driver's pages only.
LEMMA StartKeeps == ASSUME ProbeIInv, start_controller PROVE ProbeIInv'
  <1>1. ProbeTypeOK' /\ dma_pages' \cap free' = {}
    BY DEF start_controller
  <1>2. OthersKnowNothing'
    BY DEF start_controller
  <1>3. active = FALSE /\ xhci_quarantined = FALSE /\ start_attempted' = TRUE
    BY DEF start_controller
  <1>4. PhaseInv' /\ NothingKept'
    <2>1. CASE phase' = "ports" /\ active' = TRUE
      BY <1>3, <2>1 DEF start_controller
    <2>2. CASE phase' = "failed" /\ active' = active
      BY <1>3, <2>2 DEF start_controller
    <2> QED
      BY <2>1, <2>2 DEF start_controller
  <1> QED
    BY <1>1, <1>2, <1>4

\* Pages are about to be freed only if the controller is halted or was never started.
LEMMA StopKeeps == ASSUME ProbeIInv, stop_after_failed_start PROVE ProbeIInv'
  <1>1. ProbeTypeOK' /\ dma_pages' \cap free' = {}
    BY DEF stop_after_failed_start
  <1>2. OthersKnowNothing'
    BY DEF stop_after_failed_start
  <1>3. active = FALSE /\ xhci_quarantined = FALSE /\ phase = "failed"
    BY DEF stop_after_failed_start
  <1>4. PhaseInv' /\ NothingKept'
    <2>1. CASE ~start_attempted /\ phase' = "free" /\ UNCHANGED <<xhci_quarantined, runs>>
      BY <1>3, <2>1 DEF stop_after_failed_start
    <2>2. CASE start_attempted /\ phase' = "free" /\ runs' = runs \ {device} /\ UNCHANGED xhci_quarantined
      BY <1>3, <2>2 DEF stop_after_failed_start
    <2>3. CASE start_attempted /\ phase' = "idle" /\ xhci_quarantined' = TRUE /\ UNCHANGED runs
      BY <1>3, <2>3 DEF stop_after_failed_start
    <2> QED
      BY <2>1, <2>2, <2>3 DEF stop_after_failed_start
  <1> QED
    BY <1>1, <1>2, <1>4

\* No controller that may run knows a page that is freed.
LEMMA FreeKeeps == ASSUME ProbeIInv, free_dma_pages PROVE ProbeIInv'
  BY DEF free_dma_pages

\* A running controller is told of pages that were free and are now the driver's.
LEMMA GrowKeeps == ASSUME ProbeIInv, NEW n, Grow(n) PROVE ProbeIInv'
  <1>1. Granted(n) \subseteq free
    BY GrantedFree
  <1>2. ProbeTypeOK' /\ dma_pages' \cap free' = {}
    BY <1>1 DEF Grow, Allocate
  <1>3. OthersKnowNothing' /\ PhaseInv' /\ NothingKept'
    BY <1>1 DEF Grow, Allocate
  <1> QED
    BY <1>2, <1>3

\* The rest of the probe, and steps that are none of it.
LEMMA OthersKeep == ASSUME ProbeIInv, Enumerated \/ UNCHANGED probe PROVE ProbeIInv'
  BY DEF Enumerated, probe

\* The invariant says what is wanted.
LEMMA Implied == ProbeIInv => ProbeSafe
  BY DEF ProbeSafe, DmaConfined

HIDE DEF ProbeIInv, ProbeTypeOK, OthersKnowNothing, PhaseInv, NothingKept, Phases

\* The invariant holds throughout, for every set of controllers and pages.
THEOREM ProbeInvariant == ProbeSpec => []ProbeIInv
  <1>1. ProbeIInv /\ [ProbeNext]_<<probe, machine>> => ProbeIInv'
    <2> SUFFICES ASSUME ProbeIInv, [ProbeNext]_<<probe, machine>> PROVE ProbeIInv'
      OBVIOUS
    <2>1. CASE \E c \in Controllers : xhci_probe(c)
      BY <2>1, ProbeKeeps
    <2>2. CASE MapRegisters
      BY <2>2, MapKeeps
    <2>3. CASE stop_and_reset_controller
      BY <2>3, ResetKeeps
    <2>4. CASE allocate_controller_dma
      BY <2>4, AllocateKeeps
    <2>5. CASE configure_rings
      BY <2>5, RingsKeep
    <2>6. CASE start_controller
      BY <2>6, StartKeeps
    <2>7. CASE stop_after_failed_start
      BY <2>7, StopKeeps
    <2>8. CASE free_dma_pages
      BY <2>8, FreeKeeps
    <2>9. CASE \E n \in Nat : Grow(n)
      BY <2>9, GrowKeeps
    <2>10. CASE Enumerated \/ UNCHANGED probe
      BY <2>10, OthersKeep
    <2>11. CASE initialize_controller_registers
      BY <2>11, RegistersKeep
    <2> QED
      BY <2>11, <2>1, <2>2, <2>3, <2>4, <2>5, <2>6, <2>7, <2>8, <2>9, <2>10 DEF ProbeNext, Probing
  <1> QED
    BY <1>1, InitIInv, PTL DEF ProbeSpec

\* The pages reached by controllers that may be running are the driver's: the ones
\* freed after a failed start are reached by none.  A failed probe gives back pages
\* and bus mastering, unless the controller would not stop.
THEOREM ProbeIsSafe == ProbeSpec => []ProbeSafe
  BY Implied, ProbeInvariant, PTL
=============================================================================
