------------------------------- MODULE XhciProofs -------------------------------
(***************************************************************************)
(* The driver with its rings, requests and devices does with controllers   *)
(* and pages what XhciProbe says, so what is proved there holds of it.     *)
(***************************************************************************)
EXTENDS Xhci, XhciProbeProofs

\* The pages of a step are taken for the controller, or none are.
LEMMA AnsweredGrows == ASSUME Answered PROVE (\E n \in Nat : Grow(n)) \/ UNCHANGED probe
  <1>1. CASE Succeeds
    <2> DEFINE next == Following(step)
    <2>1. Pages(next) \in Nat
      BY DEF Pages
    <2>2. Grow(Pages(next)) \/ UNCHANGED probe
      BY <1>1 DEF Succeeds
    <2> QED
      BY <2>1, <2>2
  <1>2. CASE UNCHANGED probe
    BY <1>2
  <1> QED
    BY <1>1, <1>2 DEF Answered

\* Every step of the driver and of the controller is a step of the bring-up or
\* leaves it alone.
LEMMA StepRefines == ASSUME [Next]_vars PROVE [ProbeNext]_<<probe, machine>>
  <1>1. CASE UNCHANGED vars
    BY <1>1 DEF vars
  <1>2. CASE Next
    <2>1. UNCHANGED machine
      BY <1>2 DEF Next
    <2>2. CASE Driver
      <3>1. CASE Probing
        BY <3>1, <2>1 DEF ProbeNext
      <3>2. CASE Return
        BY <3>2, <2>1 DEF ProbeNext, Return
      <3>3. CASE Answered
        BY <3>3, <2>1, AnsweredGrows DEF ProbeNext
      <3>4. CASE UNCHANGED probe
        BY <3>4, <2>1
      <3> QED
        BY <2>2, <3>1, <3>2, <3>3, <3>4 DEF Driver
    <2>3. CASE UNCHANGED probe
      BY <2>3, <2>1
    <2> QED
      BY <1>2, <2>2, <2>3 DEF Next
  <1> QED
    BY <1>1, <1>2

\* The whole driver implements the bring-up of XhciProbe.
THEOREM Implements == Spec => ProbeSpec
  <1>1. Init => ProbeInit
    BY DEF Init
  <1> QED
    BY <1>1, StepRefines, PTL DEF Spec, ProbeSpec

\* Whatever is plugged in, whichever requests and waits fail, and wherever memory
\* runs out, a controller reaches only pages the driver holds, and a failed probe
\* leaves nothing behind.
THEOREM DriverIsSafe == Spec => []ProbeSafe
  BY Implements, ProbeIsSafe, PTL
=============================================================================
