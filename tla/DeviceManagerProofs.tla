------------------------- MODULE DeviceManagerProofs -------------------------
EXTENDS DeviceManager, TLAPS

(***************************************************************************)
(* The inductive invariant of DeviceManager and what follows from it, for  *)
(* every number of drivers and devices and every nesting of calls.         *)
(***************************************************************************)

\* The calls in progress when one more begins.
LEMMA PushFacts ==
    ASSUME NEW x \in Frame, NEW q \in Seq(Frame)
    PROVE  /\ Push(x, q) \in Seq(Frame)
           /\ Len(Push(x, q)) = Len(q) + 1
           /\ Push(x, q)[1] = x
           /\ \A j \in 2..Len(q) + 1 : Push(x, q)[j] = q[j - 1]
  BY DEF Push

\* The calls in progress when the innermost returns.
LEMMA TailFacts ==
    ASSUME NEW q \in Seq(Frame), q # << >>
    PROVE  /\ q[1] \in Frame /\ Len(q) \in Nat /\ Len(q) >= 1
           /\ Tail(q) \in Seq(Frame)
           /\ Len(Tail(q)) = Len(q) - 1
           /\ \A j \in 1..Len(q) - 1 : Tail(q)[j] = q[j + 1]
  OBVIOUS

\* The calls in progress when the innermost moves on.
LEMMA ReplaceFacts ==
    ASSUME NEW x \in Frame, NEW q \in Seq(Frame), q # << >>
    PROVE  /\ Push(x, Tail(q)) \in Seq(Frame)
           /\ Len(Push(x, Tail(q))) = Len(q)
           /\ Push(x, Tail(q))[1] = x
           /\ \A j \in 2..Len(q) : Push(x, Tail(q))[j] = q[j]
  <1>1. /\ Tail(q) \in Seq(Frame) /\ Len(Tail(q)) = Len(q) - 1 /\ Len(q) \in Nat
        /\ \A j \in 1..Len(q) - 1 : Tail(q)[j] = q[j + 1]
    BY TailFacts
  <1>2. /\ Push(x, Tail(q)) \in Seq(Frame) /\ Len(Push(x, Tail(q))) = Len(Tail(q)) + 1
        /\ Push(x, Tail(q))[1] = x
        /\ \A j \in 2..Len(Tail(q)) + 1 : Push(x, Tail(q))[j] = Tail(q)[j - 1]
    BY <1>1 DEF Push
  <1>3. QED BY <1>1, <1>2

\* After devmgr_init, which leaves both tables empty, IInv holds.
THEOREM InitIInv == Init => IInv
  <1> SUFFICES ASSUME Init PROVE IInv
    OBVIOUS
  <1> USE DeviceManagerAssumption
  <1>1. TypeOK
    <2>1. (CHOOSE id \in Identities : TRUE) \in Identities
      OBVIOUS
    <2>2. Blank \in Device
      BY <2>1 DEF Blank, Device, States, Names, Indices
    <2>3. << >> \in Seq(Frame)
      OBVIOUS
    <2>4. drivers \in [Indices -> Names] /\ driver_count \in 0..MaxDrivers /\ device_count \in 0..MaxDevices
      BY DEF Init, Names
    <2>5. devices \in [Slots -> Device] /\ stack \in Seq(Frame) /\ loaded \in BOOLEAN
      BY <2>2, <2>3, Zenon DEF Init
    <2>6. probes \in [Slots -> [Indices -> Nat]]
      BY DEF Init
    <2>7. QED BY <2>4, <2>5, <2>6 DEF TypeOK
  <1>2. MaskIsHistory
    BY DEF Init, MaskIsHistory, Blank, Slots, Indices
  <1>3. BindsInProgress /\ BoundByOne /\ LoopsOutermost
    BY DEF Init, BindsInProgress, BoundByOne, LoopsOutermost, Calls
  <1>4. ServedOrPending /\ BoundToMatch
    BY DEF Init, ServedOrPending, BoundToMatch, Devices
  <1>5. QED BY <1>1, <1>2, <1>3, <1>4 DEF IInv

(* One lemma per action: it preserves IInv.                                *)

\* The loop of devmgr_register_driver has every device ahead of it.
LEMMA RegisterDriver ==
    ASSUME IInv, NEW d \in Kinds, devmgr_register_driver(d)
    PROVE  IInv'
  <1> USE DeviceManagerAssumption
  <1>0. TypeOK /\ stack = << >> /\ stack' = << Loop("driver") >> /\ driver_count' = driver_count + 1
        /\ driver_count < MaxDrivers /\ UNCHANGED <<devices, device_count, loaded, probes>>
        /\ drivers' = [drivers EXCEPT ![driver_count + 1] = d]
    BY DEF IInv, devmgr_register_driver, Calling
  <1>1. TypeOK'
    <2>1. Loop("driver") \in Frame
      BY <1>0 DEF Loop, Frame, TypeOK
    <2>2. stack' \in Seq(Frame)
      BY <1>0, <2>1
    <2>3. QED BY <1>0, <2>2 DEF TypeOK, Indices, Names
  <1>2. MaskIsHistory'
    BY <1>0 DEF IInv, MaskIsHistory
  <1>3. stack'[1] = Loop("driver") /\ Len(stack') = 1 /\ Calls' = {1}
    BY <1>0 DEF Calls
  <1>4. BindsInProgress' /\ BoundByOne' /\ LoopsOutermost'
    BY <1>3 DEF BindsInProgress, BoundByOne, LoopsOutermost, Loop
  <1>5. ServedOrPending'
    BY <1>0, <1>3 DEF ServedOrPending, Pending, WillVisit, Loop, Devices, TypeOK
  <1>6. BoundToMatch'
    <2>1. \A i \in 1..driver_count : drivers'[i] = drivers[i]
      BY <1>0 DEF TypeOK, Indices
    <2>2. QED BY <1>0, <2>1 DEF IInv, BoundToMatch, Devices, Candidate, TypeOK, Indices
  <1>7. QED BY <1>1, <1>2, <1>4, <1>5, <1>6 DEF IInv

\* The loop of devmgr_load_default_config starts when every device is served.
LEMMA LoadConfig ==
    ASSUME IInv, devmgr_load_default_config
    PROVE  IInv'
  <1> USE DeviceManagerAssumption
  <1>0. TypeOK /\ stack = << >> /\ stack' = << Loop("config") >> /\ loaded' = TRUE
        /\ UNCHANGED <<drivers, driver_count, devices, device_count, probes>>
    BY DEF IInv, devmgr_load_default_config, Calling
  <1>1. TypeOK'
    <2>1. Loop("config") \in Frame
      BY <1>0 DEF Loop, Frame, TypeOK
    <2>2. stack' \in Seq(Frame)
      BY <1>0, <2>1
    <2>3. QED BY <1>0, <2>2 DEF TypeOK
  <1>2. MaskIsHistory' /\ BoundToMatch'
    BY <1>0 DEF IInv, MaskIsHistory, BoundToMatch, Devices, Candidate
  <1>3. stack'[1] = Loop("config") /\ Len(stack') = 1 /\ Calls' = {1}
    BY <1>0 DEF Calls
  <1>4. BindsInProgress' /\ BoundByOne' /\ LoopsOutermost'
    BY <1>3 DEF BindsInProgress, BoundByOne, LoopsOutermost, Loop
  <1>5. ServedOrPending'
    <2>1. \A v \in Devices : ~Pending(v)
      BY <1>0 DEF Pending, Calls
    <2>2. QED BY <1>0, <2>1 DEF IInv, ServedOrPending, Served, Candidate, Devices
  <1>6. QED BY <1>1, <1>2, <1>4, <1>5 DEF IInv

\* A new device is at the end of the table, where no call was looking.
LEMMA RegisterDevice ==
    ASSUME IInv, NEW id \in Identities, devmgr_register_device(id)
    PROVE  IInv'
  <1> USE DeviceManagerAssumption
  <1> DEFINE new == device_count + 1
             record == [identity |-> id, state |-> "DISCOVERED", driver |-> 0, attempted |-> {},
                        expected |-> IF loaded THEN Catalog(id) ELSE NoDriver]
  <1>0. /\ TypeOK /\ device_count < MaxDevices /\ device_count' = new
        /\ devices' = [devices EXCEPT ![new] = record]
        /\ stack' = Push(Bind(new), stack)
        /\ UNCHANGED <<drivers, driver_count, loaded, probes>>
    BY DEF IInv, devmgr_register_device
  <1>a. new \in Slots /\ new \notin Devices /\ Devices' = Devices \cup {new}
    BY <1>0 DEF TypeOK, Slots, Devices
  <1>b. Bind(new) \in Frame
    BY <1>0 DEF Bind, Frame, TypeOK
  <1>c. /\ stack' \in Seq(Frame) /\ Len(stack') = Len(stack) + 1 /\ Len(stack) \in Nat
        /\ stack'[1] = Bind(new) /\ \A j \in 2..Len(stack) + 1 : stack'[j] = stack[j - 1]
    <2> DEFINE x == Bind(new)
    <2>1. x \in Frame /\ stack \in Seq(Frame) /\ stack' = Push(x, stack)
      BY <1>0, <1>b DEF TypeOK
    <2>2. Len(stack) \in Nat
      BY <2>1
    <2> HIDE DEF x
    <2>3. /\ stack' \in Seq(Frame) /\ Len(stack') = Len(stack) + 1
          /\ stack'[1] = x /\ \A j \in 2..Len(stack) + 1 : stack'[j] = stack[j - 1]
      BY <2>1, PushFacts, ZenonT(60)
    <2>4. QED BY <2>2, <2>3 DEF x
  <1>d. devices'[new] = record /\ \A v \in Slots \ {new} : devices'[v] = devices[v]
    BY <1>0, <1>a DEF TypeOK
  <1>e. Devices \subseteq Slots
    BY <1>0 DEF Devices, Slots, TypeOK
  <1>1. TypeOK'
    <2>1. record \in Device
      BY DEF Device, States, Names, Indices
    <2>2. devices' \in [Slots -> Device]
      BY <1>0, <1>a, <2>1 DEF TypeOK
    <2>3. QED BY <1>0, <1>c, <2>2 DEF TypeOK
  <1>2. MaskIsHistory'
    BY <1>0, <1>a, <1>d DEF IInv, MaskIsHistory, TypeOK, Slots
  <1>f. \A k \in Calls' : k # 1 => k - 1 \in Calls /\ stack'[k] = stack[k - 1]
    BY <1>c DEF Calls
  <1>g. \A k \in Calls : k + 1 \in Calls' /\ stack'[k + 1] = stack[k]
    BY <1>c DEF Calls
  <1>h. \A v \in Devices : devices'[v] = devices[v] /\ v \in Devices'
    BY <1>a, <1>d, <1>e
  <1>3. BindsInProgress'
    <2> SUFFICES ASSUME NEW j \in Calls', stack'[j].call = "bind" PROVE Tried(stack[j])'
      BY DEF BindsInProgress
    <2>1. CASE j = 1
      <3>1. stack'[j].dev = new /\ stack'[j].at = 0 /\ stack'[j].seen = FALSE
        BY <1>c, <2>1 DEF Bind
      <3>2. driver_count' >= 0 /\ devices'[new].state = "DISCOVERED" /\ new \in Devices'
        BY <1>0, <1>a, <1>d DEF TypeOK
      <3>3. QED BY <3>1, <3>2 DEF Tried
    <2>2. CASE j # 1
      <3>1. j - 1 \in Calls /\ stack'[j] = stack[j - 1]
        BY <1>f, <2>2
      <3>2. Tried(stack[j - 1])
        BY <3>1 DEF IInv, BindsInProgress
      <3>3. QED BY <1>0, <1>h, <3>1, <3>2 DEF Tried, Candidate
    <2>3. QED BY <2>1, <2>2
  <1>4. BoundByOne'
    <2>1. \A k \in Calls : stack[k].call = "bind" => stack[k].dev \in Devices
      BY DEF IInv, BindsInProgress, Tried
    <2>2. Bind(new).dev = new
      BY DEF Bind
    <2>3. Calls' \subseteq Nat
      BY <1>c DEF Calls
    <2> SUFFICES ASSUME NEW j \in Calls', NEW k \in Calls', stack'[j].call = "bind",
                        stack'[k].call = "bind", stack'[j].dev = stack'[k].dev
                 PROVE  j = k
      BY DEF BoundByOne
    <2>4. CASE j = 1 \/ k = 1
      BY <1>a, <1>c, <1>f, <2>1, <2>2, <2>4
    <2>5. CASE j # 1 /\ k # 1
      <3>1. j - 1 = k - 1
        BY <1>f, <2>5 DEF IInv, BoundByOne
      <3>2. QED BY <3>1, <2>3
    <2>6. QED BY <2>4, <2>5
  <1>5. LoopsOutermost'
    BY <1>c, <1>f DEF IInv, LoopsOutermost, Bind, Calls
  <1>5a. ServedOrPending'
    <2> SUFFICES ASSUME NEW v \in Devices' PROVE devices'[v].state = "BOUND" \/ Pending(v)' \/ Served(v)'
      BY DEF ServedOrPending
    <2>1. CASE v = new
      BY <1>c, <2>1 DEF Pending, WillVisit, Calls, Bind
    <2>2. CASE v \in Devices
      <3>1. ASSUME Pending(v) PROVE Pending(v)'
        <4>1. PICK j \in Calls : WillVisit(stack[j], v)
          BY <3>1 DEF Pending
        <4>2. QED BY <4>1, <1>g DEF Pending, WillVisit
      <3>2. Served(v) => Served(v)'
        BY <1>0, <1>h, <2>2 DEF Served, Candidate
      <3>3. QED BY <2>2, <1>h, <3>1, <3>2 DEF IInv, ServedOrPending
    <2>3. QED BY <1>a, <2>1, <2>2
  <1>6. BoundToMatch'
    BY <1>0, <1>a, <1>d, <1>e DEF IInv, BoundToMatch, Candidate
  <1>7. QED BY <1>1, <1>2, <1>3, <1>4, <1>5, <1>5a, <1>6 DEF IInv

\* A loop returns only when no device is left for it.
LEMMA LoopReturns ==
    ASSUME IInv, LoopEnds
    PROVE  IInv'
  <1> USE DeviceManagerAssumption
  <1>0. /\ TypeOK /\ stack # << >> /\ Top.call # "bind" /\ \A v \in Slots : ~Todo(v)
        /\ stack' = Tail(stack)
        /\ UNCHANGED <<drivers, driver_count, devices, device_count, loaded, probes>>
    BY DEF IInv, LoopEnds
  <1>1. /\ Len(stack) >= 1 /\ Len(stack) \in Nat /\ stack' \in Seq(Frame) /\ Len(stack') = Len(stack) - 1
        /\ stack[1] \in Frame
    BY <1>0, TailFacts DEF TypeOK
  <1>2. Len(stack) = 1 /\ Calls = {1} /\ Calls' = {}
    <2>1. 1 \in Calls /\ LoopsOutermost
      BY <1>1 DEF IInv, Calls
    <2>2. Len(stack) = 1
      BY <1>0, <2>1, Zenon DEF LoopsOutermost, Top
    <2>3. QED BY <1>1, <2>2 DEF Calls
  <1>3. TypeOK' /\ MaskIsHistory' /\ BoundToMatch'
    BY <1>0, <1>1 DEF IInv, TypeOK, MaskIsHistory, BoundToMatch, Devices, Candidate
  <1>4. BindsInProgress' /\ BoundByOne' /\ LoopsOutermost'
    BY <1>2 DEF BindsInProgress, BoundByOne, LoopsOutermost
  <1>5. ServedOrPending'
    <2>1. ASSUME NEW v \in Devices, Pending(v) PROVE devices[v].state = "BOUND"
      <3>1. Top.call = "driver" /\ Top.dev <= v
        BY <1>0, <1>2, <2>1 DEF Pending, WillVisit, Top
      <3>2. v \in Top.dev..device_count /\ v \in Slots
        BY <1>0, <1>1, <3>1 DEF Devices, TypeOK, Slots, Frame, Top
      <3>3. QED BY <1>0, <3>1, <3>2 DEF Todo
    <2>2. QED BY <1>0, <2>1 DEF IInv, ServedOrPending, Served, Candidate, Devices
  <1>6. QED BY <1>3, <1>4, <1>5 DEF IInv

\* A loop is the only call in progress when it goes on to the next device.
LEMMA LoopGoesOn ==
    ASSUME IInv, LoopNext
    PROVE  IInv'
  <1> USE DeviceManagerAssumption
  <1>0. /\ TypeOK /\ stack # << >> /\ Top.call # "bind"
        /\ UNCHANGED <<drivers, driver_count, device_count, loaded, probes>>
    BY DEF IInv, LoopNext
  <1>1. PICK v \in Slots :
          /\ Todo(v) /\ \A w \in Slots : Todo(w) => v <= w
          /\ devices' = IF Top.call = "config"
                        THEN [devices EXCEPT ![v].expected = Catalog(devices[v].identity)] ELSE devices
          /\ stack' = Push(Bind(v), Push([Top EXCEPT !.dev = v + 1], Tail(stack)))
    BY Zenon DEF LoopNext
  <1> DEFINE inner == Bind(v)
             outer == [Top EXCEPT !.dev = v + 1]
  <1>a. v \in Devices /\ devices[v].state # "BOUND" /\ device_count <= MaxDevices /\ v \in Nat
    <2>1. Top \in Frame
      BY <1>0, TailFacts DEF TypeOK, Top
    <2>2. Top.dev \in Nat /\ Top.dev >= 1
      BY <1>0, <2>1 DEF Frame
    <2>3. v \in Top.dev..device_count /\ devices[v].state # "BOUND"
      BY <1>1 DEF Todo
    <2>4. device_count \in 0..MaxDevices
      BY <1>0 DEF TypeOK
    <2>5. QED BY <2>2, <2>3, <2>4 DEF Devices
  <1>b. inner \in Frame /\ outer \in Frame /\ Top \in Frame
    <2>1. Top \in Frame
      BY <1>0, TailFacts DEF TypeOK, Top
    <2>2. v \in 1..MaxDevices + 1 /\ v + 1 \in 1..MaxDevices + 1
      BY DEF Slots
    <2>3. QED BY <2>1, <2>2 DEF Frame, Bind
  <1>c. Len(stack) = 1 /\ Calls = {1} /\ Len(stack) \in Nat
    <2>1. Len(stack) >= 1 /\ Len(stack) \in Nat
      BY <1>0, TailFacts DEF TypeOK
    <2>2. 1 \in Calls /\ LoopsOutermost
      BY <2>1 DEF IInv, Calls
    <2>3. Len(stack) = 1
      BY <1>0, <2>2, Zenon DEF LoopsOutermost, Top
    <2>4. QED BY <2>3 DEF Calls
  <1>d. /\ stack' \in Seq(Frame) /\ Len(stack') = 2
        /\ stack'[1] = inner /\ stack'[2] = outer
    <2>1. stack \in Seq(Frame) /\ stack' = Push(inner, Push(outer, Tail(stack)))
      BY <1>0, <1>1 DEF TypeOK
    <2> HIDE DEF inner, outer
    <2> DEFINE rest == Push(outer, Tail(stack))
    <2>2. rest \in Seq(Frame) /\ Len(rest) = 1 /\ rest[1] = outer
      BY <1>0, <1>b, <1>c, <2>1, ReplaceFacts
    <2> HIDE DEF rest
    <2>3. inner \in Frame /\ rest \in Seq(Frame) /\ stack' = Push(inner, rest)
      BY <1>b, <2>1, <2>2 DEF rest
    <2>4. /\ stack' \in Seq(Frame) /\ Len(stack') = Len(rest) + 1 /\ stack'[1] = inner
          /\ \A j \in 2..Len(rest) + 1 : stack'[j] = rest[j - 1]
      BY <2>3, PushFacts, ZenonT(60)
    <2>5. stack'[2] = rest[1]
      BY <2>2, <2>4
    <2>6. QED BY <2>2, <2>4, <2>5
  <1>e. Calls' = {1, 2}
    BY <1>d DEF Calls
  <1>f. /\ inner.call = "bind" /\ inner.dev = v /\ inner.at = 0 /\ inner.seen = FALSE /\ inner.probing = FALSE
        /\ outer.call = Top.call /\ outer.dev = v + 1 /\ outer.probing = Top.probing
    BY <1>b DEF Bind, Frame
  <1>g. /\ \A w \in Slots : w # v => devices'[w] = devices[w]
        /\ devices'[v].state = devices[v].state /\ devices'[v].attempted = devices[v].attempted
        /\ devices' \in [Slots -> Device]
    <2>1. Catalog(devices[v].identity) \in Names /\ devices \in [Slots -> Device]
      BY <1>0 DEF TypeOK, Device, Names
    <2>2. CASE Top.call = "config"
      BY <1>1, <2>1, <2>2 DEF Device
    <2>3. CASE Top.call # "config"
      BY <1>1, <2>1, <2>3
    <2>4. QED BY <2>2, <2>3
  <1> HIDE DEF inner, outer
  <1>2. TypeOK'
    BY <1>0, <1>d, <1>g DEF TypeOK
  <1>3. MaskIsHistory'
    BY <1>0, <1>g DEF IInv, MaskIsHistory
  <1>4. BindsInProgress'
    <2>1. driver_count' >= 0
      BY <1>0 DEF TypeOK
    <2>2. QED BY <1>0, <1>a, <1>d, <1>e, <1>f, <1>g, <2>1 DEF BindsInProgress, Tried, Devices
  <1>5. BoundByOne' /\ LoopsOutermost'
    <2>1. ~Top.probing
      BY <1>0, <1>c DEF IInv, LoopsOutermost, Top
    <2>2. QED BY <1>0, <1>d, <1>e, <1>f, <2>1 DEF BoundByOne, LoopsOutermost
  <1>6. ServedOrPending'
    <2> SUFFICES ASSUME NEW w \in Devices PROVE devices'[w].state = "BOUND" \/ Pending(w)' \/ Served(w)'
      BY <1>0 DEF ServedOrPending, Devices
    <2>0. w \in Slots /\ w \in Nat
      BY <1>0 DEF Devices, Slots, TypeOK
    <2>1. CASE w = v
      BY <1>d, <1>e, <1>f, <2>1 DEF Pending, WillVisit
    <2>2. CASE w # v /\ devices[w].state # "BOUND" /\ Pending(w)
      <3>1. Top.call = "driver" /\ Top.dev <= w
        BY <1>0, <1>c, <2>2 DEF Pending, WillVisit, Top
      <3>2. Todo(w)
        BY <1>0, <1>b, <2>0, <2>2, <3>1 DEF Todo, Devices, TypeOK, Frame
      <3>3. v + 1 <= w
        BY <1>1, <1>a, <2>0, <2>2, <3>2
      <3>4. QED BY <1>d, <1>e, <1>f, <3>1, <3>3 DEF Pending, WillVisit
    <2>3. CASE w # v /\ Served(w)
      BY <1>0, <1>g, <2>0, <2>3 DEF Served, Candidate
    <2>4. CASE w # v /\ devices[w].state = "BOUND"
      BY <1>g, <2>0, <2>4
    <2>5. QED BY <2>1, <2>2, <2>3, <2>4 DEF IInv, ServedOrPending
  <1>7. BoundToMatch'
    <2>1. \A w \in Devices : w \in Slots
      BY <1>0 DEF Devices, Slots, TypeOK
    <2>2. QED BY <1>0, <1>a, <1>g, <2>1 DEF IInv, BoundToMatch, Candidate, Devices
  <1>8. QED BY <1>2, <1>3, <1>4, <1>5, <1>6, <1>7 DEF IInv

\* bind_device returns: the device is bound to a driver that was probed, or
\* all its drivers were tried and its state says so.
LEMMA BindReturns ==
    ASSUME IInv, stack # << >>, NEW v, v = Top.dev, Top.call = "bind",
           NEW i \in 0..MaxDrivers, NEW st \in States,
           devices' = [devices EXCEPT ![v].driver = i, ![v].state = st],
           stack' = Tail(stack),
           UNCHANGED <<drivers, driver_count, device_count, loaded, probes>>,
           \/ /\ st = "BOUND" /\ i \in 1..driver_count
              /\ Candidate(devices[v], i) /\ probes[v][i] = 1
           \/ st # "BOUND" /\ Served(v)'
    PROVE  IInv'
  <1> USE DeviceManagerAssumption
  <1>0. TypeOK /\ Devices' = Devices /\ Devices \subseteq Slots
    BY DEF IInv, Devices, TypeOK, Slots
  <1>a. /\ Len(stack) >= 1 /\ Len(stack) \in Nat /\ stack' \in Seq(Frame) /\ Len(stack') = Len(stack) - 1
        /\ \A j \in 1..Len(stack) - 1 : stack'[j] = stack[j + 1]
    BY <1>0, TailFacts DEF TypeOK
  <1>b. 1 \in Calls /\ stack[1].call = "bind" /\ stack[1].dev = v
    BY <1>a DEF Calls, Top
  <1>c. \A k \in Calls' : k + 1 \in Calls /\ stack'[k] = stack[k + 1] /\ k \in Nat /\ k + 1 # 1
    BY <1>a DEF Calls
  <1>d. \A k \in Calls : k # 1 => k - 1 \in Calls' /\ stack'[k - 1] = stack[k]
    BY <1>a DEF Calls
  <1>e. v \in Devices /\ v \in Slots /\ devices[v].state # "BOUND"
    BY <1>0, <1>b DEF IInv, BindsInProgress, Tried
  <1>f. /\ \A w \in Slots : w # v => devices'[w] = devices[w]
        /\ devices'[v].state = st /\ devices'[v].driver = i
        /\ devices'[v].attempted = devices[v].attempted
        /\ devices'[v].identity = devices[v].identity /\ devices'[v].expected = devices[v].expected
        /\ devices' \in [Slots -> Device]
    <2>1. devices \in [Slots -> Device] /\ devices[v] \in Device
      BY <1>0, <1>e DEF TypeOK
    <2> DEFINE r == [devices[v] EXCEPT !.driver = i, !.state = st]
    <2>2. /\ r \in Device /\ r.state = st /\ r.driver = i /\ r.attempted = devices[v].attempted
          /\ r.identity = devices[v].identity /\ r.expected = devices[v].expected
      BY <2>1, Zenon DEF Device
    <2>3. devices' = [devices EXCEPT ![v] = r]
      BY <1>e, <2>1, Zenon
    <2> HIDE DEF r
    <2>4. QED BY <1>e, <2>1, <2>2, <2>3
  <1>g. \A k \in Calls' : stack'[k].call = "bind" => stack'[k].dev # v
    BY <1>b, <1>c, Zenon DEF IInv, BoundByOne
  <1>1. TypeOK'
    BY <1>0, <1>a, <1>f DEF TypeOK
  <1>2. MaskIsHistory'
    BY <1>f DEF IInv, MaskIsHistory
  <1>3. BindsInProgress'
    <2> SUFFICES ASSUME NEW j \in Calls', stack'[j].call = "bind" PROVE Tried(stack[j])'
      BY Zenon DEF BindsInProgress
    <2>1. Tried(stack[j + 1]) /\ stack'[j] = stack[j + 1] /\ stack'[j].dev # v
      BY <1>c, <1>g, Zenon DEF IInv, BindsInProgress
    <2>2. stack'[j].dev \in Slots /\ devices'[stack'[j].dev] = devices[stack'[j].dev]
      BY <1>0, <1>f, <2>1, Zenon DEF Tried
    <2>3. QED BY <1>0, <2>1, <2>2, Zenon DEF Tried, Candidate
  <1>4. BoundByOne'
    <2> SUFFICES ASSUME NEW j \in Calls', NEW k \in Calls', stack'[j].call = "bind",
                        stack'[k].call = "bind", stack'[j].dev = stack'[k].dev
                 PROVE  j = k
      BY Zenon DEF BoundByOne
    <2>1. j + 1 = k + 1
      BY <1>c, Zenon DEF IInv, BoundByOne
    <2>2. QED BY <1>c, <2>1
  <1>5. LoopsOutermost'
    <2> SUFFICES ASSUME NEW j \in Calls'
                 PROVE  /\ stack'[j].call # "bind" => j = Len(stack')
                        /\ stack'[j].probing => stack'[j].call = "bind" /\ stack'[j].at # 0
      BY Zenon DEF LoopsOutermost
    <2>1. stack'[j].call # "bind" => j + 1 = Len(stack)
      BY <1>c, Zenon DEF IInv, LoopsOutermost
    <2>2. stack'[j].probing => stack'[j].call = "bind" /\ stack'[j].at # 0
      BY <1>c, ZenonT(60) DEF IInv, LoopsOutermost
    <2>3. j + 1 = Len(stack) => j = Len(stack')
      BY <1>a, <1>c
    <2>4. QED BY <2>1, <2>2, <2>3, Zenon
  <1>6. ServedOrPending'
    <2> SUFFICES ASSUME NEW w \in Devices PROVE devices'[w].state = "BOUND" \/ Pending(w)' \/ Served(w)'
      BY <1>0, Zenon DEF ServedOrPending
    <2>1. CASE w = v
      BY <1>f, <2>1
    <2>2. CASE w # v
      <3>1. ASSUME Pending(w) PROVE Pending(w)'
        <4>1. PICK j \in Calls : WillVisit(stack[j], w)
          BY <3>1 DEF Pending
        <4>2. j # 1
          BY <1>b, <2>2, <4>1 DEF WillVisit
        <4>3. QED BY <1>d, <4>1, <4>2, Zenon DEF Pending, WillVisit
      <3>2. devices'[w] = devices[w]
        BY <1>0, <1>f, <2>2
      <3>3. Served(w) => Served(w)'
        BY <3>2, Zenon DEF Served, Candidate
      <3>4. QED BY <3>1, <3>2, <3>3 DEF IInv, ServedOrPending
    <2>3. QED BY <2>1, <2>2
  <1>7. BoundToMatch'
    <2> SUFFICES ASSUME NEW w \in Devices, devices'[w].state = "BOUND"
                 PROVE  /\ devices'[w].driver \in 1..driver_count
                        /\ Candidate(devices[w], devices[w].driver)'
                        /\ probes[w][devices'[w].driver] = 1
      BY <1>0, Zenon DEF BoundToMatch
    <2>1. CASE w = v
      BY <1>f, <2>1 DEF Candidate
    <2>2. CASE w # v
      <3>1. devices'[w] = devices[w]
        BY <1>0, <1>f, <2>2
      <3>2. QED BY <3>1 DEF IInv, BoundToMatch, Candidate
    <2>3. QED BY <2>1, <2>2
  <1>8. QED BY <1>1, <1>2, <1>3, <1>4, <1>5, <1>6, <1>7 DEF IInv

\* What IInv says of the innermost call when it is a bind_device.
LEMMA InnermostBind ==
    ASSUME IInv, stack # << >>, Top.call = "bind" \/ Top.probing
    PROVE  /\ Top \in Frame /\ Top.call = "bind" /\ 1 \in Calls /\ Tried(Top)
           /\ Top.probing => Top.at # 0
           /\ Top.dev \in Devices /\ Top.dev \in Slots /\ devices[Top.dev] \in Device
           /\ driver_count \in 0..MaxDrivers
  <1> USE DeviceManagerAssumption
  <1>1. TypeOK /\ Len(stack) \in Nat /\ Len(stack) >= 1 /\ Top \in Frame
    BY TailFacts DEF IInv, TypeOK, Top
  <1>2. 1 \in Calls
    BY <1>1 DEF Calls
  <1>3. Top.call = "bind" /\ (Top.probing => Top.at # 0)
    BY <1>2 DEF IInv, LoopsOutermost, Top
  <1>4. Tried(Top)
    BY <1>2, <1>3 DEF IInv, BindsInProgress, Top
  <1>5. Top.dev \in Devices
    BY <1>4 DEF Tried
  <1>6. Top.dev \in Slots
    BY <1>1, <1>5 DEF TypeOK, Devices, Slots
  <1>7. devices[Top.dev] \in Device /\ driver_count \in 0..MaxDrivers
    BY <1>1, <1>6 DEF TypeOK
  <1>8. QED BY <1>1, <1>2, <1>3, <1>4, <1>5, <1>6, <1>7

\* A successful probe binds the device to the driver being tried.
LEMMA Succeeds ==
    ASSUME IInv, ProbeSucceeds
    PROVE  IInv'
  <1> USE DeviceManagerAssumption
  <1>1. /\ stack # << >> /\ Top.probing /\ stack' = Tail(stack)
        /\ devices' = [devices EXCEPT ![Top.dev].driver = Top.at, ![Top.dev].state = "BOUND"]
        /\ UNCHANGED <<drivers, driver_count, device_count, loaded, probes>>
    BY DEF ProbeSucceeds
  <1>2. /\ Top \in Frame /\ Top.call = "bind" /\ Tried(Top) /\ Top.at # 0 /\ Top.dev \in Slots
        /\ driver_count \in 0..MaxDrivers
    BY <1>1, InnermostBind
  <1>3. Top.at \in 0..MaxDrivers /\ Top.at \in 1..driver_count /\ Top.at \in Indices
    BY <1>2 DEF Frame, Tried, Indices
  <1>4. Candidate(devices[Top.dev], Top.at) /\ Top.at \in devices[Top.dev].attempted
    BY <1>2 DEF Tried
  <1>5. probes[Top.dev][Top.at] = 1
    BY <1>2, <1>3, <1>4 DEF IInv, MaskIsHistory
  <1>6. "BOUND" \in States
    BY DEF States
  <1>7. QED BY <1>1, <1>2, <1>3, <1>4, <1>5, <1>6, BindReturns, Zenon

\* When no driver is left, the state says whether one matched.
LEMMA Fails ==
    ASSUME IInv, BindFails
    PROVE  IInv'
  <1> USE DeviceManagerAssumption
  <1> DEFINE v == Top.dev
             st == IF Top.seen \/ \E i \in Indices : Matching(i) THEN "PROBE_FAILED" ELSE "UNBOUND"
  <1>1. /\ stack # << >> /\ Top.call = "bind" /\ ~Top.probing /\ \A i \in Indices : ~Untried(i)
        /\ stack' = Tail(stack)
        /\ devices' = [devices EXCEPT ![v].driver = 0, ![v].state = st]
        /\ UNCHANGED <<drivers, driver_count, device_count, loaded, probes>>
    BY DEF BindFails, Binding
  <1>2. /\ Top \in Frame /\ Tried(Top) /\ v \in Slots /\ devices[v] \in Device
        /\ driver_count \in 0..MaxDrivers /\ devices \in [Slots -> Device]
    BY <1>1, InnermostBind DEF IInv, TypeOK
  <1>3. Top.at \in 0..driver_count /\ 1..driver_count \subseteq Indices
    BY <1>2 DEF Frame, Tried, Indices
  <1>4. \A i \in 1..driver_count : Candidate(devices[v], i) => i \in devices[v].attempted
    <2> SUFFICES ASSUME NEW i \in 1..driver_count, Candidate(devices[v], i)
                 PROVE  i \in devices[v].attempted
      OBVIOUS
    <2>1. CASE i \in 1..Top.at
      BY <1>2, <2>1 DEF Tried
    <2>2. CASE i \in Top.at + 1..driver_count
      BY <1>1, <1>3, <2>2 DEF Untried, Matching
    <2>3. QED BY <1>3, <2>1, <2>2
  <1>5. (Top.seen \/ \E i \in Indices : Matching(i)) <=> \E i \in 1..driver_count : Candidate(devices[v], i)
    <2>1. CASE Top.at = 0
      <3>1. ~Top.seen
        BY <1>2, <2>1 DEF Tried
      <3>2. \A i \in Indices : Matching(i) <=> i \in 1..driver_count /\ Candidate(devices[v], i)
        BY <2>1 DEF Matching
      <3>3. QED BY <1>3, <3>1, <3>2
    <2>2. CASE Top.at # 0
      <3>1. Top.seen /\ Candidate(devices[v], Top.at)
        BY <1>2, <2>2 DEF Tried
      <3>2. Top.at \in 1..driver_count
        BY <1>2, <1>3, <2>2
      <3>3. QED BY <3>1, <3>2
    <2>3. QED BY <2>1, <2>2
  <1>6. st \in States /\ st # "BOUND" /\ st # "DISCOVERED"
        /\ (st = "PROBE_FAILED" <=> \E i \in 1..driver_count : Candidate(devices[v], i))
    BY <1>5 DEF States
  <1> HIDE DEF st, v
  <1>7. \A w : w = v => Served(w)'
    <2>1. /\ devices'[v].state = st /\ devices'[v].attempted = devices[v].attempted
          /\ devices'[v].identity = devices[v].identity /\ devices'[v].expected = devices[v].expected
      BY <1>1, <1>2 DEF Device
    <2>2. \A i : Candidate(devices[v], i) <=> /\ Matches(drivers'[i], devices'[v].identity)
                                              /\ devices'[v].expected \in {NoDriver, drivers'[i]}
      BY <1>1, <2>1 DEF Candidate
    <2> SUFFICES ASSUME NEW w, w = v PROVE Served(w)'
      OBVIOUS
    <2>3. \A i : Candidate(devices[w], i)' <=> Candidate(devices[v], i)
      BY <2>2 DEF Candidate
    <2>4. devices'[w].state = st /\ devices'[w].attempted = devices[v].attempted /\ driver_count' = driver_count
      BY <1>1, <2>1
    <2>5. QED BY <1>4, <1>6, <2>3, <2>4 DEF Served
  <1>8. v = Top.dev /\ 0 \in 0..MaxDrivers
    BY DEF v
  <1>9. QED BY <1>1, <1>6, <1>7, <1>8, BindReturns, Zenon

\* In a step, at most the mask of device v grows.
MaskGrows(v) ==
    \A w \in Slots : /\ devices'[w].state = devices[w].state
                     /\ devices'[w].identity = devices[w].identity
                     /\ devices'[w].expected = devices[w].expected
                     /\ devices[w].attempted \subseteq devices'[w].attempted
                     /\ w # v => devices'[w] = devices[w]

\* bind_device moves on to frame f: nothing but the mask of its device changes.
LEMMA BindAdvances ==
    ASSUME IInv, stack # << >>, Top.call = "bind", NEW f \in Frame,
           f.call = "bind", f.dev = Top.dev, f.probing => f.at # 0, stack' = Push(f, Tail(stack)),
           UNCHANGED <<drivers, driver_count, device_count, loaded>>,
           devices' \in [Slots -> Device], probes' \in [Slots -> [Indices -> Nat]],
           MaskGrows(f.dev),
           MaskIsHistory', BoundToMatch', Tried(f)'
    PROVE  IInv'
  <1> USE DeviceManagerAssumption
  <1>0. TypeOK /\ Devices' = Devices /\ Devices \subseteq Slots
    BY DEF IInv, Devices, TypeOK, Slots
  <1>a. /\ Len(stack) \in Nat /\ Len(stack) >= 1
        /\ stack' \in Seq(Frame) /\ Len(stack') = Len(stack) /\ stack'[1] = f
        /\ \A j \in 2..Len(stack) : stack'[j] = stack[j]
    BY <1>0, ReplaceFacts, TailFacts DEF TypeOK
  <1>b. 1 \in Calls /\ stack[1].call = "bind" /\ stack[1].dev = f.dev
    BY <1>a DEF Calls, Top
  <1>c. Calls' = Calls /\ \A k \in Calls : k # 1 => stack'[k] = stack[k]
    BY <1>a DEF Calls
  <1>d. \A k \in Calls : stack'[k].call = stack[k].call /\ stack'[k].dev = stack[k].dev
    BY <1>a, <1>b, <1>c
  <1>1. TypeOK'
    BY <1>0, <1>a DEF TypeOK
  <1>2. BindsInProgress'
    <2> SUFFICES ASSUME NEW j \in Calls, stack'[j].call = "bind" PROVE Tried(stack[j])'
      BY <1>c DEF BindsInProgress
    <2>1. CASE j = 1
      BY <1>a, <2>1, Zenon DEF Tried
    <2>2. CASE j # 1
      <3>1. Tried(stack[j]) /\ stack'[j] = stack[j]
        BY <1>c, <2>2 DEF IInv, BindsInProgress
      <3>2. stack[j].dev # f.dev
        BY <1>b, <1>d, <2>2 DEF IInv, BoundByOne
      <3>3. devices'[stack[j].dev] = devices[stack[j].dev]
        BY <1>0, <3>1, <3>2 DEF Tried, MaskGrows
      <3>4. QED BY <1>0, <3>1, <3>3, ZenonT(60) DEF Tried, Candidate
    <2>3. QED BY <2>1, <2>2
  <1>3. BoundByOne'
    BY <1>c, <1>d DEF IInv, BoundByOne
  <1>4. LoopsOutermost'
    <2> SUFFICES ASSUME NEW j \in Calls
                 PROVE  /\ stack'[j].call # "bind" => j = Len(stack')
                        /\ stack'[j].probing => stack'[j].call = "bind" /\ stack'[j].at # 0
      BY <1>c DEF LoopsOutermost
    <2>1. CASE j = 1
      BY <1>a, <2>1
    <2>2. CASE j # 1
      BY <1>a, <1>c, <2>2 DEF IInv, LoopsOutermost
    <2>3. QED BY <2>1, <2>2
  <1>5. ServedOrPending'
    <2> SUFFICES ASSUME NEW w \in Devices PROVE devices'[w].state = "BOUND" \/ Pending(w)' \/ Served(w)'
      BY <1>0 DEF ServedOrPending
    <2>1. w \in Slots
      BY <1>0
    <2>2. Pending(w) => Pending(w)'
      BY <1>c, <1>d DEF Pending, WillVisit
    <2>3. Served(w) => Served(w)'
      BY <2>1 DEF Served, Candidate, MaskGrows
    <2>4. QED BY <2>1, <2>2, <2>3 DEF IInv, ServedOrPending, MaskGrows
  <1>6. QED BY <1>1, <1>2, <1>3, <1>4, <1>5 DEF IInv

\* After a failed probe the search goes on from the same driver.
LEMMA GoesOn ==
    ASSUME IInv, ProbeFails
    PROVE  IInv'
  <1> USE DeviceManagerAssumption
  <1> DEFINE f == [Top EXCEPT !.probing = FALSE]
  <1>1. /\ stack # << >> /\ Top.probing /\ stack' = Push(f, Tail(stack))
        /\ UNCHANGED <<drivers, driver_count, devices, device_count, loaded, probes>>
    BY DEF ProbeFails
  <1>2. Top \in Frame /\ Top.call = "bind" /\ Tried(Top)
    BY <1>1, InnermostBind
  <1>3. /\ f \in Frame /\ f.call = "bind" /\ f.dev = Top.dev /\ f.probing = FALSE
        /\ f.at = Top.at /\ f.seen = Top.seen
    BY <1>2, Zenon DEF Frame
  <1> HIDE DEF f
  <1>4. Tried(f)
    BY <1>2, <1>3 DEF Tried
  <1>5. \A g : g = f => Tried(g)'
    <2> SUFFICES ASSUME NEW g, g = f PROVE Tried(g)'
      OBVIOUS
    <2>1. Tried(g)
      BY <1>4
    <2>2. QED BY <1>1, <2>1 DEF Tried, Candidate, Devices
  <1>6. devices' \in [Slots -> Device] /\ probes' \in [Slots -> [Indices -> Nat]]
    BY <1>1 DEF IInv, TypeOK
  <1>7. MaskIsHistory' /\ BoundToMatch'
    BY <1>1 DEF IInv, MaskIsHistory, BoundToMatch, Devices, Candidate
  <1>8. MaskGrows(f.dev)
    BY <1>1 DEF MaskGrows
  <1>9. QED BY <1>1, <1>2, <1>3, <1>5, <1>6, <1>7, <1>8, BindAdvances

\* A probe is made of the first matching driver that was not tried.
LEMMA Probes ==
    ASSUME IInv, Probe
    PROVE  IInv'
  <1> USE DeviceManagerAssumption
  <1> DEFINE v == Top.dev
  <1>1. PICK i \in Indices :
          /\ Untried(i) /\ \A j \in Indices : Untried(j) => i <= j
          /\ devices' = [devices EXCEPT ![v].attempted = @ \cup {i}]
          /\ probes' = [probes EXCEPT ![v][i] = @ + 1]
          /\ stack' = Push([Top EXCEPT !.at = i, !.seen = TRUE, !.probing = TRUE], Tail(stack))
    BY Zenon DEF Probe
  <1>2. /\ stack # << >> /\ Top.call = "bind"
        /\ UNCHANGED <<drivers, driver_count, device_count, loaded>>
    BY DEF Probe, Binding
  <1> DEFINE f == [Top EXCEPT !.at = i, !.seen = TRUE, !.probing = TRUE]
  <1>3. /\ Top \in Frame /\ Tried(Top) /\ v \in Devices /\ v \in Slots /\ devices[v] \in Device
        /\ driver_count \in 0..MaxDrivers
    BY <1>2, InnermostBind
  <1>4. /\ f \in Frame /\ f.call = "bind" /\ f.dev = v /\ f.at = i /\ f.seen = TRUE
    <2>1. i \in 0..MaxDrivers
      BY DEF Indices
    <2>2. QED BY <1>2, <1>3, <2>1, Zenon DEF Frame
  <1>5. /\ i \in Top.at + 1..driver_count /\ Candidate(devices[v], i) /\ i \notin devices[v].attempted
        /\ i # 0
    BY <1>1 DEF Untried, Matching, Indices
  <1>6. /\ devices' \in [Slots -> Device]
        /\ \A w \in Slots : w # v => devices'[w] = devices[w]
        /\ devices'[v].state = devices[v].state /\ devices'[v].identity = devices[v].identity
        /\ devices'[v].expected = devices[v].expected /\ devices'[v].driver = devices[v].driver
        /\ devices'[v].attempted = devices[v].attempted \cup {i}
    <2>1. devices \in [Slots -> Device]
      BY DEF IInv, TypeOK
    <2> DEFINE r == [devices[v] EXCEPT !.attempted = @ \cup {i}]
    <2>2. /\ r \in Device /\ r.state = devices[v].state /\ r.identity = devices[v].identity
          /\ r.expected = devices[v].expected /\ r.driver = devices[v].driver
          /\ r.attempted = devices[v].attempted \cup {i}
      BY <1>3 DEF Device
    <2>3. devices' = [devices EXCEPT ![v] = r]
      BY <1>1, <1>3, <2>1
    <2> HIDE DEF r, v
    <2>4. QED BY <1>3, <2>1, <2>2, <2>3
  <1>7. /\ probes' \in [Slots -> [Indices -> Nat]]
        /\ \A w \in Slots, j \in Indices : probes'[w][j] = IF w = v /\ j = i THEN probes[w][j] + 1 ELSE probes[w][j]
    <2>1. probes \in [Slots -> [Indices -> Nat]]
      BY DEF IInv, TypeOK
    <2> HIDE DEF v
    <2>2. QED BY <1>1, <1>3, <2>1
  <1>8. MaskIsHistory'
    <2>1. v <= device_count
      BY <1>3 DEF Devices
    <2> HIDE DEF v
    <2>2. ASSUME NEW w \in Slots, NEW j \in Indices
          PROVE  probes'[w][j] = IF j \in devices'[w].attempted THEN 1 ELSE 0
      <3>0. probes[w][j] = IF j \in devices[w].attempted THEN 1 ELSE 0
        BY DEF IInv, MaskIsHistory
      <3>1. CASE w = v /\ j = i
        BY <1>5, <1>6, <1>7, <3>0, <3>1
      <3>2. CASE w = v /\ j # i
        BY <1>6, <1>7, <3>0, <3>2
      <3>3. CASE w # v
        BY <1>6, <1>7, <3>0, <3>3
      <3>4. QED BY <3>1, <3>2, <3>3
    <2>3. ASSUME NEW w \in Slots, w > device_count PROVE devices'[w].attempted = {}
      <3>1. w # v
        BY <1>3, <2>1, <2>3 DEF Slots, IInv, TypeOK
      <3>2. QED BY <1>6, <2>3, <3>1 DEF IInv, MaskIsHistory
    <2>4. QED BY <1>2, <2>2, <2>3 DEF MaskIsHistory
  <1>9. BoundToMatch'
    <2>1. devices[v].state # "BOUND"
      BY <1>3 DEF Tried
    <2> HIDE DEF v
    <2>2. \A w \in Devices : w \in Slots
      BY DEF IInv, TypeOK, Devices, Slots
    <2>3. 1..driver_count \subseteq Indices
      BY <1>3 DEF Indices
    <2> SUFFICES ASSUME NEW w \in Devices, devices'[w].state = "BOUND"
                 PROVE  /\ devices'[w].driver \in 1..driver_count
                        /\ Candidate(devices[w], devices[w].driver)'
                        /\ probes'[w][devices'[w].driver] = 1
      BY <1>2 DEF BoundToMatch, Devices
    <2>4. w # v /\ devices'[w] = devices[w]
      BY <1>6, <2>1, <2>2
    <2>5. /\ devices[w].driver \in 1..driver_count /\ Candidate(devices[w], devices[w].driver)
          /\ probes[w][devices[w].driver] = 1
      BY <2>4 DEF IInv, BoundToMatch
    <2>6. probes'[w][devices[w].driver] = 1
      BY <1>7, <2>2, <2>3, <2>4, <2>5
    <2>7. QED BY <1>2, <2>4, <2>5, <2>6 DEF Candidate
  <1>10. \A g : g = f => Tried(g)'
    <2> SUFFICES ASSUME NEW g, g = f PROVE Tried(g)'
      OBVIOUS
    <2>1. g.dev = v /\ g.at = i /\ g.seen = TRUE
      BY <1>4
    <2>2. devices'[v].state # "BOUND" /\ v \in Devices' /\ i <= driver_count'
      BY <1>2, <1>3, <1>5, <1>6 DEF Tried, Devices
    <2>3. Top.at \in Nat /\ i \in Nat
      BY <1>3 DEF Frame, Indices
    <2>4. ASSUME NEW j \in 1..i, Candidate(devices[v], j) PROVE j \in devices'[v].attempted
      <3>1. CASE j <= Top.at
        BY <1>3, <1>6, <2>3, <2>4, <3>1 DEF Tried
      <3>2. CASE j > Top.at /\ j # i
        <4>1. j \in Indices /\ j \in Top.at + 1..driver_count /\ j < i
          BY <1>3, <1>5, <2>3, <3>2 DEF Indices
        <4>2. ~Untried(j)
          BY <1>1, <2>3, <4>1
        <4>3. QED BY <1>6, <2>4, <4>1, <4>2 DEF Untried, Matching
      <3>3. CASE j = i
        BY <1>6, <3>3
      <3>4. QED BY <2>3, <3>1, <3>2, <3>3
    <2> HIDE DEF v, f
    <2>5. \A j : Candidate(devices[g.dev], j)' <=> Candidate(devices[v], j)
      BY <1>2, <1>6, <2>1, <1>3 DEF Candidate
    <2>6. QED BY <1>5, <1>6, <2>1, <2>2, <2>4, <2>5 DEF Tried
  <1> HIDE DEF f, v
  <1>11. MaskGrows(f.dev)
    BY <1>4, <1>6 DEF MaskGrows
  <1>12. f.dev = Top.dev /\ stack' = Push(f, Tail(stack)) /\ (f.probing => f.at # 0)
    BY <1>1, <1>4, <1>5 DEF f, v
  <1>13. devices' \in [Slots -> Device] /\ probes' \in [Slots -> [Indices -> Nat]]
    BY <1>6, <1>7
  <1>14. PICK g \in Frame : g = f
    BY <1>4
  <1>15. Tried(g)'
    BY <1>10, <1>14
  <1>16. /\ g.call = "bind" /\ g.dev = Top.dev /\ (g.probing => g.at # 0) /\ stack' = Push(g, Tail(stack))
    BY <1>4, <1>12, <1>14
  <1>17. MaskGrows(g.dev)
    BY <1>11, <1>14
  <1>18. QED BY <1>2, <1>8, <1>9, <1>13, <1>15, <1>16, <1>17, BindAdvances

\* IInv is inductive: it holds initially and every step, of any of the calls,
\* preserves it.
THEOREM Invariance == Spec => []IInv
  <1>1. Init => IInv
    BY InitIInv
  <1>2. IInv /\ [Next]_vars => IInv'
    <2> SUFFICES ASSUME IInv, [Next]_vars PROVE IInv'
      OBVIOUS
    <2>1. ASSUME NEW d \in Kinds, devmgr_register_driver(d) PROVE IInv'
      BY <2>1, RegisterDriver
    <2>2. ASSUME NEW id \in Identities, devmgr_register_device(id) PROVE IInv'
      BY <2>2, RegisterDevice
    <2>3. CASE devmgr_load_default_config
      BY <2>3, LoadConfig
    <2>4. CASE Running
      BY <2>4, LoopGoesOn, LoopReturns, Probes, Succeeds, GoesOn, Fails DEF Running
    <2>5. CASE UNCHANGED vars
      <3>0. UNCHANGED <<drivers, driver_count, devices, device_count, loaded, stack, probes>>
        BY <2>5 DEF vars
      <3>1. TypeOK' /\ MaskIsHistory'
        BY <3>0, ZenonT(60) DEF IInv, TypeOK, MaskIsHistory
      <3>2. BindsInProgress' /\ BoundByOne' /\ LoopsOutermost'
        BY <3>0 DEF IInv, BindsInProgress, BoundByOne, LoopsOutermost, Tried, Candidate, Calls, Devices
      <3>3. ServedOrPending'
        BY <3>0 DEF IInv, ServedOrPending, Served, Pending, WillVisit, Candidate, Calls, Devices
      <3>4. BoundToMatch'
        BY <3>0 DEF IInv, BoundToMatch, Candidate, Devices
      <3>5. QED BY <3>1, <3>2, <3>3, <3>4 DEF IInv
    <2>6. QED BY <2>1, <2>2, <2>3, <2>4, <2>5 DEF Next
  <1>3. QED BY <1>1, <1>2, PTL DEF Spec

\* No registration, whatever the calls nested in it, writes outside a table.
THEOREM TypeCorrect == Spec => []TypeOK
  <1>1. IInv => TypeOK
    BY DEF IInv
  <1>2. QED BY <1>1, Invariance, PTL

\* attempted_driver_mask does what it is for: however registrations nest, no
\* driver is probed twice with the same device.
THEOREM NeverProbedTwice == Spec => []ProbedOnce
  <1>1. IInv => ProbedOnce
    BY DEF IInv, MaskIsHistory, ProbedOnce
  <1>2. QED BY <1>1, Invariance, PTL

\* A device that bind_device marked bound has a driver that matches it, that
\* the catalog allows, and that was probed.
THEOREM BoundCorrectly == Spec => []BoundToMatch
  <1>1. IInv => BoundToMatch
    BY DEF IInv
  <1>2. QED BY <1>1, Invariance, PTL

\* When the outermost registration returns, every driver that could serve an
\* unbound device was tried with it.
THEOREM AllServed == Spec => []NothingMissed
  <1>1. IInv => NothingMissed
    <2> USE DeviceManagerAssumption
    <2> SUFFICES ASSUME IInv, stack = << >>, NEW v \in Devices, devices[v].state # "BOUND"
                 PROVE  /\ \A i \in 1..driver_count : Candidate(devices[v], i) => probes[v][i] = 1
                        /\ devices[v].state = "PROBE_FAILED" <=> \E i \in 1..driver_count : Candidate(devices[v], i)
                        /\ devices[v].state # "DISCOVERED"
      BY DEF NothingMissed
    <2>1. Served(v)
      BY DEF IInv, ServedOrPending, Pending, Calls
    <2>2. v \in Slots /\ 1..driver_count \subseteq Indices
      BY DEF IInv, TypeOK, Devices, Slots, Indices
    <2>3. \A i \in 1..driver_count : Candidate(devices[v], i) => probes[v][i] = 1
      BY <2>1, <2>2 DEF IInv, MaskIsHistory, Served
    <2>4. QED BY <2>1, <2>3 DEF Served
  <1>2. QED BY <1>1, Invariance, PTL

\* Rewriting some fields of one device that is not bound keeps what is bound.
LEMMA OneRewritten ==
    ASSUME TypeOK, NEW v \in Slots, devices[v].state # "BOUND", NEW r, r.identity = devices[v].identity,
           devices' = [devices EXCEPT ![v] = r]
    PROVE  KeepsBound
  <1>1. \A w \in Devices : w \in Slots
    BY DeviceManagerAssumption DEF TypeOK, Devices, Slots
  <1>2. devices'[v] = r /\ \A w \in Slots : w # v => devices'[w] = devices[w]
    BY DEF TypeOK
  <1>3. QED BY <1>1, <1>2 DEF KeepsBound

\* No call rebinds or unbinds a bound device: the loops skip it and no
\* bind_device in progress is on it.
THEOREM BoundForGood == Spec => BoundStays
  <1>1. IInv /\ [Next]_vars => [KeepsBound]_vars
    <2> SUFFICES ASSUME IInv, Next PROVE KeepsBound
      OBVIOUS
    <2> USE DeviceManagerAssumption
    <2>0. TypeOK /\ devices \in [Slots -> Device]
      BY DEF IInv, TypeOK
    <2>1. ASSUME devices' = devices PROVE KeepsBound
      BY <2>1 DEF KeepsBound
    <2>2. ASSUME NEW id \in Identities, devmgr_register_device(id) PROVE KeepsBound
      <3>1. \A w \in Devices : w \in Slots /\ w # device_count + 1
        BY <2>0 DEF TypeOK, Devices, Slots
      <3>2. \A w \in Slots : w # device_count + 1 => devices'[w] = devices[w]
        BY <2>0, <2>2 DEF devmgr_register_device
      <3>3. QED BY <3>1, <3>2 DEF KeepsBound
    <2>3. CASE LoopNext
      <3>1. PICK v \in Slots :
              /\ Todo(v)
              /\ devices' = IF Top.call = "config"
                            THEN [devices EXCEPT ![v].expected = Catalog(devices[v].identity)] ELSE devices
        BY <2>3, Zenon DEF LoopNext
      <3>2. CASE Top.call = "config"
        <4> DEFINE r == [devices[v] EXCEPT !.expected = Catalog(devices[v].identity)]
        <4>1. devices[v] \in Device /\ devices[v].state # "BOUND" /\ devices' = [devices EXCEPT ![v] = r]
          BY <2>0, <3>1, <3>2 DEF Todo
        <4>2. r.identity = devices[v].identity
          BY <4>1 DEF Device
        <4> HIDE DEF r
        <4>3. QED BY <2>0, <4>1, <4>2, OneRewritten, Zenon
      <3>3. CASE Top.call # "config"
        BY <2>1, <3>1, <3>3
      <3>4. QED BY <3>2, <3>3
    <2>4. ASSUME stack # << >>, Top.call = "bind" \/ Top.probing
          PROVE  Top.dev \in Slots /\ devices[Top.dev] \in Device /\ devices[Top.dev].state # "BOUND"
      BY <2>4, InnermostBind DEF Tried
    <2>5. CASE Probe
      <3>1. PICK i \in Indices : devices' = [devices EXCEPT ![Top.dev].attempted = @ \cup {i}]
        BY <2>5, Zenon DEF Probe
      <3>2. Top.dev \in Slots /\ devices[Top.dev] \in Device /\ devices[Top.dev].state # "BOUND"
        BY <2>4, <2>5 DEF Probe, Binding
      <3> DEFINE r == [devices[Top.dev] EXCEPT !.attempted = @ \cup {i}]
      <3>3. r.identity = devices[Top.dev].identity /\ devices' = [devices EXCEPT ![Top.dev] = r]
        BY <2>0, <3>1, <3>2 DEF Device
      <3> HIDE DEF r
      <3>4. QED BY <2>0, <3>2, <3>3, OneRewritten, Zenon
    <2>6. ASSUME NEW i, NEW st, stack # << >>, Top.call = "bind" \/ Top.probing,
                 devices' = [devices EXCEPT ![Top.dev].driver = i, ![Top.dev].state = st]
          PROVE  KeepsBound
      <3>1. Top.dev \in Slots /\ devices[Top.dev] \in Device /\ devices[Top.dev].state # "BOUND"
        BY <2>4, <2>6
      <3> DEFINE r == [devices[Top.dev] EXCEPT !.driver = i, !.state = st]
      <3>2. r.identity = devices[Top.dev].identity /\ devices' = [devices EXCEPT ![Top.dev] = r]
        BY <2>0, <2>6, <3>1, Zenon DEF Device
      <3> HIDE DEF r
      <3>3. QED BY <2>0, <3>1, <3>2, OneRewritten, Zenon
    <2>7. CASE ProbeSucceeds
      BY <2>6, <2>7, Zenon DEF ProbeSucceeds
    <2>8. CASE BindFails
      BY <2>6, <2>8, Zenon DEF BindFails, Binding
    <2>9. CASE LoopEnds \/ ProbeFails \/ devmgr_load_default_config \/ \E d \in Kinds : devmgr_register_driver(d)
      BY <2>1, <2>9 DEF LoopEnds, ProbeFails, devmgr_load_default_config, devmgr_register_driver
    <2>10. QED BY <2>2, <2>3, <2>5, <2>7, <2>8, <2>9 DEF Next, Running
  <1>2. QED BY <1>1, Invariance, PTL DEF Spec, BoundStays
=============================================================================
