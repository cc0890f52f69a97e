--------------------------- MODULE TorchBinding_proof ---------------------------
(***************************************************************************)
(* What an exception of the torch binding leaves behind it on the GPU, for *)
(* any number of runtimes, models and storages, whatever ends of waits,    *)
(* panics, faults and finalizers of other threads come between.            *)
(***************************************************************************)
EXTENDS TorchBinding, TLAPS

\* A call not looked at was waited for, or its runtime is poisoned or out of its wait.
CallInv ==
  call # None =>
    /\ call.on \in latched \/ running[call.on] = {} \/ call.on \in ranOut
    /\ call.status = "ok" => running[call.on] = {}
    /\ call.by \in Models => bound[call.by] = call.on

\* Only a runtime that was opened can be poisoned, or hold a model; none is leaked.
OpenedInv ==
  /\ \A r \in Runtimes : handle[r] # "leaked"
  /\ \A r \in committed : handle[r] # "none"
  /\ \A r \in Runtimes : running[r] # {} => r \in committed
  /\ \A m \in Models : model[m] = "live" => handle[bound[m]] # "none"
  /\ raised.error # "none" => raised.on \in Runtimes

IInv == TypeOK /\ CallInv /\ OpenedInv /\ UnsettledIsHeld

ThreadIdle == UNCHANGED <<local, call, raised>>

\* r's work is over, or its wait ran out.
Settled(r) == running[r] = {} \/ r \in ranOut

\* No runtime is let go of with its work going on.
DropsSettle == \A r \in Runtimes : Alive(r) => Alive(r)' \/ Settled(r)'

LEMMA AliveIs ==
  ASSUME NEW r
  PROVE  /\ Alive(r) <=> Owned(handle[r]) \/ \E m \in Models : bound[m] = r /\ Owned(model[m])
         /\ Alive(r)' <=> Owned(handle'[r]) \/ \E m \in Models : bound'[m] = r /\ Owned(model'[m])
BY DEF Alive, ModelsOf

\* guarded() leaves nothing behind that its status or the runtime does not tell.
GuardEffect(r, status) ==
  /\ running' \in [Runtimes -> SUBSET Storages]
  /\ committed' = committed \cup {r} /\ latched' \subseteq committed' /\ latched \subseteq latched'
  /\ ranOut' \in SUBSET Runtimes /\ ranOut \subseteq ranOut'
  /\ \A s \in Runtimes : s # r => running'[s] = running[s]
  /\ r \in latched' \/ running'[r] = {} \/ r \in ranOut'
  /\ status = "ok" => running'[r] = {}

LEMMA GuardedSettles ==
  ASSUME ApiTypeOK, NEW r \in Runtimes, NEW used \in SUBSET Storages, NEW status \in Statuses,
         Guarded(r, used, status)
  PROVE  GuardEffect(r, status)
<1>0. /\ running \in [Runtimes -> SUBSET Storages] /\ latched \subseteq committed
      /\ committed \subseteq Runtimes /\ ranOut \subseteq Runtimes
      /\ committed' = committed \cup {r}
  BY DEF ApiTypeOK, Guarded
<1>1. CASE WaitEnds(r)
  BY <1>0, <1>1 DEF WaitEnds, GuardEffect
<1>2. CASE status # "ok" /\ WaitFindsFault(r)
  BY <1>0, <1>2 DEF WaitFindsFault, GuardEffect
<1>3. CASE status # "ok" /\ WaitRunsOut(r, used)
  <2>1. PICK left \in SUBSET (running[r] \cup used) : running' = [running EXCEPT ![r] = left]
    BY <1>3 DEF WaitRunsOut
  <2>2. left \in SUBSET Storages
    BY <1>0, <2>1
  <2>3. ranOut' = ranOut \cup {r} /\ latched \subseteq latched' /\ latched' \subseteq latched \cup {r}
    BY <1>3 DEF WaitRunsOut
  <2> QED BY <1>0, <1>3, <2>1, <2>2, <2>3 DEF GuardEffect
<1>4. CASE status # "ok" /\ NoWait(r, used)
  <2>1. PICK left \in SUBSET (running[r] \cup used) : running' = [running EXCEPT ![r] = left]
    BY <1>4 DEF NoWait
  <2>2. left \in SUBSET Storages
    BY <1>0, <2>1
  <2>3. ranOut' = ranOut /\ latched' = latched \cup {r}
    BY <1>4 DEF NoWait
  <2> QED BY <1>0, <1>4, <2>1, <2>2, <2>3 DEF GuardEffect
<1> QED BY <1>1, <1>2, <1>3, <1>4 DEF Guarded

\* What a free of the handles hs and ms, all of them r's, leaves.
FreeEffect(r, hs, ms) ==
  /\ handle' \in [Runtimes -> HandleStates] /\ model' \in [Models -> HandleStates]
  /\ running' \in [Runtimes -> SUBSET Storages] /\ ranOut' \in SUBSET Runtimes
  /\ UNCHANGED <<bound, latched, committed>>
  /\ ranOut \subseteq ranOut' /\ \A s \in Runtimes : running'[s] \subseteq running[s]
  /\ \A s \in Runtimes : handle'[s] = IF s \in hs /\ handle[s] = "live" THEN "freed" ELSE handle[s]
  /\ \A m \in Models : model'[m] = IF m \in ms /\ model[m] = "live" THEN "freed" ELSE model[m]
  /\ DropsSettle

\* A free takes from no storage but those of a runtime it drops, whose wait it
\* reports when that ran out.
LEMMA FreeSettles ==
  ASSUME ApiTypeOK, NEW r \in Runtimes, NEW hs \in SUBSET {r}, NEW ms \in SUBSET Models,
         \A m \in ms : bound[m] = r, Free(r, hs, ms)
  PROVE  FreeEffect(r, hs, ms)
<1>0. /\ handle \in [Runtimes -> HandleStates] /\ model \in [Models -> HandleStates]
      /\ running \in [Runtimes -> SUBSET Storages] /\ ranOut \in SUBSET Runtimes
  BY DEF ApiTypeOK
<1>1. /\ handle' = [x \in Runtimes |-> IF x \in hs /\ handle[x] = "live" THEN "freed" ELSE handle[x]]
      /\ model' = [x \in Models |-> IF x \in ms /\ model[x] = "live" THEN "freed" ELSE model[x]]
      /\ UNCHANGED <<bound, latched, committed>>
      /\ Dropped(r, handle', model')
  BY <1>0 DEF Free, Freed
<1>2. \/ running' = [running EXCEPT ![r] = {}] /\ ranOut' = ranOut
      \/ ranOut' = ranOut \cup {r} /\ running' = running
      \/ (Alive(r) => Alive(r)') /\ UNCHANGED <<running, ranOut>>
  <2>1. Alive(r)' <=> (Owned(handle'[r]) \/ \E m \in ModelsOf(r) : Owned(model'[m]))
    BY <1>1 DEF Alive, ModelsOf
  <2>2. CASE Alive(r) /\ ~Alive(r)'
    <3>1. FinalWait(r)
      BY <1>1, <2>1, <2>2 DEF Dropped
    <3> QED BY <3>1 DEF FinalWait
  <2>3. CASE ~(Alive(r) /\ ~Alive(r)')
    <3>1. UNCHANGED <<running, ranOut>>
      BY <1>1, <2>1, <2>3 DEF Dropped
    <3> QED BY <2>3, <3>1
  <2> QED BY <2>2, <2>3
<1>3. /\ handle' \in [Runtimes -> HandleStates] /\ model' \in [Models -> HandleStates]
      /\ \A s \in Runtimes : handle'[s] = IF s \in hs /\ handle[s] = "live" THEN "freed" ELSE handle[s]
      /\ \A m \in Models : model'[m] = IF m \in ms /\ model[m] = "live" THEN "freed" ELSE model[m]
  BY <1>0, <1>1 DEF HandleStates
<1>4. /\ running' \in [Runtimes -> SUBSET Storages] /\ ranOut' \in SUBSET Runtimes
      /\ ranOut \subseteq ranOut' /\ \A s \in Runtimes : running'[s] \subseteq running[s]
  BY <1>0, <1>2
<1>5. ASSUME NEW s \in Runtimes, Alive(s) PROVE Alive(s)' \/ Settled(s)'
  <2>1. CASE s = r
    BY <1>0, <1>2, <1>5, <2>1 DEF Settled
  <2>2. CASE s # r
    <3>1. handle'[s] = handle[s]
      BY <1>3, <2>2
    <3>2. \A m \in Models : bound[m] = s => model'[m] = model[m] /\ bound'[m] = s
      BY <1>1, <1>3, <2>2
    <3> QED BY <1>5, <3>1, <3>2, AliveIs
  <2> QED BY <2>1, <2>2
<1> QED BY <1>1, <1>3, <1>4, <1>5 DEF FreeEffect, DropsSettle

LEMMA InitInvariant == Init => IInv
<1>1. SUFFICES ASSUME Init PROVE IInv
  OBVIOUS
<1>2. TypeOK
  BY <1>1 DEF Init, ApiInit, TypeOK, ApiTypeOK, HandleStates, Nothing, Errors
<1> QED BY <1>1, <1>2 DEF Init, ApiInit, IInv, CallInv, OpenedInv, UnsettledIsHeld, Nothing

-----------------------------------------------------------------------------
(* The invariant, action by action.                                        *)

\* Steps at which a call begins and returns.
LEMMA CallStep ==
  ASSUME IInv, NEW r \in Runtimes, NEW by \in Models \cup {None}, NEW used \in SUBSET Storages,
         NEW status \in Statuses, handle[r] # "none", Alive(r),
         Guarded(r, used, status), Returned(r, by, status),
         model' \in [Models -> HandleStates], bound' \in [Models -> Runtimes],
         \A s \in Runtimes : Alive(s) => Alive(s)',
         by \in Models => bound'[by] = r,
         \A m \in Models : model'[m] = "live" => handle[bound'[m]] # "none"
  PROVE  IInv'
<1>0. TypeOK /\ ApiTypeOK /\ OpenedInv
  BY DEF IInv, TypeOK
<1>1. /\ call' = [on |-> r, by |-> by, status |-> status] /\ raised' = Nothing
      /\ UNCHANGED <<handle, local>>
  BY DEF Returned
<1>2. call' # None /\ call' \in [on : Runtimes, by : Models \cup {None}, status : Statuses]
  BY <1>1, NoneAssumption
<1>3. GuardEffect(r, status)
  BY <1>0, GuardedSettles
<1>4. ApiTypeOK'
  BY <1>0, <1>1, <1>3 DEF ApiTypeOK, GuardEffect
<1>5. ASSUME NEW s \in Runtimes, running'[s] # {} PROVE Alive(s)' \/ s \in ranOut'
  <2>1. CASE s = r
    BY <2>1
  <2>2. CASE s # r
    <3>1. running[s] # {} /\ ranOut \subseteq ranOut'
      BY <1>3, <1>5, <2>2 DEF GuardEffect
    <3>2. Alive(s) \/ s \in ranOut
      BY <1>0, <3>1 DEF TypeOK
    <3> QED BY <3>1, <3>2
  <2> QED BY <2>1, <2>2
<1>6. raised' \in [error : Errors, on : Runtimes \cup {None}]
  BY <1>1 DEF Nothing, Errors
<1>7. local' \in Runtimes \cup {None}
  BY <1>0, <1>1 DEF TypeOK
<1>8. TypeOK'
  BY <1>2, <1>4, <1>5, <1>6, <1>7 DEF TypeOK
<1>9. CallInv'
  BY <1>1, <1>3 DEF CallInv, GuardEffect
<1>10. OpenedInv'
  BY <1>0, <1>1, <1>3 DEF OpenedInv, Nothing, GuardEffect
<1>11. UnsettledIsHeld'
  BY <1>1 DEF UnsettledIsHeld, Nothing
<1> QED BY <1>8, <1>9, <1>10, <1>11 DEF IInv

\* What the last exception says stays true while work ends and handles go.
LEMMA StillHeld ==
  ASSUME IInv, UNCHANGED <<handle, bound, raised>>, latched \subseteq latched',
         ranOut \subseteq ranOut', \A s \in Runtimes : running'[s] \subseteq running[s],
         \A m \in Models : model[m] = "leaked" => model'[m] = "leaked", DropsSettle
  PROVE  UnsettledIsHeld'
<1>1. SUFFICES ASSUME raised.error # "none", raised.on \notin ranOut', running'[raised.on] # {}
               PROVE  /\ raised.on \in latched' /\ handle[raised.on] = "freed"
                      /\ \E m \in Models : /\ bound[m] = raised.on
                                           /\ IF raised.error = "TesslPoisoned" THEN model'[m] = "leaked"
                                              ELSE Owned(model'[m])
  BY DEF UnsettledIsHeld, ModelsOf
<1>2. raised.on \in Runtimes
  BY <1>1 DEF IInv, OpenedInv
<1>3. raised.on \notin ranOut /\ running[raised.on] # {}
  BY <1>1, <1>2
<1>4. PICK m \in Models : /\ bound[m] = raised.on
                          /\ IF raised.error = "TesslPoisoned" THEN model[m] = "leaked"
                             ELSE Owned(model[m])
  BY <1>1, <1>3 DEF IInv, UnsettledIsHeld, ModelsOf
<1>5. raised.on \in latched' /\ handle[raised.on] = "freed"
  BY <1>1, <1>3 DEF IInv, UnsettledIsHeld
<1>6. CASE raised.error = "TesslPoisoned"
  BY <1>4, <1>5, <1>6
<1>7. CASE raised.error # "TesslPoisoned"
  <2>1. Alive(raised.on)
    BY <1>4, <1>7, AliveIs
  <2>2. Alive(raised.on)'
    BY <1>1, <1>2, <2>1 DEF DropsSettle, Settled
  <2>3. ~Owned(handle'[raised.on])
    BY <1>5 DEF Owned
  <2> QED BY <1>5, <1>7, <2>2, <2>3, AliveIs
<1> QED BY <1>6, <1>7

\* A runtime whose last handle goes is settled.
LEMMA NothingBehind ==
  ASSUME TypeOK, ranOut \subseteq ranOut', \A s \in Runtimes : running'[s] \subseteq running[s],
         DropsSettle, NEW r \in Runtimes, running'[r] # {}
  PROVE  Alive(r)' \/ r \in ranOut'
BY DEF TypeOK, DropsSettle, Settled

\* Steps between the calls of the thread.
LEMMA IdleStep ==
  ASSUME IInv, ThreadIdle, ApiTypeOK', UNCHANGED <<handle, bound, committed>>,
         latched \subseteq latched',
         ranOut \subseteq ranOut', \A s \in Runtimes : running'[s] \subseteq running[s],
         \A m \in Models : model'[m] = "live" => model[m] = "live",
         \A m \in Models : model[m] = "leaked" => model'[m] = "leaked", DropsSettle
  PROVE  IInv'
<1>0. TypeOK /\ CallInv /\ OpenedInv
  BY DEF IInv
<1>1. TypeOK'
  <2>1. \A r \in Runtimes : running'[r] # {} => Alive(r)' \/ r \in ranOut'
    BY <1>0, NothingBehind
  <2> QED BY <1>0, <2>1 DEF TypeOK, ThreadIdle
<1>2. CallInv'
  <2>1. call # None => call.on \in Runtimes
    BY <1>0 DEF TypeOK
  <2> QED BY <1>0, <2>1 DEF CallInv, ThreadIdle
<1>3. OpenedInv'
  BY <1>0 DEF OpenedInv, ThreadIdle
<1>4. UnsettledIsHeld'
  BY StillHeld DEF ThreadIdle
<1> QED BY <1>1, <1>2, <1>3, <1>4 DEF IInv

\* Steps that move no handle drop no runtime.
LEMMA HandlesStay ==
  ASSUME UNCHANGED <<handle, model, bound>>
  PROVE  DropsSettle
BY AliveIs DEF DropsSettle

\* A call that is looked at with nothing closed.
LEMMA LooksStep ==
  ASSUME IInv, call # None, call' = None, UNCHANGED <<apiVars, local>>,
         NEW error \in Errors, NEW on \in Runtimes \cup {None},
         raised' = [error |-> error, on |-> on], error # "none" => on \in Runtimes,
         UnsettledIsHeld'
  PROVE  IInv'
<1>0. TypeOK /\ ApiTypeOK /\ OpenedInv
  BY DEF IInv, TypeOK
<1>1. ApiTypeOK' /\ \A r \in Runtimes : running'[r] # {} => Alive(r)' \/ r \in ranOut'
  BY <1>0, AliveIs DEF apiVars, ApiTypeOK, TypeOK
<1>2. TypeOK'
  BY <1>0, <1>1 DEF TypeOK
<1>3. CallInv' /\ OpenedInv'
  BY <1>0 DEF CallInv, OpenedInv, apiVars
<1> QED BY <1>2, <1>3 DEF IInv

\* A call that is looked at and closes the runtime, and of its models ms.
LEMMA ClosesStep ==
  ASSUME IInv, NEW r \in Runtimes, NEW ms \in SUBSET Models, FreeEffect(r, {r}, ms),
         call' = None, NEW error \in Errors, raised' = [error |-> error, on |-> r],
         local' \in Runtimes \cup {None}, UnsettledIsHeld'
  PROVE  IInv'
<1>0. TypeOK /\ ApiTypeOK /\ OpenedInv
  BY DEF IInv, TypeOK
<1>1. ApiTypeOK'
  BY <1>0 DEF FreeEffect, ApiTypeOK
<1>2. \A s \in Runtimes : running'[s] # {} => Alive(s)' \/ s \in ranOut'
  BY <1>0, NothingBehind DEF FreeEffect
<1>3. TypeOK'
  BY <1>1, <1>2 DEF TypeOK
<1>4. OpenedInv'
  <2>1. \A s \in Runtimes : handle'[s] # "leaked" /\ (handle[s] # "none" => handle'[s] # "none")
    BY <1>0 DEF FreeEffect, OpenedInv
  <2>2. bound \in [Models -> Runtimes] /\ committed \subseteq Runtimes
    BY <1>0 DEF ApiTypeOK
  <2> QED BY <1>0, <2>1, <2>2 DEF FreeEffect, OpenedInv
<1> QED BY <1>3, <1>4 DEF IInv, CallInv

LEMMA NextStep == ASSUME IInv, [Next]_vars PROVE IInv'
<1>0. TypeOK /\ ApiTypeOK /\ CallInv /\ OpenedInv
  BY DEF IInv, TypeOK
<1>1. ASSUME NEW r \in Runtimes, NewRuntime(r) PROVE IInv'
  <2>1. /\ call = None /\ call' = None /\ handle[r] = "none"
        /\ \/ handle' = [handle EXCEPT ![r] = "live"] /\ local' = r /\ raised' = Nothing
           \/ /\ handle' = [handle EXCEPT ![r] = "freed"] /\ local' = local
              /\ raised' = [error |-> "TesslError", on |-> r]
        /\ UNCHANGED <<model, bound, latched, committed, running, ranOut>>
    BY <1>1 DEF NewRuntime
  <2>2. /\ handle' \in [Runtimes -> HandleStates] /\ handle \in [Runtimes -> HandleStates]
        /\ \A s \in Runtimes : s # r => handle'[s] = handle[s]
        /\ handle'[r] \in {"live", "freed"} /\ bound \in [Models -> Runtimes]
        /\ committed \subseteq Runtimes
    BY <1>0, <2>1 DEF ApiTypeOK, HandleStates
  <2>3. ~Owned(handle[r])
    BY <2>1 DEF Owned
  <2>4. ASSUME NEW s \in Runtimes, running'[s] # {} PROVE Alive(s)' \/ s \in ranOut'
    <3>1. Alive(s) \/ s \in ranOut
      BY <1>0, <2>1, <2>4 DEF TypeOK
    <3>2. Alive(s) => Alive(s)'
      BY <2>1, <2>2, <2>3, AliveIs
    <3> QED BY <2>1, <3>1, <3>2
  <2>5. TypeOK'
    <3>1. ApiTypeOK'
      BY <1>0, <2>1, <2>2 DEF ApiTypeOK
    <3>2. raised' \in [error : Errors, on : Runtimes \cup {None}]
      BY <2>1 DEF Nothing, Errors
    <3> QED BY <1>0, <2>1, <2>4, <3>1, <3>2 DEF TypeOK
  <2>6. CallInv' /\ OpenedInv'
    BY <1>0, <2>1, <2>2 DEF CallInv, OpenedInv, Nothing
  <2>7. UnsettledIsHeld'
    <3>2. CASE raised' = Nothing
      BY <3>2 DEF UnsettledIsHeld, Nothing
    <3>3. CASE raised' # Nothing
      <4>1. raised'.on = r /\ raised'.error = "TesslError"
        BY <2>1, <3>3
      <4>2. running'[r] = {}
        BY <1>0, <2>1 DEF OpenedInv
      <4> QED BY <4>1, <4>2 DEF UnsettledIsHeld
    <3> QED BY <3>2, <3>3
  <2> QED BY <2>5, <2>6, <2>7 DEF IInv
<1>2. ASSUME NEW used \in SUBSET Storages, NEW status \in Statuses, RuntimeCall(used, status)
      PROVE  IInv'
  <2>1. /\ local \in Runtimes /\ handle[local] = "live" /\ UNCHANGED <<model, bound>>
        /\ Guarded(local, used, status) /\ Returned(local, None, status)
    BY <1>0, <1>2 DEF RuntimeCall, LocalIsOpen, TypeOK
  <2>2. UNCHANGED handle
    BY <2>1 DEF Returned
  <2>3. Alive(local) /\ \A s \in Runtimes : Alive(s) => Alive(s)'
    BY <2>1, <2>2, AliveIs DEF Owned
  <2>4. /\ model' \in [Models -> HandleStates] /\ bound' \in [Models -> Runtimes]
        /\ \A m \in Models : model'[m] = "live" => handle[bound'[m]] # "none"
    BY <1>0, <2>1 DEF ApiTypeOK, OpenedInv
  <2>5. handle[local] # "none" /\ None \notin Models
    BY <2>1, NoneAssumption
  <2> QED BY <2>1, <2>3, <2>4, <2>5, CallStep
<1>3. ASSUME NEW m \in Models, NEW status \in Statuses, Load(m, status) PROVE IInv'
  <2>1. /\ local \in Runtimes /\ handle[local] = "live" /\ model[m] = "none"
        /\ Guarded(local, {}, status) /\ Returned(local, None, status)
        /\ \/ model' = [model EXCEPT ![m] = "live"] /\ bound' = [bound EXCEPT ![m] = local]
           \/ UNCHANGED <<model, bound>>
    BY <1>0, <1>3 DEF Load, LocalIsOpen, TypeOK
  <2>2. UNCHANGED handle
    BY <2>1 DEF Returned
  <2>3. /\ model' \in [Models -> HandleStates] /\ bound' \in [Models -> Runtimes]
        /\ \A n \in Models : n # m => model'[n] = model[n] /\ bound'[n] = bound[n]
        /\ \A n \in Models : model'[n] = "live" => handle[bound'[n]] # "none"
    BY <1>0, <2>1 DEF ApiTypeOK, OpenedInv, HandleStates
  <2>4. ~Owned(model[m])
    BY <2>1 DEF Owned
  <2>5. Alive(local) /\ \A s \in Runtimes : Alive(s) => Alive(s)'
    BY <2>1, <2>2, <2>3, <2>4, AliveIs DEF Owned
  <2>6. handle[local] # "none" /\ None \notin Models /\ {} \in SUBSET Storages
    BY <2>1, NoneAssumption
  <2> QED BY <2>1, <2>3, <2>5, <2>6, CallStep
<1>4. ASSUME NEW m \in Models, NEW used \in SUBSET Storages, NEW status \in Statuses,
             ModelCall(m, used, status)
      PROVE  IInv'
  <2>1. /\ bound[m] \in Runtimes /\ model[m] = "live" /\ UNCHANGED <<model, bound>>
        /\ Guarded(bound[m], used, status) /\ Returned(bound[m], m, status)
    BY <1>0, <1>4 DEF ModelCall, ApiTypeOK
  <2>2. UNCHANGED handle
    BY <2>1 DEF Returned
  <2>3. Alive(bound[m]) /\ \A s \in Runtimes : Alive(s) => Alive(s)'
    BY <2>1, <2>2, AliveIs DEF Owned
  <2>4. /\ model' \in [Models -> HandleStates] /\ bound' \in [Models -> Runtimes]
        /\ handle[bound[m]] # "none"
        /\ \A n \in Models : model'[n] = "live" => handle[bound'[n]] # "none"
    BY <1>0, <2>1 DEF ApiTypeOK, OpenedInv
  <2> QED BY <2>1, <2>3, <2>4, CallStep
<1>5. CASE Succeeds
  <2>1. /\ call # None /\ call' = None /\ raised' = [error |-> "none", on |-> None]
        /\ UNCHANGED <<apiVars, local>>
    BY <1>5 DEF Succeeds, Raises
  <2>2. UnsettledIsHeld' /\ "none" \in Errors
    BY <2>1 DEF UnsettledIsHeld, Errors
  <2> QED BY <2>1, <2>2, LooksStep
<1>6. CASE Panics
  <2>1. call # None
    BY <1>6 DEF Panics, Raises
  <2>2. PICK r \in Runtimes : r = call.on
    BY <1>0, <2>1 DEF TypeOK
  <2>3. PICK ms \in SUBSET Models : ms = {call.by} \cap Models
    OBVIOUS
  <2>4. /\ call' = None /\ raised' = [error |-> "TesslPanic", on |-> r] /\ local' = local
        /\ Free(r, {r}, ms)
    BY <1>6, <2>2, <2>3 DEF Panics, Raises, Free, Dropped, Alive, ModelsOf, FinalWait
  <2>5. \A m \in ms : bound[m] = r
    BY <1>0, <2>1, <2>2, <2>3 DEF CallInv
  <2>6. FreeEffect(r, {r}, ms)
    BY <1>0, <2>4, <2>5, FreeSettles
  <2>7. UnsettledIsHeld'
    <3>1. ASSUME r \notin ranOut', running'[r] # {}
          PROVE  /\ r \in latched /\ handle'[r] = "freed"
                 /\ \E m \in Models : bound'[m] = r /\ Owned(model'[m])
      <4>1. r \notin ranOut /\ running[r] # {}
        BY <2>6, <3>1 DEF FreeEffect
      <4>2. r \in latched
        BY <1>0, <2>1, <2>2, <4>1 DEF CallInv
      <4>3. handle'[r] = "freed"
        <5>1. handle[r] \in HandleStates /\ handle[r] # "none" /\ handle[r] # "leaked"
          BY <1>0, <4>2 DEF ApiTypeOK, OpenedInv
        <5> QED BY <2>6, <5>1 DEF FreeEffect, HandleStates
      <4>4. Alive(r)'
        BY <1>0, <2>6, <3>1, NothingBehind DEF FreeEffect
      <4> QED BY <4>2, <4>3, <4>4, AliveIs DEF Owned
    <3>2. latched' = latched
      BY <2>6 DEF FreeEffect
    <3> QED BY <2>4, <3>1, <3>2 DEF UnsettledIsHeld, ModelsOf
  <2>8. local' \in Runtimes \cup {None} /\ "TesslPanic" \in Errors
    BY <1>0, <2>4 DEF TypeOK, Errors
  <2> QED BY <2>4, <2>6, <2>7, <2>8, ClosesStep
<1>7. CASE Poisons
  <2>1. call # None
    BY <1>7 DEF Poisons, Raises
  <2>2. PICK r \in Runtimes : r = call.on
    BY <1>0, <2>1 DEF TypeOK
  <2>3. PICK ms \in SUBSET Models : ms = ModelsOf(r)
    BY DEF ModelsOf
  <2>4. /\ call' = None /\ raised' = [error |-> "TesslPoisoned", on |-> r]
        /\ local' = IF local = r THEN None ELSE local
        /\ Free(r, {r}, ms) /\ handle[r] = "live" /\ r \in latched
    BY <1>7, <2>2, <2>3 DEF Poisons, Raises, FoundPoisoned, Free, Dropped, Alive, ModelsOf, FinalWait
  <2>5. \A m \in ms : bound[m] = r
    BY <2>3 DEF ModelsOf
  <2>6. FreeEffect(r, {r}, ms)
    BY <1>0, <2>4, <2>5, FreeSettles
  <2>7. UnsettledIsHeld'
    <3>1. handle'[r] = "freed" /\ latched' = latched
      BY <2>4, <2>6 DEF FreeEffect
    <3>2. \A m \in Models : bound'[m] = r => model'[m] # "live"
      BY <2>3, <2>6 DEF FreeEffect, ModelsOf
    <3>3. ASSUME r \notin ranOut', running'[r] # {}
          PROVE  \E m \in Models : bound'[m] = r /\ model'[m] = "leaked"
      <4>1. Alive(r)'
        BY <1>0, <2>6, <3>3, NothingBehind DEF FreeEffect
      <4> QED BY <3>1, <3>2, <4>1, AliveIs DEF Owned
    <3> QED BY <2>4, <3>1, <3>3 DEF UnsettledIsHeld, ModelsOf
  <2>8. local' \in Runtimes \cup {None} /\ "TesslPoisoned" \in Errors
    BY <1>0, <2>4 DEF TypeOK, Errors
  <2> QED BY <2>4, <2>6, <2>7, <2>8, ClosesStep
<1>8. CASE Refuses
  <2>1. /\ call # None /\ call' = None /\ raised' = [error |-> "TesslError", on |-> call.on]
        /\ UNCHANGED <<apiVars, local>>
        /\ handle[call.on] # "live" \/ call.on \notin latched
    BY <1>8 DEF Refuses, Raises, FoundPoisoned
  <2>2. call.on \in Runtimes /\ "TesslError" \in Errors
    BY <1>0, <2>1 DEF TypeOK, Errors
  <2>3. ASSUME call.on \notin ranOut, running[call.on] # {}
        PROVE  /\ call.on \in latched /\ handle[call.on] = "freed"
               /\ \E m \in Models : bound[m] = call.on /\ Owned(model[m])
    <3>1. call.on \in latched
      BY <1>0, <2>1, <2>3 DEF CallInv
    <3>2. handle[call.on] = "freed"
      <4>1. handle[call.on] \in HandleStates /\ handle[call.on] \notin {"none", "leaked", "live"}
        BY <1>0, <2>1, <2>2, <3>1 DEF ApiTypeOK, OpenedInv
      <4> QED BY <4>1 DEF HandleStates
    <3>3. Alive(call.on)
      BY <1>0, <2>2, <2>3 DEF TypeOK
    <3> QED BY <3>1, <3>2, <3>3, AliveIs DEF Owned
  <2>4. UnsettledIsHeld'
    BY <2>1, <2>3 DEF UnsettledIsHeld, ModelsOf, apiVars
  <2> QED BY <2>1, <2>2, <2>4, LooksStep
<1>9. ASSUME NEW m \in Models, Close(m) PROVE IInv'
  <2>1. PICK r \in Runtimes : r = bound[m]
    BY <1>0 DEF ApiTypeOK
  <2>2. Free(r, {}, {m}) /\ ThreadIdle
    BY <1>9, <2>1 DEF Close, ThreadIdle, Free, Dropped, Alive, ModelsOf, FinalWait
  <2>3. FreeEffect(r, {}, {m})
    <3>1. {} \in SUBSET {r} /\ {m} \in SUBSET Models /\ \A n \in {m} : bound[n] = r
      BY <2>1
    <3> QED BY <1>0, <2>2, <3>1, FreeSettles
  <2>4. UNCHANGED handle
    <3>1. \A s \in Runtimes : handle'[s] = handle[s]
      BY <2>3 DEF FreeEffect
    <3> QED BY <1>0, <2>3, <3>1 DEF FreeEffect, ApiTypeOK
  <2>5. ApiTypeOK'
    BY <1>0, <2>3 DEF FreeEffect, ApiTypeOK
  <2> QED BY <2>2, <2>3, <2>4, <2>5, IdleStep DEF FreeEffect
<1>10. ASSUME NEW m \in Models, FinalizedElsewhere(m) PROVE IInv'
  <2>1. /\ ThreadIdle /\ model[m] = "live" /\ model' = [model EXCEPT ![m] = "leaked"]
        /\ UNCHANGED <<handle, bound, latched, committed, running, ranOut>>
    BY <1>10 DEF FinalizedElsewhere, ThreadIdle, LeakModel
  <2>2. ApiTypeOK' /\ model \in [Models -> HandleStates]
    BY <1>0, <2>1 DEF ApiTypeOK, HandleStates
  <2>3. DropsSettle
    <3>1. \A n \in Models : Owned(model[n]) => Owned(model'[n])
      BY <2>1, <2>2 DEF Owned
    <3> QED BY <2>1, <3>1, AliveIs DEF DropsSettle
  <2> QED BY <2>1, <2>2, <2>3, IdleStep
<1>11. ASSUME NEW r \in Runtimes, NEW s \in Storages, GpuDone(r, s), ThreadIdle PROVE IInv'
  <2>1. /\ ApiTypeOK' /\ \A q \in Runtimes : running'[q] \subseteq running[q]
        /\ UNCHANGED <<handle, model, bound, latched, committed, ranOut>>
    BY <1>0, <1>11 DEF GpuDone, ApiTypeOK
  <2> QED BY <1>11, <2>1, HandlesStay, IdleStep
<1>12. ASSUME NEW r \in Runtimes, GpuFault(r), ThreadIdle PROVE IInv'
  <2>1. /\ ApiTypeOK' /\ latched \subseteq latched'
        /\ UNCHANGED <<handle, model, bound, committed, running, ranOut>>
    BY <1>0, <1>12 DEF GpuFault, ApiTypeOK
  <2> QED BY <1>12, <2>1, HandlesStay, IdleStep
<1>13. CASE UNCHANGED vars
  <2>1. /\ ThreadIdle /\ UNCHANGED <<handle, model, bound, latched, committed, running, ranOut>>
    BY <1>13 DEF vars, apiVars, ThreadIdle
  <2>2. ApiTypeOK'
    BY <1>0, <2>1 DEF ApiTypeOK
  <2> QED BY <2>1, <2>2, HandlesStay, IdleStep
<1> QED BY <1>1, <1>2, <1>3, <1>4, <1>5, <1>6, <1>7, <1>8, <1>9, <1>10, <1>11, <1>12, <1>13
        DEF Next, ThreadIdle

\* Why an exception may be believed, and how far: the runtime its call ran on
\* was waited for, is poisoned, or ran out of its wait, and a poisoned one is
\* let go of only after its destructor waited.
THEOREM Inductive == Spec => []IInv
BY InitInvariant, NextStep, PTL DEF Spec

\* Every variable of the C ABI and of the binding keeps its type, and work goes
\* on after its runtime is gone only when the destructor's wait ran out, for any
\* number of runtimes, models and storages.
THEOREM TypeCorrect == Spec => []TypeOK
<1>1. IInv => TypeOK
  BY DEF IInv
<1> QED BY <1>1, Inductive, PTL

\* Whatever the calls, their panics, poison and faults, the GPU and the collector
\* of another thread do: work that goes on behind any exception, no wait having
\* run out, is on a poisoned and closed runtime that a model still holds, and
\* after TesslPoisoned on one that a leaked model holds.
THEOREM UnsettledCorrect == Spec => []UnsettledIsHeld
<1>1. IInv => UnsettledIsHeld
  BY DEF IInv
<1> QED BY <1>1, Inductive, PTL
=============================================================================
