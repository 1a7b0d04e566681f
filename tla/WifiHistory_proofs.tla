------------------------- MODULE WifiHistory_proofs -------------------------
(***************************************************************************)
(* Theorems about WifiHistory, for every number of slots and every set of  *)
(* networks, passwords and tasks.  HistoryWellFormed is not inductive: in  *)
(* the middle of a shift the array does hold an entry twice.  The          *)
(* strengthening says where: only the slot about to be overwritten, "hole",*)
(* may differ from a well-formed array that lacks the new entry's network. *)
(*                                                                         *)
(* The second part shows, step by step, that WifiHistory implements        *)
(* RecentStore; the third that an acknowledged save survives, from where   *)
(* its entry is in each array.                                             *)
(***************************************************************************)
EXTENDS WifiHistory, Sequences, NaturalsInduction, FiniteSetTheorems, TLAPS

\* While operations do not overlap, one task at most is in a save, and only
\* once the history has been loaded.
OneAtATime ==
    /\ \A t, u \in Tasks : pc[t] # "idle" /\ pc[u] # "idle" => t = u
    /\ \A t \in Tasks : pc[t] # "idle" => loaded

Without(h, open, n) ==
    \A j \in Slots \ open : h[j] # None => h[j].ssid # n

\* In the middle of a shift.
ShiftInv ==
    \A t \in Tasks : pc[t] = "shift" =>
        /\ entry[t] \in Entry
        /\ DistinctExcept(saved_wifi, {hole[t]})
        /\ PackedExcept(saved_wifi, {hole[t]})
        /\ Without(saved_wifi, {hole[t]}, entry[t].ssid)

IInv == /\ TypeOK
        /\ OneAtATime
        /\ ShiftInv
        /\ HistoryWellFormed
        /\ FlashWellFormed

-----------------------------------------------------------------------------

\* Target returns a slot: the only one that can hold network n when the
\* array holds no network twice, otherwise the last.
LEMMA TargetSlot ==
  ASSUME NEW h \in Array, NEW n \in Networks, DistinctExcept(h, {})
  PROVE  /\ Target(h, n) \in Slots
         /\ Without(h, {Target(h, n)}, n)
  <1> USE HistoryAssumption
  <1>1. CASE Matches(h, n) = {}
    <2>1. Target(h, n) = Max - 1
      BY <1>1 DEF Target
    <2>2. Without(h, {}, n)
      BY <1>1 DEF Matches, Without
    <2>3. QED
      BY <2>1, <2>2 DEF Without, Slots
  <1>2. CASE Matches(h, n) # {}
    <2>1. PICK i \in Matches(h, n) : TRUE
      BY <1>2
    <2>2. \A j \in Matches(h, n) : j = i
      BY <2>1 DEF Matches, DistinctExcept
    <2>3. \A j \in Matches(h, n) : i <= j
      BY <2>1, <2>2 DEF Matches, Slots
    <2>4. Target(h, n) \in Matches(h, n)
      BY <1>2, <2>1, <2>3 DEF Target
    <2>5. Target(h, n) = i
      BY <2>2, <2>4
    <2>6. QED
      BY <2>1, <2>2, <2>5 DEF Matches, Without
  <1>3. QED
    BY <1>1, <1>2

\* One round of the shifting loop moves the hole down by one slot.
LEMMA ShiftMovesHole ==
  ASSUME NEW h \in Array, NEW k \in Slots, k > 0, NEW n \in Networks,
         DistinctExcept(h, {k}), PackedExcept(h, {k}), Without(h, {k}, n)
  PROVE  LET g == [h EXCEPT ![k] = h[k - 1]]
         IN  /\ g \in Array
             /\ k - 1 \in Slots
             /\ DistinctExcept(g, {k - 1})
             /\ PackedExcept(g, {k - 1})
             /\ Without(g, {k - 1}, n)
  <1> DEFINE g == [h EXCEPT ![k] = h[k - 1]]
  <1> USE HistoryAssumption
  <1>1. k - 1 \in Slots /\ k - 1 # k
    BY DEF Slots
  <1>2. g \in Array
    BY <1>1 DEF Array
  <1>3. g[k] = h[k - 1] /\ \A i \in Slots \ {k} : g[i] = h[i]
    BY DEF Array
  <1> HIDE DEF g
  <1>4. DistinctExcept(g, {k - 1})
    BY <1>1, <1>3 DEF DistinctExcept
  <1>5. PackedExcept(g, {k - 1})
    <2> SUFFICES ASSUME NEW i \in Slots, NEW j \in Slots,
                        i # k - 1, j # k - 1, i < j, g[j] # None
                 PROVE  g[i] # None
      BY DEF PackedExcept
    <2>1. CASE j = k
      <3>1. i < k - 1 /\ i # k
        BY <2>1 DEF Slots
      <3>2. QED
        BY <1>1, <1>3, <2>1, <3>1 DEF PackedExcept
    <2>2. CASE i = k
      <3>1. k - 1 < j /\ j # k
        BY <2>2 DEF Slots
      <3>2. QED
        BY <1>1, <1>3, <2>2, <3>1 DEF PackedExcept
    <2>3. CASE i # k /\ j # k
      BY <1>3, <2>3 DEF PackedExcept
    <2>4. QED
      BY <2>1, <2>2, <2>3
  <1>6. Without(g, {k - 1}, n)
    BY <1>1, <1>3 DEF Without
  <1>7. QED
    BY <1>1, <1>2, <1>4, <1>5, <1>6 DEF g

\* Filling the hole at slot 0 yields a well-formed array.
LEMMA FrontClosesHole ==
  ASSUME NEW h \in Array, NEW e \in Entry,
         DistinctExcept(h, {0}), PackedExcept(h, {0}), Without(h, {0}, e.ssid)
  PROVE  /\ [h EXCEPT ![0] = e] \in Array
         /\ WellFormed([h EXCEPT ![0] = e])
  <1> DEFINE g == [h EXCEPT ![0] = e]
  <1> USE HistoryAssumption
  <1>1. 0 \in Slots /\ e # None
    BY DEF Slots
  <1>2. g \in Array
    BY <1>1 DEF Array, Slot
  <1>3. g[0] = e /\ \A i \in Slots \ {0} : g[i] = h[i]
    BY <1>1 DEF Array
  <1> HIDE DEF g
  <1>4. DistinctExcept(g, {})
    BY <1>1, <1>3 DEF DistinctExcept, Without
  <1>5. PackedExcept(g, {})
    BY <1>1, <1>3 DEF PackedExcept, Slots
  <1>6. QED
    BY <1>2, <1>4, <1>5 DEF WellFormed, g

\* The blank array is well-formed.
LEMMA BlankWellFormed == Blank \in Array /\ WellFormed(Blank)
  BY DEF Blank, Array, Slot, WellFormed, DistinctExcept, PackedExcept

-----------------------------------------------------------------------------

LEMMA InitIInv == Init => IInv
  <1> SUFFICES ASSUME Init PROVE IInv
    OBVIOUS
  <1> USE HistoryAssumption DEF Init
  <1>1. TypeOK
    <2>1. 0 \in Slots /\ None \in Slot
      BY DEF Slots, Slot
    <2>2. Blank \in Array
      BY BlankWellFormed
    <2>3. /\ pc \in [Tasks -> {"idle", "shift", "open", "set", "commit"}]
          /\ entry \in [Tasks -> Slot] /\ hole \in [Tasks -> Slots]
      BY <2>1
    <2>4. QED
      BY <2>1, <2>2, <2>3 DEF TypeOK
  <1>2. OneAtATime /\ ShiftInv
    BY DEF OneAtATime, ShiftInv
  <1>3. HistoryWellFormed /\ FlashWellFormed
    BY BlankWellFormed DEF HistoryWellFormed, FlashWellFormed
  <1>4. QED
    BY <1>1, <1>2, <1>3 DEF IInv

\* Find: the search of add_to_history leaves a hole at its target.
LEMMA FindStep ==
  ASSUME Overlap = FALSE, IInv,
         NEW t \in Tasks, NEW n \in Networks, NEW p \in Passwords, Find(t, n, p)
  PROVE  IInv'
  <1> USE HistoryAssumption DEF IInv
  <1>1. loaded /\ \A u \in Tasks : pc[u] = "idle"
    BY DEF Find, MayBegin, Quiet
  <1>2. WellFormed(saved_wifi) /\ saved_wifi \in Array
    BY <1>1 DEF HistoryWellFormed, Adding, TypeOK
  <1>3. /\ Target(saved_wifi, n) \in Slots
        /\ Without(saved_wifi, {Target(saved_wifi, n)}, n)
    BY <1>2, TargetSlot DEF WellFormed
  <1>4. TypeOK'
    <2>1. [ssid |-> n, password |-> p] \in Slot
      BY DEF Slot, Entry
    <2>2. QED
      BY <1>3, <2>1 DEF Find, Goto, TypeOK, nvs
  <1>5. OneAtATime'
    BY <1>1 DEF OneAtATime, Find, Goto, TypeOK
  <1>6. ShiftInv'
    <2> SUFFICES ASSUME NEW u \in Tasks, pc'[u] = "shift"
                 PROVE  /\ entry'[u] \in Entry
                        /\ DistinctExcept(saved_wifi', {hole'[u]})
                        /\ PackedExcept(saved_wifi', {hole'[u]})
                        /\ Without(saved_wifi', {hole'[u]}, entry'[u].ssid)
      BY DEF ShiftInv, DistinctExcept, PackedExcept, Without
    <2>1. u = t
      BY <1>1 DEF Find, Goto, TypeOK
    <2>2. /\ saved_wifi' = saved_wifi
          /\ entry'[u] = [ssid |-> n, password |-> p]
          /\ hole'[u] = Target(saved_wifi, n)
      BY <2>1 DEF Find, TypeOK
    <2>3. QED
      BY <1>2, <1>3, <2>2
         DEF WellFormed, DistinctExcept, PackedExcept, Without, Entry
  <1>7. HistoryWellFormed'
    BY <1>2 DEF Find, HistoryWellFormed, WellFormed, DistinctExcept, PackedExcept
  <1>8. FlashWellFormed'
    BY DEF Find, nvs, FlashWellFormed, WellFormed, DistinctExcept, PackedExcept
  <1>9. QED
    BY <1>4, <1>5, <1>6, <1>7, <1>8

\* Shift: the hole moves down by one slot.
LEMMA ShiftStep ==
  ASSUME IInv, NEW t \in Tasks, Shift(t)
  PROVE  IInv'
  <1> USE HistoryAssumption DEF IInv
  <1> DEFINE k == hole[t]
  <1>1. /\ pc[t] = "shift" /\ k \in Slots /\ k > 0 /\ saved_wifi \in Array
        /\ saved_wifi' = [saved_wifi EXCEPT ![k] = saved_wifi[k - 1]]
        /\ hole' = [hole EXCEPT ![t] = k - 1]
        /\ pc' = pc /\ entry' = entry /\ loaded' = loaded
        /\ written' = written /\ committed' = committed
        /\ owed' = owed /\ newer' = newer
    BY DEF Shift, TypeOK, nvs, hist
  <1>2. /\ entry[t] \in Entry
        /\ DistinctExcept(saved_wifi, {k})
        /\ PackedExcept(saved_wifi, {k})
        /\ Without(saved_wifi, {k}, entry[t].ssid)
    BY <1>1 DEF ShiftInv
  <1>3. entry[t].ssid \in Networks
    BY <1>2 DEF Entry
  <1> HIDE DEF k
  <1>4. /\ saved_wifi' \in Array
        /\ k - 1 \in Slots
        /\ DistinctExcept(saved_wifi', {k - 1})
        /\ PackedExcept(saved_wifi', {k - 1})
        /\ Without(saved_wifi', {k - 1}, entry[t].ssid)
    BY <1>1, <1>2, <1>3, ShiftMovesHole
  <1>5. TypeOK'
    BY <1>1, <1>4 DEF TypeOK
  <1>6. OneAtATime'
    BY <1>1 DEF OneAtATime
  <1>7. ShiftInv'
    <2> SUFFICES ASSUME NEW u \in Tasks, pc'[u] = "shift"
                 PROVE  /\ entry'[u] \in Entry
                        /\ DistinctExcept(saved_wifi', {hole'[u]})
                        /\ PackedExcept(saved_wifi', {hole'[u]})
                        /\ Without(saved_wifi', {hole'[u]}, entry'[u].ssid)
      BY DEF ShiftInv, DistinctExcept, PackedExcept, Without
    <2>1. u = t
      BY <1>1 DEF OneAtATime
    <2>2. hole'[u] = k - 1
      BY <1>1, <2>1 DEF TypeOK
    <2>3. QED
      BY <1>1, <1>2, <1>4, <2>1, <2>2
  <1>8. HistoryWellFormed'
    BY <1>1 DEF HistoryWellFormed, Adding
  <1>9. FlashWellFormed'
    BY <1>1 DEF FlashWellFormed, WellFormed, DistinctExcept, PackedExcept
  <1>10. QED
    BY <1>5, <1>6, <1>7, <1>8, <1>9

\* PutFront: the new entry closes the hole.
LEMMA PutFrontStep ==
  ASSUME IInv, NEW t \in Tasks, PutFront(t)
  PROVE  IInv'
  <1> USE HistoryAssumption DEF IInv
  <1>1. /\ pc[t] = "shift" /\ hole[t] = 0 /\ saved_wifi \in Array
        /\ saved_wifi' = [saved_wifi EXCEPT ![0] = entry[t]]
        /\ pc' = [pc EXCEPT ![t] = "open"]
        /\ hole' = hole /\ entry' = entry /\ loaded' = loaded
        /\ written' = written /\ committed' = committed
        /\ owed' = owed /\ newer' = newer
    BY DEF PutFront, Goto, TypeOK, nvs, hist
  <1>2. /\ entry[t] \in Entry
        /\ DistinctExcept(saved_wifi, {0})
        /\ PackedExcept(saved_wifi, {0})
        /\ Without(saved_wifi, {0}, entry[t].ssid)
    BY <1>1 DEF ShiftInv
  <1>3. saved_wifi' \in Array /\ WellFormed(saved_wifi')
    BY <1>1, <1>2, FrontClosesHole
  <1>4. TypeOK'
    BY <1>1, <1>3 DEF TypeOK
  <1>5. OneAtATime'
    BY <1>1 DEF OneAtATime, TypeOK
  <1>6. ShiftInv'
    BY <1>1, <1>5 DEF ShiftInv, OneAtATime, TypeOK
  <1>7. HistoryWellFormed'
    BY <1>3 DEF HistoryWellFormed, WellFormed, DistinctExcept, PackedExcept
  <1>8. FlashWellFormed'
    BY <1>1 DEF FlashWellFormed, WellFormed, DistinctExcept, PackedExcept
  <1>9. QED
    BY <1>4, <1>5, <1>6, <1>7, <1>8

\* The steps that leave the array alone and end inside the three NVS calls or
\* back at the caller.
LEMMA NvsStep ==
  ASSUME IInv, NEW t \in Tasks,
         OpenOk(t) \/ SetBlob(t) \/ Commit(t) \/ NvsError(t)
  PROVE  IInv'
  <1> USE HistoryAssumption DEF IInv
  <1>1. /\ pc[t] \in {"open", "set", "commit"}
        /\ saved_wifi' = saved_wifi /\ loaded' = loaded
        /\ pc'[t] # "shift" /\ \A u \in Tasks \ {t} : pc'[u] = pc[u]
    BY DEF OpenOk, SetBlob, Commit, NvsError, Goto, Return, nvs, TypeOK
  <1>2. \A u \in Tasks : pc[u] # "shift" /\ pc'[u] # "shift"
    BY <1>1 DEF OneAtATime
  <1>3. WellFormed(saved_wifi)
    BY <1>2 DEF HistoryWellFormed, Adding
  <1>4. TypeOK'
    <2>1. 0 \in Slots /\ None \in Slot
      BY DEF Slots, Slot
    <2>2. CASE OpenOk(t)
      BY <2>2 DEF OpenOk, Goto, TypeOK, nvs, hist
    <2>3. CASE SetBlob(t)
      BY <2>3 DEF SetBlob, Goto, TypeOK, hist
    <2>4. CASE Commit(t)
      <3>1. entry[t] \in Slot
        BY DEF TypeOK
      <3>2. QED
        BY <2>1, <2>4, <3>1 DEF Commit, Return, TypeOK
    <2>5. CASE NvsError(t)
      BY <2>1, <2>5 DEF NvsError, Return, TypeOK, nvs, hist
    <2>6. QED
      BY <2>2, <2>3, <2>4, <2>5
  <1>5. OneAtATime'
    BY <1>1 DEF OneAtATime
  <1>6. ShiftInv'
    BY <1>2 DEF ShiftInv
  <1>7. HistoryWellFormed'
    BY <1>1, <1>3
       DEF HistoryWellFormed, WellFormed, DistinctExcept, PackedExcept
  <1>8. FlashWellFormed'
    <2>1. /\ written' \in {written, saved_wifi}
          /\ committed' \in {committed, written}
      BY DEF OpenOk, SetBlob, Commit, NvsError, nvs
    <2>2. WellFormed(written) /\ WellFormed(committed)
      BY DEF FlashWellFormed
    <2>3. WellFormed(written')
      BY <1>3, <2>1, <2>2 DEF WellFormed, DistinctExcept, PackedExcept
    <2>4. WellFormed(committed')
      BY <2>1, <2>2 DEF WellFormed, DistinctExcept, PackedExcept
    <2>5. QED
      BY <2>3, <2>4 DEF FlashWellFormed, WellFormed, DistinctExcept, PackedExcept
  <1>9. QED
    BY <1>4, <1>5, <1>6, <1>7, <1>8

\* A reset, and the load that follows it.
LEMMA BootStep ==
  ASSUME IInv, Reset \/ Load \/ LoadError
  PROVE  IInv'
  <1> USE HistoryAssumption DEF IInv
  <1>1. \A u \in Tasks : pc'[u] = "idle"
    BY DEF Reset, Load, LoadError, task, OneAtATime, TypeOK
  <1>2. \A u \in Tasks : Load \/ LoadError => pc[u] = "idle"
    BY DEF Load, LoadError, OneAtATime
  <1>3. /\ WellFormed(written) /\ WellFormed(committed)
        /\ Load \/ LoadError => WellFormed(saved_wifi)
    BY <1>2 DEF FlashWellFormed, HistoryWellFormed, Adding
  <1>4. /\ saved_wifi' \in {saved_wifi, written, Blank}
        /\ saved_wifi' = saved_wifi => saved_wifi = Blank \/ Load \/ LoadError
        /\ written' \in {written, committed} /\ committed' \in {written, committed}
    BY DEF Reset, Load, LoadError, nvs
  <1>5. TypeOK'
    <2>1. 0 \in Slots /\ None \in Slot
      BY DEF Slots, Slot
    <2>2. CASE Reset
      BY <2>1, <2>2, BlankWellFormed DEF Reset, TypeOK, hist
    <2>3. CASE Load
      BY <2>3 DEF Load, TypeOK, nvs, task, hist
    <2>4. CASE LoadError
      BY <2>1, <2>4 DEF LoadError, TypeOK, nvs, task
    <2>5. QED
      BY <2>2, <2>3, <2>4
  <1>6. OneAtATime' /\ ShiftInv'
    BY <1>1 DEF OneAtATime, ShiftInv
  <1>7. WellFormed(saved_wifi')
    <2>1. CASE Reset
      BY <2>1, BlankWellFormed
         DEF Reset, WellFormed, DistinctExcept, PackedExcept
    <2>2. CASE Load
      BY <1>3, <2>2 DEF Load, WellFormed, DistinctExcept, PackedExcept
    <2>3. CASE LoadError
      BY <1>3, <2>3 DEF LoadError, WellFormed, DistinctExcept, PackedExcept
    <2>4. QED
      BY <2>1, <2>2, <2>3
  <1>8. HistoryWellFormed'
    BY <1>7 DEF HistoryWellFormed, WellFormed, DistinctExcept, PackedExcept
  <1>9. FlashWellFormed'
    BY <1>3, <1>4 DEF FlashWellFormed, WellFormed, DistinctExcept, PackedExcept
  <1>10. QED
    BY <1>5, <1>6, <1>8, <1>9

LEMMA NextIInv ==
  ASSUME Overlap = FALSE
  PROVE  IInv /\ [Next]_vars => IInv'
  <1> SUFFICES ASSUME IInv, [Next]_vars PROVE IInv'
    OBVIOUS
  <1>1. ASSUME NEW t \in Tasks, Step(t) PROVE IInv'
    BY <1>1, FindStep, ShiftStep, PutFrontStep, NvsStep DEF Step
  <1>2. CASE Reset \/ Load \/ LoadError
    BY <1>2, BootStep
  <1>3. CASE UNCHANGED vars
    BY <1>3 DEF vars, nvs, task, hist, IInv, TypeOK, OneAtATime, ShiftInv,
                HistoryWellFormed, FlashWellFormed, Adding, WellFormed,
                DistinctExcept, PackedExcept, Without
  <1>4. QED
    BY <1>1, <1>2, <1>3 DEF Next

-----------------------------------------------------------------------------

\* The inductive invariant, for tasks that do not overlap.
THEOREM Invariance == ASSUME Overlap = FALSE PROVE Spec => []IInv
  <1>1. IInv /\ [Next]_vars => IInv'
    BY NextIInv
  <1>2. QED
    BY <1>1, InitIInv, PTL DEF Spec

\* Every variable keeps its type; hole stays within the array, so that the
\* shifting loops read and write no slot outside it.
THEOREM TypeCorrect == ASSUME Overlap = FALSE PROVE Spec => []TypeOK
  <1>1. IInv => TypeOK
    BY DEF IInv
  <1>2. QED
    BY <1>1, Invariance, PTL

\* Between two adds the array holds every network once and its entries come
\* first, however many slots it has and however saves fail or are cut off.
THEOREM HistoryStaysWellFormed ==
  ASSUME Overlap = FALSE PROVE Spec => []HistoryWellFormed
  <1>1. IInv => HistoryWellFormed
    BY DEF IInv
  <1>2. QED
    BY <1>1, Invariance, PTL

\* What a boot loads is a well-formed history, whenever the reset came.
THEOREM FlashStaysWellFormed ==
  ASSUME Overlap = FALSE PROVE Spec => []FlashWellFormed
  <1>1. IInv => FlashWellFormed
    BY DEF IInv
  <1>2. QED
    BY <1>1, Invariance, PTL

-----------------------------------------------------------------------------
(* The array in use.                                                       *)

\* The array h after entry e has been moved to its front from slot k.
Front(h, e, k) ==
    [i \in Slots |-> IF i > k THEN h[i] ELSE IF i = 0 THEN e ELSE h[i - 1]]

\* The slot taken holds the network or is the last one.
LEMMA TargetHolds ==
  ASSUME NEW h \in Array, NEW n \in Networks, DistinctExcept(h, {})
  PROVE  /\ Matches(h, n) = {} => Target(h, n) = Max - 1
         /\ Matches(h, n) # {} => Matches(h, n) = {Target(h, n)}
  <1>1. CASE Matches(h, n) = {}
    BY <1>1 DEF Target
  <1>2. CASE Matches(h, n) # {}
    <2>1. PICK i \in Matches(h, n) : TRUE
      BY <1>2
    <2>2. Matches(h, n) = {i}
      BY <2>1 DEF Matches, DistinctExcept
    <2>3. i \in Nat
      BY <2>1, HistoryAssumption DEF Matches, Slots
    <2>4. Target(h, n) = CHOOSE k \in {i} : \A j \in {i} : k <= j
      BY <1>2, <2>2, Zenon DEF Target
    <2> QED
      BY <1>2, <2>2, <2>3, <2>4
  <1> QED
    BY <1>1, <1>2

\* An add is under way from its search on.
LEMMA InUseFind ==
  ASSUME Overlap = FALSE, IInv,
         NEW t \in Tasks, NEW n \in Networks, NEW p \in Passwords, Find(t, n, p)
  PROVE  /\ loaded /\ InUse = saved_wifi
         /\ saved_wifi \in Array /\ WellFormed(saved_wifi)
         /\ InUse' = Front(saved_wifi, [ssid |-> n, password |-> p],
                           Target(saved_wifi, n))
  <1>1. loaded /\ \A u \in Tasks : pc[u] = "idle"
    BY HistoryAssumption DEF Find, MayBegin, Quiet
  <1>2. Adding = {}
    BY <1>1 DEF Adding
  <1>3. saved_wifi \in Array /\ WellFormed(saved_wifi) /\ InUse = saved_wifi
    BY <1>2 DEF IInv, TypeOK, HistoryWellFormed, InUse
  <1>4. pc' = [pc EXCEPT ![t] = "shift"] /\ pc \in [Tasks -> {"idle", "shift",
               "open", "set", "commit"}]
    BY DEF Find, Goto, IInv, TypeOK
  <1>5. Adding' = {t}
    BY <1>1, <1>4 DEF Adding
  <1>6. InUse' = Finished(t)'
    BY <1>5 DEF InUse
  <1>7. /\ saved_wifi' = saved_wifi
        /\ hole'[t] = Target(saved_wifi, n)
        /\ entry'[t] = [ssid |-> n, password |-> p]
    BY DEF Find, IInv, TypeOK
  <1>8. Finished(t)' = Front(saved_wifi, [ssid |-> n, password |-> p],
                             Target(saved_wifi, n))
    BY <1>7 DEF Finished, Front
  <1> QED
    BY <1>1, <1>3, <1>6, <1>8

\* No other step of a save shows in the array in use: the rounds of the loop
\* only move entries to where the finished array has them.
LEMMA InUseKept ==
  ASSUME IInv, NEW t \in Tasks,
         \/ Shift(t) \/ PutFront(t)
         \/ OpenOk(t) \/ SetBlob(t) \/ Commit(t) \/ NvsError(t)
  PROVE  /\ InUse' = InUse /\ loaded
         /\ ~Shift(t) => InUse' = saved_wifi'
         /\ ~(Shift(t) \/ PutFront(t)) => InUse = saved_wifi
  <1> USE HistoryAssumption
  <1>1. /\ saved_wifi \in Array /\ hole \in [Tasks -> Slots]
        /\ entry \in [Tasks -> Slot]
        /\ pc \in [Tasks -> {"idle", "shift", "open", "set", "commit"}]
    BY DEF IInv, TypeOK
  <1>2. pc[t] # "idle"
    BY DEF Shift, PutFront, OpenOk, SetBlob, Commit, NvsError
  <1>3. loaded /\ \A u \in Tasks \ {t} : pc[u] = "idle"
    BY <1>2 DEF IInv, OneAtATime
  <1>4. Adding = IF pc[t] = "shift" THEN {t} ELSE {}
    BY <1>3 DEF Adding
  <1>5. CASE Shift(t)
    <2>1. /\ hole[t] > 0 /\ hole[t] \in Slots /\ pc[t] = "shift" /\ pc' = pc
          /\ saved_wifi' = [saved_wifi EXCEPT ![hole[t]] = saved_wifi[hole[t] - 1]]
          /\ hole'[t] = hole[t] - 1 /\ entry' = entry
      BY <1>1, <1>5 DEF Shift
    <2>2. Adding = {t} /\ Adding' = {t}
      BY <1>4, <2>1 DEF Adding
    <2>3. InUse = Finished(t) /\ InUse' = Finished(t)'
      BY <2>2 DEF InUse
    <2>4. /\ saved_wifi'[hole[t]] = saved_wifi[hole[t] - 1]
          /\ \A i \in Slots : i # hole[t] => saved_wifi'[i] = saved_wifi[i]
      BY <1>1, <2>1 DEF Array
    <2>5. \A i \in Slots : Finished(t)'[i] = Finished(t)[i]
      <3> TAKE i \in Slots
      <3>1. /\ i \in Nat /\ hole[t] \in Nat
            /\ i - 1 \in Slots \/ i = 0
        BY <2>1 DEF Slots
      <3>2. Finished(t)[i] = IF i > hole[t] THEN saved_wifi[i]
                             ELSE IF i = 0 THEN entry[t] ELSE saved_wifi[i - 1]
        BY DEF Finished
      <3>3. Finished(t)'[i] = IF i > hole[t] - 1 THEN saved_wifi'[i]
                              ELSE IF i = 0 THEN entry[t] ELSE saved_wifi'[i - 1]
        BY <2>1 DEF Finished
      <3>4. CASE i > hole[t]
        BY <2>4, <3>1, <3>2, <3>3, <3>4
      <3>5. CASE i = hole[t]
        BY <2>1, <2>4, <3>1, <3>2, <3>3, <3>5
      <3>6. CASE i < hole[t]
        BY <2>4, <3>1, <3>2, <3>3, <3>6
      <3> QED
        BY <3>1, <3>4, <3>5, <3>6
    <2>6. Finished(t)' = Finished(t)
      BY <2>5 DEF Finished
    <2> QED
      BY <1>3, <1>5, <2>3, <2>6
  <1>6. CASE PutFront(t)
    <2>1. /\ hole[t] = 0 /\ pc[t] = "shift" /\ 0 \in Slots
          /\ pc' = [pc EXCEPT ![t] = "open"]
          /\ saved_wifi' = [saved_wifi EXCEPT ![0] = entry[t]]
      BY <1>6 DEF PutFront, Goto, Slots
    <2>2. Adding = {t} /\ Adding' = {}
      BY <1>1, <1>3, <1>4, <2>1 DEF Adding
    <2>3. InUse = Finished(t) /\ InUse' = saved_wifi'
      BY <2>2 DEF InUse
    <2>4. Finished(t) = saved_wifi'
      <3>1. \A i \in Slots : saved_wifi'[i] = IF i > 0 THEN saved_wifi[i] ELSE entry[t]
        BY <1>1, <2>1 DEF Array, Slots
      <3>2. \A i \in Slots : Finished(t)[i] = saved_wifi'[i]
        BY <2>1, <3>1 DEF Finished, Slots
      <3> QED
        BY <1>1, <2>1, <3>2 DEF Finished, Array
    <2> QED
      BY <1>3, <1>6, <2>3, <2>4 DEF Shift
  <1>7. CASE OpenOk(t) \/ SetBlob(t) \/ Commit(t) \/ NvsError(t)
    <2>1. /\ pc[t] # "shift" /\ saved_wifi' = saved_wifi
          /\ \E place \in {"idle", "set", "commit"} :
                pc' = [pc EXCEPT ![t] = place]
      BY <1>7 DEF OpenOk, SetBlob, Commit, NvsError, Goto, Return
    <2>2. Adding = {} /\ Adding' = {}
      BY <1>1, <1>3, <1>4, <2>1 DEF Adding
    <2> QED
      BY <1>3, <2>1, <2>2 DEF InUse
  <1> QED
    BY <1>5, <1>6, <1>7

-----------------------------------------------------------------------------
(* The array implements the list of RecentStore.                           *)

\* Every set of natural numbers has a least element.
LEMMA LeastElement ==
  ASSUME NEW S \in SUBSET Nat, S # {}
  PROVE  \E i \in S : \A j \in S : i <= j
  <1> DEFINE R == {p \in Nat \X Nat : p[1] < p[2]}
  <1>1. IsWellFoundedOn(R, Nat)
    BY NatLessThanWellFounded DEF OpToRel
  <1>2. \A x, y \in Nat : x < y => <<x, y>> \in R
    OBVIOUS
  <1> HIDE DEF R
  <1>3. PICK x \in S : \A y \in S : <<y, x>> \notin R
    BY <1>1, WFMin
  <1>4. x \in Nat /\ \A y \in S : y \in Nat /\ ~(y < x)
    BY <1>2, <1>3, Zenon
  <1> QED
    BY <1>4

\* n is the length of the list an array stands for.
EndsAt(h, n) == /\ \A i \in Slots : i < n => h[i] # None
                /\ n < Max => h[n] = None

LEMMA UsedEnds ==
  ASSUME NEW h \in Array
  PROVE  /\ Used(h) \in 0 .. Max /\ EndsAt(h, Used(h))
         /\ \A n \in 0 .. Max : EndsAt(h, n) => n = Used(h)
  <1> USE HistoryAssumption
  <1>1. Used(h) = CHOOSE n \in 0 .. Max : EndsAt(h, n)
    BY DEF Used, EndsAt
  <1>2. \E n \in 0 .. Max : EndsAt(h, n)
    <2> DEFINE S == {i \in Slots : h[i] = None} \union {Max}
    <2>1. S \in SUBSET (0 .. Max) /\ S # {}
      BY DEF Slots
    <2>2. PICK n \in S : \A j \in S : n <= j
      <3>1. S \in SUBSET Nat
        BY <2>1
      <3> HIDE DEF S
      <3> QED
        BY <2>1, <3>1, LeastElement
    <2>3. n \in 0 .. Max
      BY <2>1, <2>2
    <2>4. EndsAt(h, n)
      BY <2>2 DEF EndsAt, Slots
    <2> QED
      BY <2>3, <2>4
  <1>3. \A m, n \in 0 .. Max : EndsAt(h, m) /\ EndsAt(h, n) => m = n
    BY DEF EndsAt, Slots
  <1> QED
    BY <1>1, <1>2, <1>3

LEMMA ListOf ==
  ASSUME NEW h \in Array
  PROVE  /\ AsList(h) \in Seq(Entry) /\ Len(AsList(h)) = Used(h)
         /\ Used(h) \in 0 .. Max
         /\ \A k \in 1 .. Used(h) : AsList(h)[k] = h[k - 1] /\ h[k - 1] \in Entry
  <1> USE HistoryAssumption
  <1>1. Used(h) \in 0 .. Max /\ EndsAt(h, Used(h))
    BY UsedEnds
  <1>2. \A k \in 1 .. Used(h) : h[k - 1] \in Entry
    BY <1>1 DEF EndsAt, Slots, Array, Slot
  <1>3. AsList(h) \in [1 .. Used(h) -> Entry]
    BY <1>2 DEF AsList
  <1> QED
    BY <1>1, <1>2, <1>3 DEF AsList

LEMMA BlankList == AsList(Blank) = <<>>
  <1>1. Blank \in Array
    BY BlankWellFormed
  <1>2. EndsAt(Blank, 0)
    BY HistoryAssumption DEF EndsAt, Blank, Slots
  <1>3. Used(Blank) = 0
    BY <1>1, <1>2, UsedEnds, HistoryAssumption
  <1> QED
    BY <1>1, <1>3, ListOf

\* A finished shift is a move to the front of the list.
LEMMA FrontIsMove ==
  ASSUME NEW h \in Array, WellFormed(h), NEW e \in Entry
  PROVE  AsList(Front(h, e, Target(h, e.ssid))) = Recent!MoveToFront(AsList(h), e)
  <1> DEFINE m == e.ssid
             k == Target(h, m)
             g == Front(h, e, k)
             n == Used(h)
             same == {i \in DOMAIN AsList(h) : AsList(h)[i].ssid = m}
             gap == IF same # {} THEN CHOOSE i \in same : \A j \in same : i <= j
                    ELSE IF Len(AsList(h)) < Max THEN Len(AsList(h)) + 1 ELSE Max
  <1> USE HistoryAssumption
  <1>1. m \in Networks /\ e # None
    BY DEF Entry
  <1>2. /\ n \in 0 .. Max /\ Len(AsList(h)) = n /\ AsList(h) \in Seq(Entry)
        /\ \A i \in 1 .. n : AsList(h)[i] = h[i - 1] /\ h[i - 1] \in Entry
    BY ListOf
  <1>3. EndsAt(h, n)
    BY UsedEnds
  <1>4. /\ Matches(h, m) = {} => k = Max - 1
        /\ Matches(h, m) # {} => Matches(h, m) = {k}
    BY <1>1, TargetHolds DEF WellFormed
  <1>5. \A i \in Matches(h, m) : i \in Slots /\ i < n /\ h[i].ssid = m
    <2> TAKE i \in Matches(h, m)
    <2>1. i \in Slots /\ h[i] # None /\ h[i].ssid = m
      BY DEF Matches
    <2>2. CASE n < Max /\ i >= n
      <3>1. n \in Slots /\ h[n] = None /\ i # n
        BY <1>2, <1>3, <2>1, <2>2 DEF EndsAt, Slots
      <3> QED
        BY <1>2, <2>1, <2>2, <3>1 DEF WellFormed, PackedExcept, Slots
    <2>3. CASE ~(n < Max /\ i >= n)
      BY <1>2, <2>1, <2>3 DEF Slots
    <2> QED
      BY <2>2, <2>3
  <1>6. k \in Slots
    BY <1>4, <1>5 DEF Slots
  <1>7. DOMAIN AsList(h) = 1 .. n
    BY <1>2
  <1>8. \A i \in 1 .. n : i \in same <=> i - 1 \in Matches(h, m)
    <2> TAKE i \in 1 .. n
    <2>1. i - 1 \in Slots /\ h[i - 1] # None
      BY <1>2 DEF Slots
    <2> QED
      BY <1>2, <1>7, <2>1 DEF Matches
  <1>9. /\ same \subseteq 1 .. n
        /\ Recent!MoveToFront(AsList(h), e) =
             [i \in 1 .. (IF gap > n THEN gap ELSE n) |->
                IF i = 1 THEN e
                ELSE IF i <= gap THEN AsList(h)[i - 1] ELSE AsList(h)[i]]
    BY <1>2, <1>7 DEF Recent!MoveToFront
  \* The gap in the list is where the slot is taken from.
  <1>10. \/ gap = k + 1 /\ gap <= n
         \/ gap = n + 1 /\ k = Max - 1 /\ n < Max
    <2>1. CASE Matches(h, m) = {}
      <3>1. same = {}
        BY <1>8, <1>9, <2>1
      <3> QED
        BY <1>2, <1>4, <2>1, <3>1
    <2>2. CASE Matches(h, m) # {}
      <3>1. Matches(h, m) = {k} /\ k \in 0 .. n - 1
        <4>1. Matches(h, m) = {k}
          BY <1>4, <2>2
        <4>2. k \in Slots /\ k < n
          BY <1>5, <4>1
        <4> QED
          BY <1>2, <4>1, <4>2 DEF Slots
      <3>2. k + 1 \in 1 .. n /\ k + 1 \in same
        BY <1>8, <3>1, <1>2
      <3>3. \A i \in same : i = k + 1
        BY <1>8, <1>9, <3>1
      <3>4. same = {k + 1}
        BY <3>2, <3>3
      <3>5. gap = CHOOSE i \in {k + 1} : \A j \in {k + 1} : i <= j
        BY <3>4
      <3> QED
        BY <3>2, <3>5
    <2> QED
      BY <2>1, <2>2
  <1> HIDE DEF gap, same
  <1>11. g \in Array
    BY <1>6 DEF Front, Array, Slot, Slots
  <1>12. \A i \in Slots : g[i] = IF i > k THEN h[i] ELSE IF i = 0 THEN e ELSE h[i - 1]
    BY DEF Front
  <1> DEFINE last == IF gap > n THEN gap ELSE n
  <1>13. last \in 1 .. Max /\ gap \in 1 .. last
    BY <1>2, <1>6, <1>10 DEF Slots
  <1> HIDE DEF k, g
  <1>14. \A i \in 1 .. last :
            g[i - 1] = IF i = 1 THEN e
                       ELSE IF i <= gap THEN AsList(h)[i - 1] ELSE AsList(h)[i]
    <2> TAKE i \in 1 .. last
    <2>1. i - 1 \in Slots
      BY <1>2, <1>13 DEF Slots
    <2>2. CASE i = 1
      BY <1>6, <1>12, <2>1, <2>2 DEF Slots
    <2>3. CASE i # 1 /\ i <= gap
      <3>1. i - 1 \in 1 .. n /\ ~(i - 1 > k)
        BY <1>2, <1>6, <1>10, <1>13, <2>3 DEF Slots
      <3>2. g[i - 1] = h[i - 1 - 1] /\ AsList(h)[i - 1] = h[i - 1 - 1]
        BY <1>2, <1>12, <2>1, <2>3, <3>1
      <3> QED
        BY <2>3, <3>2
    <2>4. CASE i > gap
      <3>1. i \in 1 .. n /\ i - 1 > k /\ i # 1
        BY <1>2, <1>6, <1>10, <1>13, <2>4 DEF Slots
      <3>2. g[i - 1] = h[i - 1] /\ AsList(h)[i] = h[i - 1]
        BY <1>2, <1>12, <2>1, <3>1
      <3> QED
        BY <2>4, <3>1, <3>2, <1>13
    <2> QED
      BY <1>13, <2>2, <2>3, <2>4
  <1>15. EndsAt(g, last)
    <2>1. \A i \in Slots : i < last => g[i] # None
      <3> SUFFICES ASSUME NEW i \in Slots, i < last PROVE g[i] # None
        OBVIOUS
      <3>1. PICK j \in 1 .. last : i = j - 1
        <4>1. i + 1 \in 1 .. last /\ i = (i + 1) - 1
          BY <1>13 DEF Slots
        <4> QED
          BY <4>1
      <3>2. g[i] = IF j = 1 THEN e
                   ELSE IF j <= gap THEN AsList(h)[j - 1] ELSE AsList(h)[j]
        BY <1>14, <3>1
      <3>3. CASE j = 1
        BY <1>1, <3>2, <3>3
      <3>4. CASE j # 1 /\ j <= gap
        <4>1. j - 1 \in 1 .. n
          BY <1>2, <1>10, <1>13, <3>4
        <4>2. AsList(h)[j - 1] \in Entry
          BY <1>2, <4>1
        <4> QED
          BY <3>2, <3>4, <4>2
      <3>5. CASE j # 1 /\ j > gap
        <4>1. j \in 1 .. n
          BY <1>2, <1>13, <3>5
        <4>2. AsList(h)[j] \in Entry
          BY <1>2, <4>1
        <4> QED
          BY <1>13, <3>2, <3>5, <4>2
      <3> QED
        BY <1>13, <3>3, <3>4, <3>5
    <2>2. ASSUME last < Max PROVE g[last] = None
      <3>1. last \in Slots /\ last # 0
        BY <1>13, <2>2 DEF Slots
      <3>2. CASE gap = k + 1 /\ gap <= n
        <4>1. last = n /\ last > k
          BY <1>2, <1>6, <3>2 DEF Slots
        <4> QED
          BY <1>3, <1>12, <2>2, <3>1, <4>1 DEF EndsAt
      <3>3. CASE gap = n + 1 /\ k = Max - 1 /\ n < Max
        <4>1. last = n + 1 /\ ~(last > k) /\ last - 1 = n
          BY <1>2, <1>6, <2>2, <3>3 DEF Slots
        <4> QED
          BY <1>3, <1>12, <3>1, <3>3, <4>1 DEF EndsAt
      <3> QED
        BY <1>10, <3>2, <3>3
    <2> QED
      BY <2>1, <2>2 DEF EndsAt
  <1>16. Used(g) = last
    BY <1>11, <1>13, <1>15, UsedEnds
  <1>17. AsList(g) = [i \in 1 .. last |-> g[i - 1]]
    BY <1>16 DEF AsList
  <1>18. AsList(g) = Recent!MoveToFront(AsList(h), e)
    BY <1>9, <1>14, <1>17
  <1> QED
    BY <1>18 DEF g, k

\* Before the load the array is blank; after the shift it starts with the
\* entry being saved, and so does the blob that is being committed.
SaveInv ==
    /\ loaded = FALSE => saved_wifi = Blank
    /\ \A t \in Tasks : pc[t] \in {"open", "set", "commit"} =>
          entry[t] \in Entry /\ saved_wifi[0] = entry[t]
    /\ \A t \in Tasks : pc[t] = "commit" => written[0] = entry[t]

LEMMA SaveStep ==
  ASSUME Overlap = FALSE, IInv, SaveInv, [Next]_vars
  PROVE  SaveInv'
  <1> USE HistoryAssumption
  <1>1. /\ saved_wifi \in Array /\ entry \in [Tasks -> Slot]
        /\ pc \in [Tasks -> {"idle", "shift", "open", "set", "commit"}]
        /\ loaded \in BOOLEAN
    BY DEF IInv, TypeOK
  <1>2. ASSUME NEW t \in Tasks, pc[t] # "idle"
        PROVE  loaded = TRUE /\ \A u \in Tasks \ {t} : pc[u] = "idle"
    BY <1>1, <1>2 DEF IInv, OneAtATime
  <1>3. ASSUME NEW t \in Tasks, Step(t) PROVE SaveInv'
    <2>1. CASE \E n \in Networks, p \in Passwords : Find(t, n, p)
      <3>1. /\ loaded = TRUE /\ loaded' = loaded
            /\ \A u \in Tasks : pc[u] = "idle"
            /\ pc' = [pc EXCEPT ![t] = "shift"]
        BY <1>1, <2>1 DEF Find, MayBegin, Quiet, Goto
      <3>2. \A u \in Tasks : pc'[u] \in {"idle", "shift"}
        BY <1>1, <3>1
      <3> QED
        BY <3>1, <3>2 DEF SaveInv
    <2>2. CASE Shift(t)
      <3>1. pc[t] = "shift" /\ pc' = pc /\ loaded' = loaded
        BY <2>2 DEF Shift
      <3>2. \A u \in Tasks : pc'[u] \in {"idle", "shift"}
        BY <1>2, <3>1
      <3> QED
        BY <1>2, <3>1, <3>2 DEF SaveInv
    <2>3. CASE PutFront(t)
      <3>1. /\ pc[t] = "shift" /\ pc' = [pc EXCEPT ![t] = "open"]
            /\ loaded' = loaded /\ entry' = entry /\ 0 \in Slots
            /\ saved_wifi' = [saved_wifi EXCEPT ![0] = entry[t]]
        BY <2>3 DEF PutFront, Goto, Slots
      <3>2. /\ loaded = TRUE /\ pc'[t] = "open"
            /\ \A u \in Tasks \ {t} : pc'[u] = "idle"
        BY <1>1, <1>2, <3>1
      <3>3. saved_wifi'[0] = entry[t] /\ entry[t] \in Entry
        BY <1>1, <3>1 DEF Array, IInv, ShiftInv
      <3> QED
        BY <3>1, <3>2, <3>3 DEF SaveInv
    <2>4. CASE OpenOk(t) \/ SetBlob(t)
      <3>1. /\ pc[t] \in {"open", "set"} /\ UNCHANGED <<saved_wifi, loaded, entry>>
            /\ \/ pc' = [pc EXCEPT ![t] = "set"]
               \/ pc' = [pc EXCEPT ![t] = "commit"] /\ written' = saved_wifi
        BY <2>4 DEF OpenOk, SetBlob, Goto
      <3>2. /\ loaded = TRUE /\ \A u \in Tasks \ {t} : pc'[u] = "idle"
            /\ pc'[t] = "commit" => written' = saved_wifi
        BY <1>1, <1>2, <3>1
      <3>3. saved_wifi[0] = entry[t] /\ entry[t] \in Entry
        BY <3>1 DEF SaveInv
      <3> QED
        BY <3>1, <3>2, <3>3 DEF SaveInv
    <2>5. CASE Commit(t) \/ NvsError(t)
      <3>1. /\ pc[t] \in {"open", "set", "commit"} /\ loaded' = loaded
            /\ pc' = [pc EXCEPT ![t] = "idle"]
        BY <2>5 DEF Commit, NvsError, Return
      <3>2. loaded = TRUE /\ \A u \in Tasks : pc'[u] = "idle"
        BY <1>1, <1>2, <3>1
      <3> QED
        BY <3>1, <3>2 DEF SaveInv
    <2> QED
      BY <1>3, <2>1, <2>2, <2>3, <2>4, <2>5 DEF Step
  <1>4. CASE Reset
    BY <1>4 DEF Reset, SaveInv
  <1>5. CASE Load \/ LoadError
    <2>1. loaded = FALSE /\ loaded' = TRUE /\ UNCHANGED <<pc, entry>>
      BY <1>1, <1>5 DEF Load, LoadError, task
    <2>2. \A t \in Tasks : pc'[t] = "idle"
      BY <1>2, <2>1
    <2> QED
      BY <2>1, <2>2 DEF SaveInv
  <1>6. CASE UNCHANGED vars
    BY <1>6 DEF SaveInv, vars, nvs, task
  <1> QED
    BY <1>3, <1>4, <1>5, <1>6 DEF Next

LEMMA SaveCorrect ==
  ASSUME Overlap = FALSE
  PROVE  Spec => []SaveInv
  <1>1. Init => SaveInv
    BY DEF Init, SaveInv
  <1>2. IInv /\ SaveInv /\ [Next]_vars => SaveInv'
    BY SaveStep
  <1> QED
    BY <1>1, <1>2, Invariance, PTL DEF Spec

LEMMA RefinementStep ==
  ASSUME Overlap = FALSE, IInv, SaveInv, [Next]_vars
  PROVE  [Recent!Next]_(Recent!vars)
  <1>1. ASSUME UNCHANGED <<InUse, written, committed>>
        PROVE  UNCHANGED Recent!vars
    BY <1>1 DEF Recent!vars, AsList, Used
  <1>2. ASSUME NEW t \in Tasks, Step(t) PROVE [Recent!Next]_(Recent!vars)
    <2>1. ASSUME NEW n \in Networks, NEW p \in Passwords, Find(t, n, p)
          PROVE  Recent!Next
      <3> DEFINE e == [ssid |-> n, password |-> p]
      <3>1. e \in Entry /\ e.ssid = n
        BY DEF Entry
      <3>2. e \in Recent!Entry
        BY DEF Recent!Entry
      <3>3. /\ InUse = saved_wifi /\ saved_wifi \in Array /\ WellFormed(saved_wifi)
            /\ InUse' = Front(saved_wifi, e, Target(saved_wifi, e.ssid))
        BY <2>1, <3>1, InUseFind
      <3> HIDE DEF e
      <3>4. AsList(Front(saved_wifi, e, Target(saved_wifi, e.ssid)))
               = Recent!MoveToFront(AsList(saved_wifi), e)
        BY <3>1, <3>3, FrontIsMove
      <3>5. AsList(InUse)' = Recent!MoveToFront(AsList(InUse), e)
        BY <3>3, <3>4 DEF AsList, Used
      <3>6. UNCHANGED <<AsList(written), AsList(committed)>>
        BY <2>1 DEF Find, nvs, AsList, Used
      <3>7. Recent!Use(e)
        BY <3>5, <3>6 DEF Recent!Use
      <3> QED
        BY <3>2, <3>7 DEF Recent!Next
    <2>2. CASE Shift(t) \/ PutFront(t) \/ OpenOk(t) \/ NvsError(t)
      <3>1. InUse' = InUse
        BY <2>2, InUseKept
      <3>2. UNCHANGED <<written, committed>>
        BY <2>2 DEF Shift, PutFront, OpenOk, NvsError, nvs
      <3> QED
        BY <1>1, <3>1, <3>2
    <2>3. CASE SetBlob(t)
      <3>1. InUse' = InUse /\ InUse = saved_wifi
        BY <2>3, InUseKept DEF SetBlob, Shift, PutFront
      <3>2. written' = InUse /\ committed' = committed
        BY <2>3, <3>1 DEF SetBlob
      <3>3. /\ AsList(written)' = AsList(InUse)
            /\ UNCHANGED <<AsList(InUse), AsList(committed)>>
        BY <3>1, <3>2 DEF AsList, Used
      <3> QED
        BY <3>3 DEF Recent!Next, Recent!Write
    <2>4. CASE Commit(t)
      <3>1. InUse' = InUse
        BY <2>4, InUseKept
      <3>2. committed' = written /\ written' = written
        BY <2>4 DEF Commit
      <3>3. /\ AsList(committed)' = AsList(written)
            /\ UNCHANGED <<AsList(InUse), AsList(written)>>
        BY <3>1, <3>2 DEF AsList, Used
      <3> QED
        BY <3>3 DEF Recent!Next, Recent!Sync
    <2> QED
      BY <1>2, <2>1, <2>2, <2>3, <2>4 DEF Step
  <1>3. CASE Reset
    <2>1. /\ saved_wifi' = Blank /\ written' \in {written, committed}
          /\ committed' = written' /\ \A t \in Tasks : pc'[t] = "idle"
      BY <1>3 DEF Reset
    <2>2. InUse' = Blank
      BY <2>1 DEF InUse, Adding
    <2>3. AsList(InUse)' = <<>>
      BY <2>2, BlankList DEF AsList, Used
    <2>4. /\ AsList(written)' \in {AsList(written), AsList(committed)}
          /\ AsList(committed)' = AsList(written)'
      BY <2>1 DEF AsList, Used
    <2> QED
      BY <2>3, <2>4 DEF Recent!Next, Recent!Restart
  <1>4. ASSUME Load \/ LoadError
        PROVE  /\ loaded = FALSE /\ InUse = saved_wifi /\ InUse' = saved_wifi'
               /\ UNCHANGED <<written, committed>>
    <2>1. /\ loaded = FALSE /\ UNCHANGED <<written, committed, pc>>
      BY <1>4 DEF Load, LoadError, nvs, task, IInv, TypeOK
    <2>2. \A t \in Tasks : pc[t] = "idle"
      BY <2>1 DEF IInv, OneAtATime
    <2>3. Adding = {} /\ Adding' = {}
      BY <2>1, <2>2 DEF Adding
    <2> QED
      BY <2>1, <2>3 DEF InUse
  <1>5. CASE Load
    <2>1. /\ InUse = Blank /\ InUse' = written
          /\ UNCHANGED <<written, committed>>
      BY <1>4, <1>5 DEF Load, SaveInv
    <2>2. AsList(InUse) = <<>>
      BY <2>1, BlankList
    <2>3. /\ AsList(InUse)' = AsList(written)
          /\ UNCHANGED <<AsList(written), AsList(committed)>>
      BY <2>1 DEF AsList, Used
    <2> QED
      BY <2>2, <2>3 DEF Recent!Next, Recent!Restore
  <1>6. CASE LoadError
    <2>1. saved_wifi' = saved_wifi
      BY <1>6 DEF LoadError
    <2> QED
      BY <1>1, <1>4, <1>6, <2>1
  <1>7. CASE UNCHANGED vars
    <2>1. UNCHANGED <<saved_wifi, written, committed, pc, entry, hole>>
      BY <1>7 DEF vars, nvs, task
    <2>2. InUse' = InUse
      BY <2>1 DEF InUse, Adding, Finished
    <2> QED
      BY <1>1, <2>1, <2>2
  <1> QED
    BY <1>2, <1>3, <1>5, <1>6, <1>7 DEF Next

\* The array that is shifted slot by slot and its blob implement the list of
\* RecentStore, for every number of slots: whatever fails and whenever a reset
\* comes, the callers see adds that take effect at once, and what a boot loads
\* is a list that was written.
THEOREM RefinesRecentStore ==
  ASSUME Overlap = FALSE
  PROVE  Spec => ImplementsRecentStore
  <1>1. Init => Recent!Init
    <2> SUFFICES ASSUME Init PROVE Recent!Init
      OBVIOUS
    <2>1. Adding = {} /\ saved_wifi = Blank /\ written = Blank /\ committed = Blank
      BY DEF Init, Adding
    <2>2. InUse = Blank
      BY <2>1 DEF InUse
    <2> QED
      BY <2>1, <2>2, BlankList DEF Recent!Init
  <1>2. IInv /\ SaveInv /\ [Next]_vars => [Recent!Next]_(Recent!vars)
    BY RefinementStep
  <1> QED
    BY <1>1, <1>2, Invariance, SaveCorrect, PTL
      DEF Spec, ImplementsRecentStore, Recent!Spec

-----------------------------------------------------------------------------
(* An acknowledged save survives.                                          *)

\* In the array h entry e, or one of its network if that has been added since,
\* is preceded by networks added since only; "since" is the set of those.
Covers(h, e, since) ==
    \A j \in Slots :
        \/ \E i \in Slots : /\ i <= j /\ h[i] # None /\ h[i].ssid = e.ssid
                            /\ e.ssid \notin since => h[i] = e
        \/ h[j] # None /\ h[j].ssid \in since \ {e.ssid}

\* The blobs, and the array once it is loaded and the add under way finished.
SurvivalInv ==
    /\ IsFiniteSet(newer)
    /\ owed # None => /\ Covers(written, owed, newer)
                      /\ Covers(committed, owed, newer)
                      /\ loaded = TRUE => Covers(InUse, owed, newer)

LEMMA CoversMore ==
  ASSUME NEW h, NEW e, NEW since, NEW n, Covers(h, e, since)
  PROVE  Covers(h, e, since \cup {n})
  BY DEF Covers

\* Moving an entry to the front moves the entry owed back only behind the
\* network added.
LEMMA CoversFront ==
  ASSUME NEW h \in Array, DistinctExcept(h, {}), NEW f \in Entry,
         NEW e \in Entry, NEW since, Covers(h, e, since)
  PROVE  Covers(Front(h, f, Target(h, f.ssid)), e, since \cup {f.ssid})
  <1> DEFINE k == Target(h, f.ssid)
             g == Front(h, f, k)
             more == since \cup {f.ssid}
  <1> USE HistoryAssumption
  <1>1. f.ssid \in Networks /\ f # None
    BY DEF Entry
  <1>2. k \in Slots /\ (k < Max - 1 => h[k] # None /\ h[k].ssid = f.ssid)
    BY <1>1, TargetHolds DEF Matches, Slots
  <1>3. \A i \in Slots : g[i] = IF i > k THEN h[i] ELSE IF i = 0 THEN f ELSE h[i - 1]
    BY DEF Front
  <1> HIDE DEF k, g
  <1>4. Covers(g, e, more)
    <2>1. CASE f.ssid = e.ssid
      <3>1. 0 \in Slots /\ g[0] = f
        BY <1>2, <1>3 DEF Slots
      <3>2. \A j \in Slots : 0 <= j
        BY DEF Slots
      <3> QED
        BY <1>1, <2>1, <3>1, <3>2 DEF Covers
    <2>2. CASE f.ssid # e.ssid
      \* An entry of the network owed is found again, one slot further or where
      \* it was.
      <3>1. ASSUME NEW i \in Slots, h[i] # None, h[i].ssid = e.ssid
            PROVE  \/ i < k /\ i + 1 \in Slots /\ g[i + 1] = h[i]
                   \/ i > k /\ g[i] = h[i]
                   \/ i = k /\ k = Max - 1
        <4>1. CASE i < k
          <5>1. /\ i + 1 \in Slots /\ ~(i + 1 > k) /\ i + 1 # 0
                /\ (i + 1) - 1 = i
            BY <1>2, <4>1 DEF Slots
          <5>2. g[i + 1] = h[(i + 1) - 1]
            BY <1>3, <5>1
          <5> QED
            BY <4>1, <5>1, <5>2
        <4>2. CASE i > k
          BY <1>3, <4>2
        <4>3. CASE i = k
          BY <1>2, <2>2, <3>1, <4>3 DEF Slots
        <4> QED
          BY <1>2, <4>1, <4>2, <4>3 DEF Slots
      <3> SUFFICES ASSUME NEW j \in Slots
                   PROVE  \/ \E i \in Slots :
                                /\ i <= j /\ g[i] # None /\ g[i].ssid = e.ssid
                                /\ e.ssid \notin more => g[i] = e
                          \/ g[j] # None /\ g[j].ssid \in more \ {e.ssid}
        BY DEF Covers
      <3>2. CASE j = 0
        BY <1>1, <1>2, <1>3, <2>2, <3>2 DEF Slots
      <3>3. CASE 0 < j /\ j <= k
        <4>1. j - 1 \in Slots /\ j \in Nat /\ k \in Nat
          BY <1>2, <3>3 DEF Slots
        <4>2. g[j] = h[j - 1]
          BY <1>3, <3>3, <4>1
        <4>3. CASE h[j - 1] # None /\ h[j - 1].ssid \in since \ {e.ssid}
          BY <4>2, <4>3
        <4>4. CASE ~(h[j - 1] # None /\ h[j - 1].ssid \in since \ {e.ssid})
          <5>1. PICK i \in Slots : /\ i <= j - 1 /\ h[i] # None /\ h[i].ssid = e.ssid
                                   /\ e.ssid \notin since => h[i] = e
            BY <4>1, <4>4 DEF Covers
          <5>2. i \in Nat /\ i < k /\ i + 1 <= j
            BY <3>3, <4>1, <5>1 DEF Slots
          <5>3. i + 1 \in Slots /\ g[i + 1] = h[i]
            BY <1>2, <3>1, <5>1, <5>2 DEF Slots
          <5> QED
            BY <5>1, <5>2, <5>3
        <4> QED
          BY <4>3, <4>4
      <3>4. CASE j > k
        <4>1. j \in Nat /\ k \in Nat /\ k < Max - 1
          BY <1>2, <3>4 DEF Slots
        <4>2. g[j] = h[j]
          BY <1>3, <3>4
        <4>3. CASE h[j] # None /\ h[j].ssid \in since \ {e.ssid}
          BY <4>2, <4>3
        <4>4. CASE ~(h[j] # None /\ h[j].ssid \in since \ {e.ssid})
          <5>1. PICK i \in Slots : /\ i <= j /\ h[i] # None /\ h[i].ssid = e.ssid
                                   /\ e.ssid \notin since => h[i] = e
            BY <4>4 DEF Covers
          <5>2. i \in Nat
            BY DEF Slots
          <5>3. CASE i < k
            <6>1. i + 1 \in Slots /\ g[i + 1] = h[i] /\ i + 1 <= j
              BY <3>1, <3>4, <4>1, <5>1, <5>2, <5>3
            <6> QED
              BY <5>1, <6>1
          <5>4. CASE i >= k
            <6>1. i > k /\ g[i] = h[i]
              BY <3>1, <4>1, <5>1, <5>2, <5>4
            <6> QED
              BY <5>1, <6>1
          <5> QED
            BY <4>1, <5>2, <5>3, <5>4
        <4> QED
          BY <4>3, <4>4
      <3> QED
        BY <1>2, <3>2, <3>3, <3>4 DEF Slots
    <2> QED
      BY <2>1, <2>2
  <1> QED
    BY <1>4 DEF k, g

\* Where fewer networks than slots were added since, the entry is within reach:
\* the slots before it would otherwise hold more different networks than that.
LEMMA CoversHolds ==
  ASSUME NEW h \in Array, DistinctExcept(h, {}), NEW e \in Entry,
         NEW since, IsFiniteSet(since), Covers(h, e, since),
         Cardinality(since \ {e.ssid}) < Max
  PROVE  \E i \in Slots : /\ i <= Cardinality(since \ {e.ssid})
                          /\ h[i] # None /\ h[i].ssid = e.ssid
                          /\ e.ssid \notin since => h[i] = e
  <1> DEFINE T == since \ {e.ssid}
             c == Cardinality(T)
  <1> USE HistoryAssumption
  <1>1. IsFiniteSet(T) /\ c \in Nat /\ c < Max
    <2>1. T \in SUBSET since
      OBVIOUS
    <2>2. IsFiniteSet(T)
      BY <2>1, FS_Subset
    <2> QED
      BY <2>2, FS_CardinalityType
  <1> HIDE DEF c
  <1> SUFFICES ASSUME \A i \in Slots :
                         ~(/\ i <= c /\ h[i] # None /\ h[i].ssid = e.ssid
                           /\ e.ssid \notin since => h[i] = e)
               PROVE  FALSE
    BY DEF c
  <1>2. \A j \in 0 .. c : j \in Slots /\ h[j] # None /\ h[j].ssid \in T
    BY <1>1 DEF Covers, Slots
  <1> DEFINE f == [j \in 0 .. c |-> h[j].ssid]
  <1>3. f \in [0 .. c -> T]
    BY <1>2
  <1>4. \A i, j \in 0 .. c : f[i] = f[j] => i = j
    BY <1>2 DEF DistinctExcept
  <1>5. f \in Injection(0 .. c, T)
    BY <1>3, <1>4 DEF Injection, IsInjective
  <1> HIDE DEF f
  <1>6. Cardinality(0 .. c) <= Cardinality(T)
    BY <1>1, <1>5, FS_Injection
  <1>7. Cardinality(0 .. c) = c + 1
    BY <1>1, FS_Interval
  <1> QED
    BY <1>1, <1>6, <1>7 DEF c

LEMMA SurvivalStep ==
  ASSUME Overlap = FALSE, IInv, SaveInv, SurvivalInv, [Next]_vars
  PROVE  SurvivalInv'
  <1> USE HistoryAssumption
  <1>1. /\ owed \in Slot /\ loaded \in BOOLEAN /\ saved_wifi \in Array
        /\ written \in Array /\ committed \in Array
    BY DEF IInv, TypeOK
  <1>2. ASSUME UNCHANGED <<written, committed, InUse, loaded, owed, newer>>
        PROVE  SurvivalInv'
    BY <1>2 DEF SurvivalInv, Covers
  <1>3. ASSUME NEW t \in Tasks, Step(t) PROVE SurvivalInv'
    <2>1. ASSUME NEW n \in Networks, NEW p \in Passwords, Find(t, n, p)
          PROVE  SurvivalInv'
      <3> DEFINE f == [ssid |-> n, password |-> p]
      <3>1. f \in Entry /\ f.ssid = n
        BY DEF Entry
      <3> HIDE DEF f
      <3>2. /\ loaded = TRUE /\ InUse = saved_wifi /\ DistinctExcept(saved_wifi, {})
            /\ InUse' = Front(saved_wifi, f, Target(saved_wifi, n))
        BY <1>1, <2>1, InUseFind DEF WellFormed, f
      <3>3. newer' = newer \cup {n} /\ UNCHANGED <<written, committed, loaded, owed>>
        BY <2>1 DEF Find, nvs
      <3>4. IsFiniteSet(newer')
        BY <3>3, FS_AddElement DEF SurvivalInv
      <3>5. ASSUME owed # None
            PROVE  /\ Covers(written, owed, newer')
                   /\ Covers(committed, owed, newer')
                   /\ Covers(InUse', owed, newer')
        <4>1. owed \in Entry
          BY <1>1, <3>5 DEF Slot
        <4>2. /\ Covers(written, owed, newer) /\ Covers(committed, owed, newer)
              /\ Covers(saved_wifi, owed, newer)
          BY <3>2, <3>5 DEF SurvivalInv
        <4>3. Covers(InUse', owed, newer \cup {n})
          BY <1>1, <3>1, <3>2, <4>1, <4>2, CoversFront
        <4>4. /\ Covers(written, owed, newer \cup {n})
              /\ Covers(committed, owed, newer \cup {n})
          BY <4>2, CoversMore
        <4> QED
          BY <3>3, <4>3, <4>4
      <3> QED
        BY <3>3, <3>4, <3>5 DEF SurvivalInv, Covers
    <2>2. CASE Shift(t) \/ PutFront(t) \/ OpenOk(t) \/ NvsError(t)
      <3>1. InUse' = InUse
        BY <2>2, InUseKept
      <3>2. UNCHANGED <<written, committed, loaded, owed, newer>>
        BY <2>2 DEF Shift, PutFront, OpenOk, NvsError, nvs, hist
      <3> QED
        BY <1>2, <3>1, <3>2
    <2>3. CASE SetBlob(t)
      <3>1. InUse' = InUse /\ InUse = saved_wifi /\ loaded = TRUE
        BY <1>1, <2>3, InUseKept DEF SetBlob, Shift, PutFront
      <3>2. written' = InUse /\ UNCHANGED <<committed, loaded, owed, newer>>
        BY <2>3, <3>1 DEF SetBlob, hist
      <3> QED
        BY <3>1, <3>2 DEF SurvivalInv, Covers
    <2>4. CASE Commit(t)
      <3>1. /\ InUse' = saved_wifi /\ pc[t] = "commit" /\ newer' = {}
            /\ committed' = written /\ written' = written /\ owed' = entry[t]
        <4>1. InUse' = InUse /\ InUse = saved_wifi
          BY <2>4, InUseKept DEF Commit, Shift, PutFront
        <4> QED
          BY <2>4, <4>1 DEF Commit
      <3>2. /\ entry[t] \in Entry /\ entry[t] # None
            /\ saved_wifi[0] = entry[t] /\ written[0] = entry[t]
        BY <3>1 DEF SaveInv
      <3>3. \A h : h[0] = entry[t] => Covers(h, entry[t], {})
        <4>1. 0 \in Slots /\ \A j \in Slots : 0 <= j
          BY DEF Slots
        <4> QED
          BY <3>2, <4>1 DEF Covers
      <3>4. Covers(saved_wifi, entry[t], {}) /\ Covers(written, entry[t], {})
        BY <3>2, <3>3
      <3>5. IsFiniteSet(newer')
        BY <3>1, FS_EmptySet
      <3> QED
        BY <3>1, <3>4, <3>5 DEF SurvivalInv, Covers
    <2> QED
      BY <1>3, <2>1, <2>2, <2>3, <2>4 DEF Step
  <1>4. CASE Reset
    <2>1. /\ loaded' = FALSE /\ written' \in {written, committed}
          /\ committed' = written' /\ UNCHANGED <<owed, newer>>
      BY <1>4 DEF Reset, hist
    <2> QED
      BY <2>1 DEF SurvivalInv, Covers
  <1>5. CASE Load
    <2>1. /\ loaded = FALSE /\ saved_wifi' = written
          /\ UNCHANGED <<written, committed, owed, newer, pc>>
      BY <1>1, <1>5 DEF Load, nvs, hist, task
    <2>2. \A t \in Tasks : pc[t] = "idle"
      BY <2>1 DEF IInv, OneAtATime
    <2>3. InUse' = written
      BY <2>1, <2>2 DEF InUse, Adding
    <2> QED
      BY <2>1, <2>3 DEF SurvivalInv, Covers
  <1>6. CASE LoadError
    BY <1>6, FS_EmptySet DEF LoadError, SurvivalInv
  <1>7. CASE UNCHANGED vars
    <2>1. UNCHANGED <<saved_wifi, written, committed, pc, entry, hole, loaded,
                      owed, newer>>
      BY <1>7 DEF vars, nvs, task, hist
    <2>2. InUse' = InUse
      BY <2>1 DEF InUse, Adding, Finished
    <2> QED
      BY <1>2, <2>1, <2>2
  <1> QED
    BY <1>3, <1>4, <1>5, <1>6, <1>7 DEF Next

\* A save that returned ESP_OK is in the array and in either blob until as many
\* other networks as there are slots have been added, whatever saves fail and
\* whenever resets come.
THEOREM AcknowledgedStays ==
  ASSUME Overlap = FALSE
  PROVE  Spec => []AcknowledgedSurvives
  <1>1. Init => SurvivalInv
    BY FS_EmptySet DEF Init, SurvivalInv
  <1>2. IInv /\ SaveInv /\ SurvivalInv /\ [Next]_vars => SurvivalInv'
    BY SurvivalStep
  <1>3. IInv /\ SurvivalInv => AcknowledgedSurvives
    <2> SUFFICES ASSUME IInv, SurvivalInv, owed # None, Ahead(owed.ssid) < Max
                 PROVE  /\ Holds(written, owed) /\ Holds(committed, owed)
                        /\ loaded /\ Adding = {} => Holds(saved_wifi, owed)
      BY DEF AcknowledgedSurvives
    <2>1. /\ owed \in Entry /\ loaded \in BOOLEAN
          /\ saved_wifi \in Array /\ written \in Array /\ committed \in Array
      BY DEF IInv, TypeOK, Slot
    <2>2. IsFiniteSet(newer) /\ Cardinality(newer \ {owed.ssid}) < Max
      BY DEF SurvivalInv, Ahead
    <2>3. ASSUME NEW h \in Array, DistinctExcept(h, {}), Covers(h, owed, newer)
          PROVE  Holds(h, owed)
      <3>1. \E i \in Slots : /\ i <= Ahead(owed.ssid)
                             /\ h[i] # None /\ h[i].ssid = owed.ssid
                             /\ owed.ssid \notin newer => h[i] = owed
        BY <2>1, <2>2, <2>3, CoversHolds DEF Ahead
      <3> QED
        BY <3>1 DEF Holds
    <2>4. Holds(written, owed) /\ Holds(committed, owed)
      BY <2>1, <2>3 DEF SurvivalInv, IInv, FlashWellFormed, WellFormed
    <2>5. ASSUME loaded, Adding = {} PROVE Holds(saved_wifi, owed)
      <3>1. InUse = saved_wifi /\ DistinctExcept(saved_wifi, {})
        BY <2>5 DEF InUse, IInv, HistoryWellFormed, WellFormed
      <3>2. Covers(saved_wifi, owed, newer)
        BY <2>1, <2>5, <3>1 DEF SurvivalInv
      <3> QED
        BY <2>1, <2>3, <3>1, <3>2
    <2> QED
      BY <2>4, <2>5
  <1> QED
    BY <1>1, <1>2, <1>3, Invariance, SaveCorrect, PTL DEF Spec

=============================================================================
