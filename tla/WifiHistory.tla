---------------------------- MODULE WifiHistory ----------------------------
(***************************************************************************)
(* The credential history of wifi_manager.c: the array saved_wifi, the     *)
(* slot-by-slot shifting of wifi_manager_add_to_history, the three NVS     *)
(* calls of wifi_manager_save_credentials, each of which may fail, the     *)
(* load at boot, and a reset at any point.                                 *)
(*                                                                         *)
(* Nothing in the code serialises the tasks that save (the web server's    *)
(* task, the console task, app_main).  Overlap says whether the model lets *)
(* them run at the same time.                                              *)
(***************************************************************************)
EXTENDS Naturals, FiniteSets

CONSTANTS Max,         \* WIFI_HISTORY_MAX
          Networks,    \* the SSIDs that are ever connected to
          Passwords,
          Tasks,       \* the tasks that call wifi_manager_save_credentials
          None,        \* a slot whose "valid" is false
          Overlap      \* may two operations on the array overlap

Entry == [ssid : Networks, password : Passwords]

ASSUME HistoryAssumption == /\ Max \in Nat \ {0}
                            /\ None \notin Entry
                            /\ Overlap \in BOOLEAN

VARIABLES saved_wifi,  \* the array in RAM
          written,     \* the blob as nvs_set_blob left it
          committed,   \* the blob as of the last nvs_commit
          loaded,      \* app_main has called wifi_manager_load_credentials
          pc,          \* where each task is in wifi_manager_save_credentials
          entry,       \* the entry a task is moving to slot 0
          hole,        \* the slot a task overwrites next
          owed,        \* history: the last entry whose save returned ESP_OK
          newer        \* history: the networks added after it

nvs  == <<written, committed>>
task == <<pc, entry, hole>>
hist == <<owed, newer>>
vars == <<saved_wifi, nvs, loaded, task, hist>>

Slots == 0 .. Max - 1
Slot  == Entry \cup {None}
Blank == [i \in Slots |-> None]

-----------------------------------------------------------------------------

Matches(h, n) == {i \in Slots : h[i] # None /\ h[i].ssid = n}

\* Mutant: no search for the network; every save is of a new one.
TargetLast(h, n) == Max - 1

\* The slot the entry of network n is taken from: its first occurrence, or
\* the last slot, whose entry is dropped, when n is new.
Target(h, n) == IF Matches(h, n) = {}
                THEN Max - 1
                ELSE CHOOSE i \in Matches(h, n) :
                        \A j \in Matches(h, n) : i <= j

Quiet == \A t \in Tasks : pc[t] = "idle"

\* The web server runs before the load (main.c:451, 455); a save still follows
\* the load, which needs no network while the save follows a connect.
MayBegin == loaded /\ (Overlap \/ Quiet)

Init == /\ saved_wifi = Blank
        /\ written = Blank
        /\ committed = Blank
        /\ loaded = FALSE
        /\ pc = [t \in Tasks |-> "idle"]
        /\ entry = [t \in Tasks |-> None]
        /\ hole = [t \in Tasks |-> 0]
        /\ owed = None
        /\ newer = {}

Goto(t, label) == pc' = [pc EXCEPT ![t] = label]

\* wifi_manager_save_credentials returns and its locals are gone.
Return(t) == /\ pc' = [pc EXCEPT ![t] = "idle"]
             /\ entry' = [entry EXCEPT ![t] = None]
             /\ hole' = [hole EXCEPT ![t] = 0]

\* wifi_manager_save_credentials enters add_to_history, which searches.
Find(t, n, p) ==
    /\ pc[t] = "idle"
    /\ MayBegin
    /\ Goto(t, "shift")
    /\ entry' = [entry EXCEPT ![t] = [ssid |-> n, password |-> p]]
    /\ hole' = [hole EXCEPT ![t] = Target(saved_wifi, n)]
    /\ newer' = newer \cup {n}
    /\ UNCHANGED <<saved_wifi, nvs, loaded, owed>>

\* One round of the shifting loop.
Shift(t) ==
    /\ pc[t] = "shift"
    /\ hole[t] > 0
    /\ saved_wifi' = [saved_wifi EXCEPT ![hole[t]] = saved_wifi[hole[t] - 1]]
    /\ hole' = [hole EXCEPT ![t] = @ - 1]
    /\ UNCHANGED <<nvs, loaded, pc, entry, hist>>

\* Mutant: slot 0 is overwritten without the shifting loop.
PutFrontEarly(t) ==
    /\ pc[t] = "shift"
    /\ saved_wifi' = [saved_wifi EXCEPT ![0] = entry[t]]
    /\ Goto(t, "open")
    /\ UNCHANGED <<nvs, loaded, entry, hole, hist>>

\* After the loop the entry goes into slot 0.
PutFront(t) ==
    /\ pc[t] = "shift"
    /\ hole[t] = 0
    /\ saved_wifi' = [saved_wifi EXCEPT ![0] = entry[t]]
    /\ Goto(t, "open")
    /\ UNCHANGED <<nvs, loaded, entry, hole, hist>>

OpenOk(t) ==
    /\ pc[t] = "open"
    /\ Goto(t, "set")
    /\ UNCHANGED <<saved_wifi, nvs, loaded, entry, hole, hist>>

\* nvs_set_blob writes the whole array.
SetBlob(t) ==
    /\ pc[t] = "set"
    /\ written' = saved_wifi
    /\ Goto(t, "commit")
    /\ UNCHANGED <<saved_wifi, committed, loaded, entry, hole, hist>>

\* Mutant: the blob is never committed.
CommitForgotten(t) ==
    /\ pc[t] = "commit"
    /\ owed' = entry[t]
    /\ newer' = {}
    /\ Return(t)
    /\ UNCHANGED <<saved_wifi, nvs, loaded>>

\* nvs_commit succeeds and the function returns ESP_OK.
Commit(t) ==
    /\ pc[t] = "commit"
    /\ committed' = written
    /\ owed' = entry[t]
    /\ newer' = {}
    /\ Return(t)
    /\ UNCHANGED <<saved_wifi, written, loaded>>

\* nvs_open, nvs_set_blob or nvs_commit fails and the function returns its
\* error; the array has been changed all the same.
NvsError(t) ==
    /\ pc[t] \in {"open", "set", "commit"}
    /\ Return(t)
    /\ UNCHANGED <<saved_wifi, nvs, loaded, hist>>

\* A reset: RAM is zeroed; of what was written and not yet committed the
\* flash keeps the old or the new blob.
Reset ==
    /\ saved_wifi' = Blank
    /\ written' \in {written, committed}
    /\ committed' = written'
    /\ loaded' = FALSE
    /\ pc' = [t \in Tasks |-> "idle"]
    /\ entry' = [t \in Tasks |-> None]
    /\ hole' = [t \in Tasks |-> 0]
    /\ UNCHANGED hist

\* wifi_manager_load_credentials; a missing blob leaves the array zeroed,
\* which is what the blank blob stands for.
Load ==
    /\ ~loaded
    /\ saved_wifi' = written
    /\ loaded' = TRUE
    /\ UNCHANGED <<nvs, task, hist>>

\* The load fails: app_main ignores the error and goes on with the array as
\* it is.  What earlier saves were promised is void from then on.
LoadError ==
    /\ ~loaded
    /\ loaded' = TRUE
    /\ owed' = None
    /\ newer' = {}
    /\ UNCHANGED <<saved_wifi, nvs, task>>

Step(t) == \/ \E n \in Networks, p \in Passwords : Find(t, n, p)
           \/ Shift(t) \/ PutFront(t)
           \/ OpenOk(t) \/ SetBlob(t) \/ Commit(t) \/ NvsError(t)

Next == (\E t \in Tasks : Step(t)) \/ Reset \/ Load \/ LoadError

Spec == Init /\ [][Next]_vars

-----------------------------------------------------------------------------

Array == [Slots -> Slot]

\* Every variable has its type.
TypeOK ==
    /\ saved_wifi \in Array /\ written \in Array /\ committed \in Array
    /\ loaded \in BOOLEAN
    /\ pc \in [Tasks -> {"idle", "shift", "open", "set", "commit"}]
    /\ entry \in [Tasks -> Slot]
    /\ hole \in [Tasks -> Slots]
    /\ owed \in Slot
    /\ newer \subseteq Networks

\* Apart from the slots in "open", an array holds no network twice and has
\* no free slot before a used one.
DistinctExcept(h, open) ==
    \A i, j \in Slots \ open :
        i # j /\ h[i] # None /\ h[j] # None => h[i].ssid # h[j].ssid

PackedExcept(h, open) ==
    \A i, j \in Slots \ open : i < j /\ h[j] # None => h[i] # None

WellFormed(h) == DistinctExcept(h, {}) /\ PackedExcept(h, {})

Adding == {t \in Tasks : pc[t] = "shift"}

\* Whenever no task is inside add_to_history the array holds every network
\* once and its entries come first: the duplicate search of
\* wifi_manager_add_to_history and both of its shifting loops keep the order.
HistoryWellFormed == Adding = {} => WellFormed(saved_wifi)

\* The comment on the search, "Look for existing network entries to avoid
\* duplicates", read as a promise about the array between two adds.
NoDuplicates == Adding = {} => DistinctExcept(saved_wifi, {})

\* Whatever point a reset comes at, what the next boot loads is a complete
\* history and never an array caught half-shifted.
FlashWellFormed == WellFormed(written) /\ WellFormed(committed)

Ahead(n) == Cardinality(newer \ {n})

Holds(h, e) ==
    \E i \in Slots : /\ i <= Ahead(e.ssid)
                     /\ h[i] # None
                     /\ h[i].ssid = e.ssid
                     /\ e.ssid \notin newer => h[i] = e

\* A save that returned ESP_OK is not lost: until Max other networks have
\* been added, the network is in the array, and in whichever blob a reset
\* keeps, behind at most the networks added since; with its password, unless
\* it was saved again.  Failed saves and resets in between change nothing.
AcknowledgedSurvives ==
    owed # None /\ Ahead(owed.ssid) < Max =>
        /\ Holds(written, owed) /\ Holds(committed, owed)
        /\ loaded /\ Adding = {} => Holds(saved_wifi, owed)

-----------------------------------------------------------------------------
(* What the array and its blob stand for in RecentStore.                   *)

\* The array once the shift a task is in the middle of has been finished.
Finished(t) ==
    [i \in Slots |-> IF i > hole[t] THEN saved_wifi[i]
                     ELSE IF i = 0 THEN entry[t] ELSE saved_wifi[i - 1]]

InUse == IF Adding = {} THEN saved_wifi ELSE Finished(CHOOSE t \in Adding : TRUE)

\* The list ends before the first free slot.
Used(h) == CHOOSE n \in 0 .. Max :
              /\ \A i \in Slots : i < n => h[i] # None
              /\ n < Max => h[n] = None

AsList(h) == [k \in 1 .. Used(h) |-> h[k - 1]]

Recent == INSTANCE RecentStore WITH list   <- AsList(InUse),
                                    stored <- AsList(written),
                                    synced <- AsList(committed)

\* The array and its blob behave as the list RecentStore describes: an add
\* is one move to the front that takes effect when the search ends, the
\* rounds of the shifting loops are invisible, a reset brings back what was
\* stored.
ImplementsRecentStore == Recent!Spec
=============================================================================
