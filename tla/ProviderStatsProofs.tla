------------------------ MODULE ProviderStatsProofs ------------------------
(***************************************************************************)
(* Proofs about Provider.Stats: for any number of readers and refreshes    *)
(* its three loads, which no lock makes atomic, agree with each other and  *)
(* with a later Get.                                                       *)
(***************************************************************************)
EXTENDS ProviderStats, TLAPS

(***************************************************************************)
(* The inductive invariant.  refresh stores the snapshot before it counts  *)
(* it, and counts it before it stores its time; each reader loads in the   *)
(* opposite order.                                                         *)
(***************************************************************************)
Types ==
  /\ step \in {"list", "current", "count", "time", "err"}
  /\ calls \in Nat /\ installed \in Nat /\ refreshCount \in Nat /\ lastRefresh \in Nat
  /\ lastErr \in BOOLEAN
  /\ at \in [Readers -> {"idle", "time", "count", "get"}]
  /\ local \in [Readers -> Stats]
  /\ result \in [Readers -> Stats]
  /\ got \in [Readers -> Nat]

RefreshOrder ==
  /\ step = "count" => installed = refreshCount + 1
  /\ step # "count" => installed = refreshCount
  /\ lastRefresh <= refreshCount

ReadOrder ==
  \A r \in Readers :
    /\ at[r] = "count" => local[r].lastRefresh <= refreshCount
    /\ at[r] = "get" => result[r].refreshCount <= installed

IInv == Types /\ RefreshOrder /\ ReadOrder /\ TimeIsCounted /\ CountedIsVisible

\* What the steps of a reader make of the record it fills.
LEMMA StatsFields ==
  ASSUME NEW s \in Stats, NEW n \in Nat, NEW b \in BOOLEAN
  PROVE  /\ s.lastErr \in BOOLEAN /\ s.lastRefresh \in Nat /\ s.refreshCount \in Nat
         /\ [s EXCEPT !.lastErr = b] \in Stats
         /\ [s EXCEPT !.lastRefresh = n] \in Stats
         /\ [s EXCEPT !.lastRefresh = n].lastRefresh = n
         /\ [s EXCEPT !.refreshCount = n] \in Stats
         /\ [s EXCEPT !.refreshCount = n].refreshCount = n
         /\ [s EXCEPT !.refreshCount = n].lastRefresh = s.lastRefresh
BY DEF Stats

\* Nothing is counted when New starts.
LEMMA InitInv == Init => IInv
<1> SUFFICES ASSUME Init PROVE IInv
  OBVIOUS
<1>1. NoStats \in Stats /\ NoStats.lastRefresh = 0 /\ NoStats.refreshCount = 0
  BY DEF NoStats, Stats
<1>2. Types
  BY <1>1 DEF Init, Types
<1>3. RefreshOrder /\ ReadOrder /\ TimeIsCounted /\ CountedIsVisible
  BY <1>1 DEF Init, RefreshOrder, ReadOrder, TimeIsCounted, CountedIsVisible
<1> QED
  BY <1>2, <1>3 DEF IInv

\* refresh only raises what the readers compare with.
LEMMA RefreshKeeps == IInv /\ RefreshNext => IInv'
<1> SUFFICES ASSUME IInv, RefreshNext PROVE IInv'
  OBVIOUS
<1>1. UNCHANGED readerVars
  BY DEF RefreshNext, ListOK, ListError, StoreCurrent, AddCount, StoreTime, StoreErr
<1>2. Types' /\ RefreshOrder' /\ refreshCount <= refreshCount' /\ installed <= installed'
  <2> USE DEF IInv, Types, RefreshOrder, After, readerVars
  <2>1. CASE ListOK
    BY <2>1 DEF ListOK
  <2>2. CASE ListError
    BY <2>2 DEF ListError
  <2>3. CASE StoreCurrent
    BY <2>3 DEF StoreCurrent
  <2>4. CASE AddCount
    BY <2>4 DEF AddCount
  <2>5. CASE StoreTime
    BY <2>5 DEF StoreTime
  <2>6. CASE StoreErr
    <3>1. lastErr' \in BOOLEAN /\ step' = "list" /\ step = "err"
      BY <2>6 DEF StoreErr
    <3>2. UNCHANGED <<calls, installed, refreshCount, lastRefresh, at, local, result, got>>
      BY <2>6 DEF StoreErr
    <3> QED
      BY <3>1, <3>2
  <2> QED
    BY <2>1, <2>2, <2>3, <2>4, <2>5, <2>6 DEF RefreshNext
<1>3. \A r \in Readers : local[r].lastRefresh \in Nat /\ result[r].refreshCount \in Nat
  BY DEF IInv, Types, Stats
<1>4. ReadOrder'
  BY <1>1, <1>2, <1>3 DEF readerVars, IInv, Types, ReadOrder
<1>5. TimeIsCounted' /\ CountedIsVisible'
  BY <1>1 DEF readerVars, IInv, TimeIsCounted, CountedIsVisible
<1> QED
  BY <1>2, <1>4, <1>5 DEF IInv

\* A reader's steps, load by load.
LEMMA ReaderKeeps == IInv /\ ReaderNext => IInv'
<1> SUFFICES ASSUME IInv, NEW r \in Readers,
                    LoadErr(r) \/ LoadTime(r) \/ LoadCount(r) \/ Get(r)
             PROVE  IInv'
  BY DEF ReaderNext
<1>1. UNCHANGED refreshVars
  BY DEF LoadErr, LoadTime, LoadCount, Get
<1>2. /\ local[r] \in Stats /\ result[r] \in Stats
      /\ lastErr \in BOOLEAN /\ lastRefresh \in Nat /\ refreshCount \in Nat
      /\ installed \in Nat
  BY DEF IInv, Types
<1>3. RefreshOrder'
  BY <1>1 DEF refreshVars, IInv, RefreshOrder
<1> USE DEF IInv, Types, ReadOrder, TimeIsCounted, CountedIsVisible, refreshVars
<1>4. CASE LoadErr(r)
  <2>1. PICK l \in Stats : l = [local[r] EXCEPT !.lastErr = lastErr]
    BY <1>2, StatsFields
  <2>2. /\ at' = [at EXCEPT ![r] = "time"]
        /\ local' = [local EXCEPT ![r] = l]
        /\ UNCHANGED <<result, got>>
    BY <1>4, <2>1 DEF LoadErr
  <2> QED
    BY <1>1, <1>3, <2>1, <2>2
<1>5. CASE LoadTime(r)
  <2> PICK l : l = [local[r] EXCEPT !.lastRefresh = lastRefresh]
    OBVIOUS
  <2>1. l \in Stats /\ l.lastRefresh = lastRefresh
    BY <1>2, StatsFields
  <2>2. /\ at' = [at EXCEPT ![r] = "count"]
        /\ local' = [local EXCEPT ![r] = l]
        /\ UNCHANGED <<result, got>>
    BY <1>5, <2>1 DEF LoadTime
  <2> QED
    BY <1>1, <1>3, <2>1, <2>2 DEF RefreshOrder
<1>6. CASE LoadCount(r)
  <2> PICK l : l = [local[r] EXCEPT !.refreshCount = refreshCount]
    OBVIOUS
  <2>1. /\ l \in Stats /\ l.refreshCount = refreshCount
        /\ l.lastRefresh = local[r].lastRefresh
    BY <1>2, StatsFields
  <2>2. /\ at[r] = "count" /\ at' = [at EXCEPT ![r] = "get"]
        /\ local' = [local EXCEPT ![r] = l]
        /\ result' = [result EXCEPT ![r] = l]
        /\ UNCHANGED got
    BY <1>6, <2>1 DEF LoadCount
  <2>3. l.lastRefresh <= l.refreshCount /\ l.refreshCount <= installed
    BY <1>2, <2>1, <2>2 DEF RefreshOrder
  <2> QED
    BY <1>1, <1>3, <2>1, <2>2, <2>3
<1>7. CASE Get(r)
  <2>1. /\ at[r] = "get" /\ at' = [at EXCEPT ![r] = "idle"]
        /\ got' = [got EXCEPT ![r] = installed]
        /\ UNCHANGED <<local, result>>
    BY <1>7 DEF Get
  <2> QED
    BY <1>1, <1>2, <1>3, <2>1
<1> QED
  BY <1>4, <1>5, <1>6, <1>7

\* The inductive invariant holds in every reachable state.
LEMMA Invariance == Spec => []IInv
<1>1. IInv /\ UNCHANGED vars => IInv'
  BY DEF vars, refreshVars, readerVars, IInv, Types, RefreshOrder, ReadOrder,
         TimeIsCounted, CountedIsVisible
<1>2. IInv /\ [Next]_vars => IInv'
  BY <1>1, RefreshKeeps, ReaderKeeps DEF Next
<1> QED
  BY <1>2, InitInv, PTL DEF Spec

\* A torn Stats never shows the time of a refresh that it has not counted.
THEOREM TornStatsAgree == Spec => []TimeIsCounted
<1>1. IInv => TimeIsCounted
  BY DEF IInv
<1> QED
  BY <1>1, Invariance, PTL

\* A Get after Stats returns a snapshot as new as the refreshes counted.
THEOREM GetFollowsStats == Spec => []CountedIsVisible
<1>1. IInv => CountedIsVisible
  BY DEF IInv
<1> QED
  BY <1>1, Invariance, PTL

=============================================================================
