----------------------------- MODULE PipeProofs -----------------------------
(***************************************************************************)
(* Pipes, eventfds and the calls that wait on them, for any number of      *)
(* threads, processes, descriptors and objects: the counts of ends, clones *)
(* and drops of descriptors, and the theorems.                             *)
(***************************************************************************)
EXTENDS PipeSteps, FiniteSetTheorems

-----------------------------------------------------------------------------
(* The cardinalities behind the counts of ends *)

LEMMA SlotsFinite == IsFiniteSet(IoProcs \X Fds)
  <1> DEFINE f == [t \in IoThreads |-> IoProcOf[t]]
  <1>1. f \in Surjection(IoThreads, IoProcs) BY Zenon DEF Surjection, IoProcs
  <1>2. IsFiniteSet(IoProcs)
    <2> HIDE DEF f
    <2> QED BY <1>1, IoThreadsAssumption, FS_Surjection, Zenon
  <1> QED BY <1>2, IoThreadsAssumption, FS_Product, Zenon

LEMMA SlotsCount ==
  ASSUME NEW d
  PROVE  IsFiniteSet(AtSlots(d)) /\ Cardinality(AtSlots(d)) \in Nat
  <1>1. AtSlots(d) \in SUBSET (IoProcs \X Fds) BY Zenon DEF AtSlots
  <1>2. IsFiniteSet(AtSlots(d)) BY <1>1, SlotsFinite, FS_Subset, Zenon
  <1> QED BY <1>2, FS_CardinalityType, Zenon

LEMMA WatchCount ==
  ASSUME NEW d, IsFiniteSet(watch)
  PROVE  IsFiniteSet(AtWatch(d)) /\ Cardinality(AtWatch(d)) \in Nat
  <1>1. AtWatch(d) \in SUBSET watch BY Zenon DEF AtWatch
  <1>2. IsFiniteSet(AtWatch(d)) BY <1>1, FS_Subset, Zenon
  <1> QED BY <1>2, FS_CardinalityType, Zenon

LEMMA HandsCount ==
  ASSUME NEW d
  PROVE  IsFiniteSet(AtHands(d)) /\ Cardinality(AtHands(d)) \in Nat
  <1>1. AtHands(d) \in SUBSET IoThreads BY Zenon DEF AtHands
  <1>2. IsFiniteSet(AtHands(d)) BY <1>1, IoThreadsAssumption, FS_Subset, Zenon
  <1> QED BY <1>2, FS_CardinalityType

(* A set that gains or loses one element                                   *)
LEMMA OneMore ==
  ASSUME NEW S, NEW x, IsFiniteSet(S), x \notin S
  PROVE  Cardinality(S \cup {x}) = Cardinality(S) + 1
  BY FS_AddElement, Zenon

LEMMA OneLess ==
  ASSUME NEW S, NEW x, IsFiniteSet(S), x \in S
  PROVE  Cardinality(S \ {x}) = Cardinality(S) - 1
  BY FS_RemoveElement, Zenon

LEMMA SlotGains ==
  ASSUME TablesOK, NEW p \in IoProcs, NEW f \in Fds, NEW x \in Ends, NEW d \in PipeEnds,
         fdt[p][f] = NoFd, fdt' = [fdt EXCEPT ![p][f] = x]
  PROVE  Cardinality(AtSlots(d)') = Cardinality(AtSlots(d)) + Same(d, x)
  <1>1. \A s \in IoProcs \X Fds : fdt'[s[1]][s[2]] = IF s = <<p, f>> THEN x ELSE fdt[s[1]][s[2]]
    BY DEF TablesOK
  <1>2. <<p, f>> \notin AtSlots(d)
    BY EndsAssumption, Zenon DEF AtSlots, PipeEnds, Ends
  <1>3. CASE d = x
    <2>1. AtSlots(d)' = AtSlots(d) \cup {<<p, f>>} BY <1>1, <1>3 DEF AtSlots
    <2> QED BY <1>2, <1>3, <2>1, OneMore, SlotsCount, Zenon DEF Same
  <1>4. CASE d # x
    <2>1. AtSlots(d)' = AtSlots(d) BY <1>1, <1>2, <1>4, Zenon DEF AtSlots
    <2> QED BY <1>4, <2>1, SlotsCount DEF Same
  <1> QED BY <1>3, <1>4, Zenon

LEMMA SlotLoses ==
  ASSUME TablesOK, NEW p \in IoProcs, NEW f \in Fds, NEW x \in Ends, NEW d \in PipeEnds,
         fdt[p][f] = x, fdt' = [fdt EXCEPT ![p][f] = NoFd]
  PROVE  Cardinality(AtSlots(d)') = Cardinality(AtSlots(d)) - Same(d, x)
  <1>1. \A s \in IoProcs \X Fds : fdt'[s[1]][s[2]] = IF s = <<p, f>> THEN NoFd ELSE fdt[s[1]][s[2]]
    BY DEF TablesOK
  <1>2. d # NoFd BY EndsAssumption, Zenon DEF PipeEnds, Ends
  <1>3. CASE d = x
    <2>1. AtSlots(d)' = AtSlots(d) \ {<<p, f>>} BY <1>1, <1>2, <1>3 DEF AtSlots
    <2>2. <<p, f>> \in AtSlots(d) BY <1>3, Zenon DEF AtSlots
    <2> QED BY <2>2, <1>3, <2>1, OneLess, SlotsCount, Zenon DEF Same
  <1>4. CASE d # x
    <2>1. AtSlots(d)' = AtSlots(d) BY <1>1, <1>2, <1>4 DEF AtSlots
    <2> QED BY <1>4, <2>1, SlotsCount DEF Same
  <1> QED BY <1>3, <1>4, Zenon

LEMMA HandGains ==
  ASSUME NEW t \in IoThreads, NEW x, NEW d, Takes(t, x)
  PROVE  Cardinality(AtHands(d)') = Cardinality(AtHands(d)) + Same(d, x)
  <1>1. t \notin AtHands(d) BY Zenon DEF AtHands, Takes
  <1>2. CASE d = x
    <2>1. AtHands(d)' = AtHands(d) \cup {t} BY <1>2, Zenon DEF AtHands, Takes
    <2> QED BY <1>1, <1>2, <2>1, OneMore, HandsCount DEF Same
  <1>3. CASE d # x
    <2>1. AtHands(d)' = AtHands(d) BY <1>3, <1>1, Zenon DEF AtHands, Takes
    <2> QED BY <1>3, <2>1, HandsCount DEF Same
  <1> QED BY <1>2, <1>3, Zenon

LEMMA HandLoses ==
  ASSUME NEW t \in IoThreads, NEW x, NEW d, Gives(t, x)
  PROVE  Cardinality(AtHands(d)') = Cardinality(AtHands(d)) - Same(d, x)
  <1>1. t \notin AtHands(d)' BY Zenon DEF AtHands, Gives
  <1>2. CASE d = x
    <2>1. AtHands(d)' = AtHands(d) \ {t} BY <1>1, <1>2, Zenon DEF AtHands, Gives
    <2>2. t \in AtHands(d) BY <1>2, Zenon DEF AtHands, Gives
    <2> QED BY <1>2, <2>1, <2>2, OneLess, HandsCount DEF Same
  <1>3. CASE d # x
    <2>1. AtHands(d)' = AtHands(d) BY <1>3, <1>1, Zenon DEF AtHands, Gives
    <2> QED BY <1>3, <2>1, HandsCount DEF Same
  <1> QED BY <1>2, <1>3, Zenon

LEMMA WatchGains ==
  ASSUME IsFiniteSet(watch), NEW w, w \notin watch, watch' = watch \cup {w}, NEW d
  PROVE  Cardinality(AtWatch(d)') = Cardinality(AtWatch(d)) + Same(d, w.desc)
  <1>1. w \notin AtWatch(d) BY Zenon DEF AtWatch
  <1>2. CASE d = w.desc
    <2>1. AtWatch(d)' = AtWatch(d) \cup {w} BY <1>2, Zenon DEF AtWatch
    <2> QED BY <1>1, <1>2, <2>1, OneMore, WatchCount DEF Same
  <1>3. CASE d # w.desc
    <2>1. AtWatch(d)' = AtWatch(d) BY <1>3, Zenon DEF AtWatch
    <2> QED BY <1>3, <2>1, WatchCount DEF Same
  <1> QED BY <1>2, <1>3, Zenon

LEMMA WatchLoses ==
  ASSUME IsFiniteSet(watch), NEW w \in watch, watch' = watch \ {w}, NEW d
  PROVE  Cardinality(AtWatch(d)') = Cardinality(AtWatch(d)) - Same(d, w.desc)
  <1>1. CASE d = w.desc
    <2>1. AtWatch(d)' = AtWatch(d) \ {w} BY <1>1, Zenon DEF AtWatch
    <2>2. w \in AtWatch(d) BY <1>1, Zenon DEF AtWatch
    <2> QED BY <1>1, <2>1, <2>2, OneLess, WatchCount DEF Same
  <1>2. CASE d # w.desc
    <2>1. AtWatch(d)' = AtWatch(d) BY <1>2, Zenon DEF AtWatch
    <2> QED BY <1>2, <2>1, WatchCount DEF Same
  <1> QED BY <1>1, <1>2, Zenon

(* A descriptor that is somewhere is counted                               *)
LEMMA SlotIsCounted ==
  ASSUME TablesOK, NEW p \in IoProcs, NEW f \in Fds, NEW d, fdt[p][f] = d
  PROVE  Cardinality(AtSlots(d)) > 0
  <1>1. <<p, f>> \in AtSlots(d) BY Zenon DEF AtSlots
  <1>2. Cardinality(AtSlots(d)) # 0 BY <1>1, SlotsCount, FS_EmptySet, Zenon
  <1> QED BY <1>2, SlotsCount

LEMMA HandIsCounted ==
  ASSUME NEW t \in IoThreads, io[t].pc \in {"add", "drop"}
  PROVE  Cardinality(AtHands(io[t].desc)) > 0
  <1>1. t \in AtHands(io[t].desc) BY Zenon DEF AtHands
  <1>2. Cardinality(AtHands(io[t].desc)) # 0 BY <1>1, HandsCount, FS_EmptySet, Zenon
  <1> QED BY <1>2, HandsCount

-----------------------------------------------------------------------------
(* Clones and drops of descriptors *)

(* A descriptor in a table is counted, and so is one in the hands of a call *)
LEMMA OpenCounts ==
  ASSUME NEW t, Base(t), NEW f \in Fds, NEW d \in PipeEnds, Mine(t)[f] = d
  PROVE  Counter(d) > 0
  <1>1. Count(d) = Counter(d) BY EndsAreCounted, Zenon DEF Base
  <1>2. IoProcOf[t] \in IoProcs /\ TablesOK /\ IsFiniteSet(watch)
    BY Zenon DEF Base, PTypes, IoProcs, WatchOK
  <1>3. Cardinality(AtSlots(d)) > 0 BY <1>2, SlotIsCounted, Zenon DEF Mine
  <1>4. Cardinality(AtSlots(d)) \in Nat /\ Cardinality(AtWatch(d)) \in Nat /\ Cardinality(AtHands(d)) \in Nat
    BY <1>2, SlotsCount, WatchCount, HandsCount, Zenon
  <1> QED BY <1>1, <1>3, <1>4 DEF Count

LEMMA HandCounts ==
  ASSUME NEW t, Base(t), io[t].pc = "drop", NEW d \in PipeEnds, io[t].desc = d
  PROVE  Counter(d) > 0
  <1>1. Count(d) = Counter(d) BY EndsAreCounted, Zenon DEF Base
  <1>2. t \in IoThreads /\ IsFiniteSet(watch) BY Zenon DEF Base, PTypes, WatchOK
  <1>3. Cardinality(AtHands(d)) > 0 BY <1>2, HandIsCounted, Zenon
  <1>4. Cardinality(AtSlots(d)) \in Nat /\ Cardinality(AtWatch(d)) \in Nat /\ Cardinality(AtHands(d)) \in Nat
    BY <1>2, SlotsCount, WatchCount, HandsCount, Zenon
  <1> QED BY <1>1, <1>3, <1>4 DEF Count

LEMMA Cardinals ==
  ASSUME NEW t, Base(t), NEW x, NEW d
  PROVE  /\ Cardinality(AtSlots(x)) \in Nat /\ Cardinality(AtWatch(x)) \in Nat
         /\ Cardinality(AtHands(x)) \in Nat /\ Same(x, d) \in Nat
  BY SlotsCount, WatchCount, HandsCount, Zenon DEF Base, PTypes, WatchOK, Same

LEMMA DupActs ==
  ASSUME NEW t, Base(t), NEW fd \in Fds, NEW new \in Fds, PipeDup(t, fd, new)
  PROVE  Acts(t)
  <1>0. PTypes /\ EndsExact /\ t \in IoThreads /\ IoProcOf[t] \in IoProcs BY Zenon DEF Base, IoProcs
  <1>1. PICK d : d = Mine(t)[fd] BY Zenon
  <1>2. /\ d # NoFd /\ fdt[IoProcOf[t]][new] = NoFd /\ io[t].pc = "idle"
        /\ fdt' = [fdt EXCEPT ![IoProcOf[t]][new] = d] /\ pipe' = Cloned(d)
        /\ event' = event /\ watch' = watch /\ io' = io /\ lost' = lost
    BY <1>1, Zenon DEF PipeDup, Mine
  <1>3. d \in Ends BY <1>0, <1>1, <1>2, SlotType, Zenon DEF PTypes
  <1>4. d \in PipeEnds => Counter(d) > 0 BY <1>1, OpenCounts, Zenon
  <1>5. PipesOK' /\ RisesTold(t) /\ \A x \in PipeEnds : Counter(x)' = Counter(x) + Same(x, d)
    BY <1>0, <1>2, <1>3, <1>4, ClonedPipe DEF PTypes
  <1>6. ASSUME NEW x \in PipeEnds PROVE Count(x)' = Count(x) + Same(x, d)
    <2>1. Cardinality(AtSlots(x)') = Cardinality(AtSlots(x)) + Same(x, d)
      BY <1>0, <1>2, <1>3, SlotGains, Zenon DEF PTypes
    <2>2. AtWatch(x)' = AtWatch(x) /\ AtHands(x)' = AtHands(x) BY <1>2, Zenon DEF AtWatch, AtHands
    <2>3. /\ Cardinality(AtSlots(x)) \in Nat /\ Cardinality(AtWatch(x)) \in Nat
          /\ Cardinality(AtHands(x)) \in Nat /\ Same(x, d) \in Nat
      BY Cardinals, Zenon
    <2> QED BY <2>1, <2>2, <2>3 DEF Count
  <1>7. EndsExact' BY <1>5, <1>6, EndsGrow, Zenon
  <1>8. TablesOK' BY <1>0, <1>2, <1>3, Zenon DEF PTypes, TablesOK
  <1>9. EventsOK' /\ WatchOK' /\ CallsOK' /\ lost' \in Nat
    BY <1>0, <1>2 DEF PTypes, EventsOK, WatchOK, OneWatch, CallsOK, CallOK
  <1>10. Others(t) /\ WakeKept(t) BY <1>2, Zenon DEF Others, WakeKept
  <1>11. SlotsTold(t)
    <2>1. ASSUME NEW p \in IoProcs, NEW f \in Fds
          PROVE  fdt'[p][f] = fdt[p][f] \/ fdt[p][f] = NoFd
      BY <1>0, <1>2, Zenon DEF PTypes, TablesOK
    <2>2. ASSUME NEW s \in IoThreads, IoProcOf[s] # IoProcOf[t]
          PROVE  fdt'[IoProcOf[s]] = fdt[IoProcOf[s]]
      BY <1>0, <1>2, <2>2, Zenon DEF PTypes, TablesOK, IoProcs
    <2> QED BY <2>1, <2>2, Zenon DEF SlotsTold
  <1>12. Fits(t)' /\ io'[t].pc # "asleep" BY <1>2, Zenon DEF Fits
  <1> QED BY <1>5, <1>7, <1>8, <1>9, <1>10, <1>11, <1>12 DEF Acts, PTypes

LEMMA CloseActs ==
  ASSUME NEW t, Base(t), NEW fd \in Fds, PipeClose(t, fd)
  PROVE  Acts(t)
  <1>0. PTypes /\ EndsExact /\ t \in IoThreads /\ IoProcOf[t] \in IoProcs BY Zenon DEF Base, IoProcs
  <1>1. PICK d : d = Mine(t)[fd] BY Zenon
  <1>2. PICK c : c = [IoIdle EXCEPT !.pc = "drop", !.op = "close", !.desc = d] BY Zenon
  <1>3. /\ d # NoFd /\ fdt[IoProcOf[t]][fd] = d /\ io[t].pc = "idle"
        /\ fdt' = [fdt EXCEPT ![IoProcOf[t]][fd] = NoFd] /\ io' = [io EXCEPT ![t] = c]
        /\ pipe' = pipe /\ event' = event /\ watch' = watch /\ lost' = lost
    BY <1>1, <1>2, Zenon DEF PipeClose, Mine
  <1>4. d \in Ends BY <1>0, <1>1, <1>3, SlotType, Zenon DEF PTypes
  <1>5. c \in CallRec /\ c.pc = "drop" /\ c.desc = d BY <1>2, <1>4, Zenon DEF IoIdle, CallRec, Waiters
  <1>6. CallOK(c) BY <1>2, <1>4, <1>5, Zenon DEF IoIdle, CallOK
  <1>7. IoMoves(t, c) BY <1>3, <1>5, <1>6, Zenon DEF IoMoves
  <1>8. io'[t] = c /\ Others(t) BY <1>0, <1>7, Moved, Zenon DEF PTypes, Others
  <1>9. ASSUME NEW x \in PipeEnds PROVE Count(x)' = Count(x) /\ Counter(x)' = Counter(x)
    <2>1. Cardinality(AtSlots(x)') = Cardinality(AtSlots(x)) - Same(x, d)
      BY <1>0, <1>3, <1>4, SlotLoses, Zenon DEF PTypes
    <2>a. Takes(t, d) BY <1>3, <1>5, <1>8, Zenon DEF Others, Takes
    <2>2. Cardinality(AtHands(x)') = Cardinality(AtHands(x)) + Same(x, d)
      BY <1>0, <2>a, HandGains, Zenon
    <2>3. AtWatch(x)' = AtWatch(x) BY <1>3, Zenon DEF AtWatch
    <2>4. /\ Cardinality(AtSlots(x)) \in Nat /\ Cardinality(AtWatch(x)) \in Nat
          /\ Cardinality(AtHands(x)) \in Nat /\ Same(x, d) \in Nat
      BY Cardinals, Zenon
    <2>5. Count(x)' = Count(x) BY <2>1, <2>2, <2>3, <2>4 DEF Count
    <2> QED BY <1>3, <2>5, Zenon DEF Counter
  <1>10. EndsExact' BY <1>9, EndsMove, Zenon
  <1>11. PipesOK' /\ TablesOK' /\ WatchOK'
    BY <1>0, <1>3, Zenon DEF PTypes, PipesOK, TablesOK, WatchOK, OneWatch
  <1>12. RisesTold(t) BY <1>0, <1>3, NoRise, Zenon
  <1>13. SlotsTold(t)
    <2>1. ASSUME NEW p \in IoProcs, NEW f \in Fds
          PROVE  fdt'[p][f] = fdt[p][f] \/ (io'[t].pc = "drop" /\ io'[t].desc = fdt[p][f])
      <3>1. CASE p = IoProcOf[t] /\ f = fd BY <1>3, <1>5, <1>8, <3>1
      <3>2. CASE ~(p = IoProcOf[t] /\ f = fd) BY <1>0, <1>3, <3>2, Zenon DEF PTypes, TablesOK
      <3> QED BY <3>1, <3>2, Zenon
    <2>2. ASSUME NEW s \in IoThreads, IoProcOf[s] # IoProcOf[t]
          PROVE  fdt'[IoProcOf[s]] = fdt[IoProcOf[s]]
      BY <1>0, <1>3, <2>2, Zenon DEF PTypes, TablesOK, IoProcs
    <2> QED BY <2>1, <2>2, Zenon DEF SlotsTold
  <1>14. WakeKept(t) BY <1>3, Zenon DEF WakeKept
  <1> QED BY <1>3, <1>5, <1>7, <1>10, <1>11, <1>12, <1>13, <1>14, DescActs

LEMMA DropActs ==
  ASSUME NEW t, Base(t), DropDesc(t)
  PROVE  Acts(t)
  <1>0. PTypes /\ EndsExact /\ t \in IoThreads BY Zenon DEF Base
  <1>1. PICK d : d = io[t].desc BY Zenon
  <1>2. PICK wk : wk = DropKeys(d) BY Zenon
  <1>3. /\ io[t].pc = "drop" /\ pipe' = Dropped(d)
        /\ io' = [io EXCEPT ![t].pc = "wake", ![t].wk = wk, ![t].then = "idle"]
        /\ event' = event /\ fdt' = fdt /\ watch' = watch /\ lost' = lost
    BY <1>1, <1>2, Zenon DEF DropDesc, After
  <1>4. d \in Ends /\ io[t] \in CallRec /\ CallOK(io[t])
    BY <1>0, <1>1, <1>3, Zenon DEF PTypes, CallsOK, CallOK
  <1>5. OwnKeys(d) \subseteq wk /\ wk \in SUBSET IoKeys BY <1>2, <1>4, OwnKeysDropped, Zenon
  <1>6. PICK c : c = [io[t] EXCEPT !.pc = "wake", !.wk = wk, !.then = "idle"] BY Zenon
  <1>7. c \in CallRec /\ c.pc = "wake" /\ c.wk = wk /\ c.then = "idle" BY <1>4, <1>5, <1>6, Zenon DEF CallRec
  <1>8. CallOK(c) BY <1>4, <1>6, <1>7 DEF CallOK, CallRec
  <1>9. IoMoves(t, c) BY <1>3, <1>6, <1>7, <1>8, Zenon DEF IoMoves
  <1>10. io'[t] = c /\ Others(t) BY <1>0, <1>9, Moved, Zenon DEF PTypes, Others
  <1>11. d \in PipeEnds => Counter(d) > 0 BY <1>1, <1>3, HandCounts, Zenon
  <1>12. PipesOK' /\ RisesTold(t) /\ \A x \in PipeEnds : Counter(x)' = Counter(x) - Same(x, d)
    BY <1>0, <1>2, <1>3, <1>4, <1>7, <1>10, <1>11, DroppedPipe, ZenonT(30) DEF PTypes
  <1>13. ASSUME NEW x \in PipeEnds PROVE Count(x)' = Count(x) - Same(x, d)
    <2>0. Gives(t, d) BY <1>1, <1>3, <1>7, <1>10, ZenonT(30) DEF Others, Gives
    <2>1. Cardinality(AtHands(x)') = Cardinality(AtHands(x)) - Same(x, d)
      BY <1>0, <2>0, HandLoses
    <2>2. AtWatch(x)' = AtWatch(x) /\ AtSlots(x)' = AtSlots(x) BY <1>3, Zenon DEF AtWatch, AtSlots
    <2>3. /\ Cardinality(AtSlots(x)) \in Nat /\ Cardinality(AtWatch(x)) \in Nat
          /\ Cardinality(AtHands(x)) \in Nat /\ Same(x, d) \in Nat
      BY Cardinals, Zenon
    <2> QED BY <2>1, <2>2, <2>3 DEF Count
  <1>14. EndsExact' BY <1>12, <1>13, EndsShrink
  <1>15. TablesOK' /\ WatchOK' BY <1>0, <1>3, Zenon DEF PTypes, TablesOK, WatchOK, OneWatch
  <1>16. SlotsTold(t) BY <1>3, Zenon DEF SlotsTold
  <1>17. WakeKept(t) BY <1>1, <1>3, <1>5, <1>7, <1>10, ZenonT(30) DEF WakeKept
  <1> QED BY <1>3, <1>7, <1>9, <1>12, <1>14, <1>15, <1>16, <1>17, DescActs

LEMMA CtlAddActs ==
  ASSUME NEW t, Base(t), NEW fd \in Fds, NEW rd \in BOOLEAN, NEW wr \in BOOLEAN, CtlAdd(t, fd, rd, wr)
  PROVE  Acts(t)
  <1>0. PTypes /\ EndsExact /\ t \in IoThreads BY Zenon DEF Base
  <1>1. PICK d : d = Mine(t)[fd] BY Zenon
  <1>2. PICK req : req = {[fd |-> fd, desc |-> d, rd |-> rd, wr |-> wr]} BY Zenon
  <1>3. PICK c : c = [IoIdle EXCEPT !.pc = "add", !.op = "ctl", !.fd = fd, !.desc = d, !.req = req]
    BY Zenon
  <1>4. /\ d # NoFd /\ io[t].pc = "idle" /\ pipe' = Cloned(d) /\ io' = [io EXCEPT ![t] = c]
        /\ fdt' = fdt /\ event' = event /\ watch' = watch /\ lost' = lost
    BY <1>1, <1>2, <1>3, Zenon DEF CtlAdd
  <1>5. d \in Ends BY <1>0, <1>1, <1>4, SlotType DEF PTypes
  <1>6. req \in SUBSET (Asks \cup Interests) BY <1>2, <1>5 DEF Interests
  <1>7. c \in CallRec /\ c.pc = "add" /\ c.desc = d /\ c.op = "ctl" /\ c.fd = fd /\ c.req = req
    BY <1>3, <1>5, <1>6, Zenon DEF IoIdle, CallRec, Waiters
  <1>8. CallOK(c) BY <1>2, <1>5, <1>7, Zenon DEF CallOK
  <1>9. IoMoves(t, c) BY <1>4, <1>7, <1>8, Zenon DEF IoMoves
  <1>10. io'[t] = c /\ Others(t) BY <1>0, <1>9, Moved, Zenon DEF PTypes, Others
  <1>11. d \in PipeEnds => Counter(d) > 0 BY <1>1, OpenCounts, Zenon
  <1>12. PipesOK' /\ RisesTold(t) /\ \A x \in PipeEnds : Counter(x)' = Counter(x) + Same(x, d)
    BY <1>0, <1>4, <1>5, <1>11, ClonedPipe DEF PTypes
  <1>13. ASSUME NEW x \in PipeEnds PROVE Count(x)' = Count(x) + Same(x, d)
    <2>0. Takes(t, d) BY <1>4, <1>7, <1>10, Zenon DEF Others, Takes
    <2>1. Cardinality(AtHands(x)') = Cardinality(AtHands(x)) + Same(x, d)
      BY <1>0, <2>0, HandGains, Zenon
    <2>2. AtWatch(x)' = AtWatch(x) /\ AtSlots(x)' = AtSlots(x) BY <1>4, Zenon DEF AtWatch, AtSlots
    <2>3. /\ Cardinality(AtSlots(x)) \in Nat /\ Cardinality(AtWatch(x)) \in Nat
          /\ Cardinality(AtHands(x)) \in Nat /\ Same(x, d) \in Nat
      BY Cardinals, Zenon
    <2> QED BY <2>1, <2>2, <2>3 DEF Count
  <1>14. EndsExact' BY <1>12, <1>13, EndsGrow
  <1>15. TablesOK' /\ WatchOK' BY <1>0, <1>4, Zenon DEF PTypes, TablesOK, WatchOK, OneWatch
  <1>16. SlotsTold(t) /\ WakeKept(t) BY <1>4, Zenon DEF SlotsTold, WakeKept
  <1> QED BY <1>4, <1>7, <1>9, <1>12, <1>14, <1>15, <1>16, DescActs

(* the descriptor goes from the hands of the call to the interests         *)
LEMMA PushCounts ==
  ASSUME NEW t, Base(t), io[t].pc \in {"add", "drop"}, io'[t].pc \notin {"add", "drop"}, Others(t),
         NEW w, w \notin watch, watch' = watch \cup {w}, io[t].desc = w.desc, fdt' = fdt, NEW x
  PROVE  Count(x)' = Count(x)
  <1>0. t \in IoThreads /\ IsFiniteSet(watch) BY Zenon DEF Base, PTypes, WatchOK
  <1>1. Cardinality(AtHands(x)') = Cardinality(AtHands(x)) - Same(x, w.desc)
    <2>1. Gives(t, w.desc) BY Zenon DEF Others, Gives
    <2> QED BY <1>0, <2>1, HandLoses, Zenon
  <1>2. Cardinality(AtWatch(x)') = Cardinality(AtWatch(x)) + Same(x, w.desc) BY <1>0, WatchGains, Zenon
  <1>3. AtSlots(x)' = AtSlots(x) BY Zenon DEF AtSlots
  <1>4. /\ Cardinality(AtSlots(x)) \in Nat /\ Cardinality(AtWatch(x)) \in Nat
        /\ Cardinality(AtHands(x)) \in Nat /\ Same(x, w.desc) \in Nat
    BY Cardinals, Zenon
  <1>5. Count(x)' = Cardinality(AtSlots(x)) + (Cardinality(AtWatch(x)) + Same(x, w.desc))
                      + (Cardinality(AtHands(x)) - Same(x, w.desc))
    <2>1. Count(x)' = Cardinality(AtSlots(x)') + Cardinality(AtWatch(x)') + Cardinality(AtHands(x)')
      BY Zenon DEF Count
    <2> QED BY <1>1, <1>2, <1>3, <2>1, Zenon
  <1>6. Cardinality(AtSlots(x)) + (Cardinality(AtWatch(x)) + Same(x, w.desc))
          + (Cardinality(AtHands(x)) - Same(x, w.desc))
        = Cardinality(AtSlots(x)) + Cardinality(AtWatch(x)) + Cardinality(AtHands(x))
    BY <1>4
  <1> QED BY <1>5, <1>6, Zenon DEF Count

LEMMA PushTaken ==
  ASSUME NEW t, Base(t), io[t].pc = "add", ~\E w \in watch : w.fd = io[t].fd,
         watch' = watch \cup io[t].req, Finish(t), UNCHANGED <<pipe, event, fdt, lost>>
  PROVE  Acts(t)
  <1>0. PTypes /\ EndsExact /\ t \in IoThreads BY Zenon DEF Base
  <1>1. io[t] \in CallRec /\ CallOK(io[t]) /\ io[t].desc \in Ends /\ io[t].fd \in Fds
    BY <1>0, Zenon DEF PTypes, CallsOK, CallOK
  <1>2. PICK rd \in BOOLEAN, wr \in BOOLEAN :
           io[t].req = {[fd |-> io[t].fd, desc |-> io[t].desc, rd |-> rd, wr |-> wr]}
    BY <1>1, Zenon DEF CallOK
  <1>3. PICK w : w = [fd |-> io[t].fd, desc |-> io[t].desc, rd |-> rd, wr |-> wr] BY Zenon
  <1>4. w \in Interests /\ w.desc = io[t].desc /\ w.fd = io[t].fd BY <1>1, <1>3, Zenon DEF Interests
  <1>5. watch' = watch \cup {w} /\ w \notin watch BY <1>2, <1>3, <1>4, Zenon
  <1>6. watch \in SUBSET Interests /\ IsFiniteSet(watch) /\ OneWatch BY <1>0, Zenon DEF PTypes, WatchOK
  <1>7. WatchOK'
    <2>1. watch' \in SUBSET Interests BY <1>4, <1>5, <1>6, Zenon
    <2>2. IsFiniteSet(watch') BY <1>5, <1>6, FS_AddElement
    <2>3. OneWatch' BY <1>4, <1>5, <1>6, Zenon DEF OneWatch
    <2> QED BY <2>1, <2>2, <2>3, Zenon DEF WatchOK
  <1>8. IoMoves(t, IoIdle) /\ IoIdle.pc = "idle"
    <2>1. IoMoves(t, IoIdle) BY IdleCall, Zenon DEF Finish, IoMoves
    <2> QED BY <2>1, Zenon DEF IoIdle
  <1>9. io'[t].pc = "idle" /\ Others(t) BY <1>0, <1>8, Moved, Zenon DEF PTypes, Others
  <1>10. ASSUME NEW x \in PipeEnds PROVE Count(x)' = Count(x) /\ Counter(x)' = Counter(x)
    <2>1. io[t].pc \in {"add", "drop"} /\ io'[t].pc \notin {"add", "drop"} BY <1>9, Zenon
    <2>2. Count(x)' = Count(x) BY <1>4, <1>5, <1>9, <2>1, PushCounts
    <2> QED BY <2>2, Zenon DEF Counter
  <1>11. EndsExact' BY <1>10, EndsMove, Zenon
  <1>12. PipesOK' /\ TablesOK' BY <1>0, Zenon DEF PTypes, PipesOK, TablesOK
  <1>13. RisesTold(t) BY <1>0, NoRise, Zenon
  <1>14. SlotsTold(t) /\ WakeKept(t) BY Zenon DEF SlotsTold, WakeKept
  <1> QED BY <1>7, <1>8, <1>11, <1>12, <1>13, <1>14, DescActs

LEMMA CtlPushActs ==
  ASSUME NEW t, Base(t), CtlPush(t)
  PROVE  Acts(t)
  BY PushRefused, PushTaken, Zenon DEF CtlPush

LEMMA CtlDelActs ==
  ASSUME NEW t, Base(t), NEW fd \in Fds, CtlDel(t, fd)
  PROVE  Acts(t)
  <1>0. PTypes /\ EndsExact /\ t \in IoThreads BY Zenon DEF Base
  <1>1. PICK w \in watch :
           /\ watch' = watch \ {w}
           /\ io' = [io EXCEPT ![t] = [IoIdle EXCEPT !.pc = "drop", !.op = "ctl", !.desc = w.desc]]
    BY Zenon DEF CtlDel
  <1>2. io[t].pc = "idle" /\ UNCHANGED <<pipe, event, fdt, lost>> BY Zenon DEF CtlDel
  <1>3. watch \in SUBSET Interests /\ IsFiniteSet(watch) /\ OneWatch BY <1>0, Zenon DEF PTypes, WatchOK
  <1>4. w.desc \in Ends BY <1>3, Zenon DEF Interests
  <1>5. PICK c : c = [IoIdle EXCEPT !.pc = "drop", !.op = "ctl", !.desc = w.desc] BY Zenon
  <1>6. c \in CallRec /\ c.pc = "drop" /\ c.desc = w.desc BY <1>4, <1>5, Zenon DEF IoIdle, CallRec, Waiters
  <1>7. CallOK(c) BY <1>4, <1>5, <1>6, Zenon DEF IoIdle, CallOK
  <1>8. IoMoves(t, c) BY <1>1, <1>5, <1>6, <1>7 DEF IoMoves
  <1>9. io'[t] = c /\ Others(t) BY <1>0, <1>8, Moved, Zenon DEF PTypes, Others
  <1>10. WatchOK'
    <2>1. watch' \in SUBSET Interests /\ OneWatch' BY <1>1, <1>3, Zenon DEF OneWatch
    <2>2. IsFiniteSet(watch') BY <1>1, <1>3, FS_RemoveElement, Zenon
    <2> QED BY <2>1, <2>2, Zenon DEF WatchOK
  <1>11. ASSUME NEW x \in PipeEnds PROVE Count(x)' = Count(x) /\ Counter(x)' = Counter(x)
    <2>0. Takes(t, w.desc) BY <1>2, <1>6, <1>9, Zenon DEF Others, Takes
    <2>1. Cardinality(AtHands(x)') = Cardinality(AtHands(x)) + Same(x, w.desc)
      BY <1>0, <2>0, HandGains, Zenon
    <2>2. Cardinality(AtWatch(x)') = Cardinality(AtWatch(x)) - Same(x, w.desc)
      BY <1>1, <1>3, WatchLoses
    <2>3. AtSlots(x)' = AtSlots(x) BY <1>2, Zenon DEF AtSlots
    <2>4. /\ Cardinality(AtSlots(x)) \in Nat /\ Cardinality(AtWatch(x)) \in Nat
          /\ Cardinality(AtHands(x)) \in Nat /\ Same(x, w.desc) \in Nat
      BY Cardinals, Zenon
    <2>5. Count(x)' = Count(x) BY <2>1, <2>2, <2>3, <2>4 DEF Count
    <2> QED BY <1>2, <2>5, Zenon DEF Counter
  <1>12. EndsExact' BY <1>11, EndsMove, Zenon
  <1>13. PipesOK' /\ TablesOK' BY <1>0, <1>2, Zenon DEF PTypes, PipesOK, TablesOK
  <1>14. RisesTold(t) BY <1>0, <1>2, NoRise, Zenon
  <1>15. SlotsTold(t) /\ WakeKept(t) BY <1>2, Zenon DEF SlotsTold, WakeKept
  <1> QED BY <1>2, <1>6, <1>8, <1>10, <1>12, <1>13, <1>14, <1>15, DescActs

(* a changed interest is counted as the old one was                        *)
LEMMA ModCounts ==
  ASSUME WatchOK, NEW w \in watch, NEW v \in Interests, v.fd = w.fd, v.desc = w.desc,
         watch' = (watch \ {w}) \cup {v}, NEW x
  PROVE  WatchOK' /\ Cardinality(AtWatch(x)') = Cardinality(AtWatch(x))
  <1>1. watch \in SUBSET Interests /\ IsFiniteSet(watch) /\ OneWatch BY Zenon DEF WatchOK
  <1>2. v \notin watch \ {w} BY <1>1, Zenon DEF OneWatch
  <1>3. IsFiniteSet(watch \ {w}) BY <1>1, FS_RemoveElement, Zenon
  <1>4. IsFiniteSet(watch') BY <1>3, FS_AddElement, Zenon
  <1>5. watch' \in SUBSET Interests /\ OneWatch' BY <1>1 DEF OneWatch
  <1>6. IsFiniteSet(AtWatch(x)) /\ Cardinality(AtWatch(x)) \in Nat BY <1>1, WatchCount, Zenon
  <1>7. CASE w.desc = x
    <2>1. w \in AtWatch(x) /\ v \notin AtWatch(x) \ {w} BY <1>2, <1>7, Zenon DEF AtWatch
    <2>2. AtWatch(x)' = (AtWatch(x) \ {w}) \cup {v} BY <1>7, Zenon DEF AtWatch
    <2>3. IsFiniteSet(AtWatch(x) \ {w}) BY <1>6, FS_RemoveElement, Zenon
    <2>4. Cardinality(AtWatch(x) \ {w}) = Cardinality(AtWatch(x)) - 1 BY <1>6, <2>1, OneLess
    <2>5. Cardinality((AtWatch(x) \ {w}) \cup {v}) = Cardinality(AtWatch(x) \ {w}) + 1
      BY <2>1, <2>3, OneMore
    <2>6. Cardinality(AtWatch(x)') = Cardinality(AtWatch(x)) BY <1>6, <2>2, <2>4, <2>5
    <2> QED BY <1>4, <1>5, <2>6, Zenon DEF WatchOK
  <1>8. CASE w.desc # x
    <2>1. AtWatch(x)' = AtWatch(x) BY <1>8, Zenon DEF AtWatch
    <2> QED BY <1>4, <1>5, <2>1, Zenon DEF WatchOK
  <1> QED BY <1>7, <1>8, Zenon

LEMMA CtlModActs ==
  ASSUME NEW t, Base(t), NEW fd \in Fds, NEW rd \in BOOLEAN, NEW wr \in BOOLEAN, CtlMod(t, fd, rd, wr)
  PROVE  Acts(t)
  <1>0. PTypes /\ EndsExact /\ t \in IoThreads /\ WatchOK BY Zenon DEF Base, PTypes
  <1>1. PICK w \in watch : watch' = (watch \ {w}) \cup {[w EXCEPT !.rd = rd, !.wr = wr]} BY Zenon DEF CtlMod
  <1>2. io[t].pc = "idle" /\ UNCHANGED <<pipe, event, fdt, io, lost>> BY Zenon DEF CtlMod
  <1>3. PICK v : v = [w EXCEPT !.rd = rd, !.wr = wr] BY Zenon
  <1>4. v \in Interests /\ v.fd = w.fd /\ v.desc = w.desc BY <1>0, <1>3, Zenon DEF WatchOK, Interests
  <1>5. \A x : WatchOK' /\ Cardinality(AtWatch(x)') = Cardinality(AtWatch(x))
    BY <1>0, <1>1, <1>3, <1>4, ModCounts, ZenonT(30)
  <1>6. ASSUME NEW x \in PipeEnds PROVE Count(x)' = Count(x) /\ Counter(x)' = Counter(x)
    <2>1. AtSlots(x)' = AtSlots(x) /\ AtHands(x)' = AtHands(x) BY <1>2, Zenon DEF AtSlots, AtHands
    <2>2. Count(x)' = Count(x) BY <1>5, <2>1, Zenon DEF Count
    <2> QED BY <1>2, <2>2, Zenon DEF Counter
  <1>7. EndsExact' BY <1>6, EndsMove, Zenon
  <1>8. PipesOK' /\ TablesOK' BY <1>0, <1>2, Zenon DEF PTypes, PipesOK, TablesOK
  <1>9. RisesTold(t) BY <1>0, <1>2, NoRise, Zenon
  <1>10. SlotsTold(t) /\ WakeKept(t) BY <1>2, Zenon DEF SlotsTold, WakeKept
  <1>11. IoMoves(t, io[t])
    <2>1. io[t] \in CallRec /\ CallOK(io[t]) /\ io \in [IoThreads -> CallRec]
      BY <1>0, Zenon DEF PTypes, CallsOK
    <2>2. io' = [io EXCEPT ![t] = io[t]] BY <1>0, <1>2, <2>1, Zenon
    <2> QED BY <2>1, <2>2, Zenon DEF IoMoves
  <1>12. PICK c : c = io[t] BY Zenon
  <1> QED BY <1>2, <1>5, <1>7, <1>8, <1>9, <1>10, <1>11, <1>12, DescActs

-----------------------------------------------------------------------------
(* The invariant *)

LEMMA PipeInitInv == PipeInit => PipeInv
  <1> SUFFICES ASSUME PipeInit PROVE PipeInv
    BY Zenon
  <1>1. /\ fdt = BootFds /\ watch = {} /\ lost = 0
        /\ event = [e \in EventFds |-> 0]
        /\ io = [t \in IoThreads |-> IoIdle]
        /\ pipe = [p \in PipeIds |->
              [len |-> 0, readers |-> OpenEnds("r", p), writers |-> OpenEnds("w", p)]]
    BY Zenon DEF PipeInit
  <1>2. TablesOK BY <1>1, EndsAssumption, Zenon DEF TablesOK
  <1>3. \A e, p : OpenEnds(e, p) \in Nat
    <2> TAKE e, p
    <2>1. OpenEnds(e, p) = Cardinality(AtSlots([end |-> e, obj |-> p])) BY Zenon DEF OpenEnds, AtSlots
    <2> QED BY <2>1, SlotsCount, Zenon
  <1>4. PipesOK BY <1>1, <1>3, PipeSizesAssumption DEF PipesOK, PipeRec
  <1>5. EventsOK BY <1>1, PipeSizesAssumption DEF EventsOK
  <1>6. IsFiniteSet(watch) BY <1>1, FS_EmptySet, Zenon
  <1>7. WatchOK BY <1>1, <1>6, Zenon DEF WatchOK, OneWatch
  <1>8. CallsOK BY <1>1, IdleCall, Zenon DEF CallsOK
  <1>9. PTypes BY <1>1, <1>2, <1>4, <1>5, <1>7, <1>8 DEF PTypes
  <1>10. \A t \in IoThreads : io[t].pc = "idle" BY <1>1, Zenon DEF IoIdle
  <1>11. EndsExact
    <2>1. ASSUME NEW d \in PipeEnds PROVE Count(d) = Counter(d)
      <3>1. AtWatch(d) = {} /\ AtHands(d) = {} BY <1>1, <1>10, Zenon DEF AtWatch, AtHands
      <3>2. Cardinality(AtWatch(d)) = 0 /\ Cardinality(AtHands(d)) = 0 BY <3>1, FS_EmptySet, Zenon
      <3>3. PICK e \in {"r", "w"}, p \in PipeIds : d = [end |-> e, obj |-> p] BY Zenon DEF PipeEnds
      <3>4. Cardinality(AtSlots(d)) = OpenEnds(e, p) BY <3>3, Zenon DEF AtSlots, OpenEnds
      <3>5. Counter(d) = OpenEnds(e, p) BY <1>1, <3>3, Zenon DEF Counter
      <3> QED BY <1>3, <3>2, <3>4, <3>5 DEF Count
    <2> QED BY <2>1, EndsAreCounted, Zenon
  <1>12. Collected /\ SleepersHeld BY <1>10, Zenon DEF Collected, Fits, SleepersHeld
  <1> QED BY <1>9, <1>11, <1>12, Zenon DEF PipeInv

LEMMA PipeStepActs ==
  ASSUME PipeInv, NEW t \in IoThreads, PipeStep(t), ~WakeIo(t)
  PROVE  Acts(t)
  <1>0. Base(t) BY Zenon DEF PipeInv, Base
  <1>1. CASE TryRead(t) \/ TryWrite(t) \/ SleepOnFd(t)
    BY <1>0, <1>1, TryReadActs, TryWriteActs, SleepOnFdActs
  <1>2. CASE PollLook(t) \/ SelectLook(t) \/ EpollLook(t)
    BY <1>0, <1>2, LookActs, Zenon
  <1>3. CASE PollCollect(t) \/ PollSleep(t) \/ SelectSleep(t) \/ EpollSleep(t)
    BY <1>0, <1>3, PollCollectActs, PollSleepActs, SelectSleepActs, EpollSleepActs
  <1>4. CASE EndSleep(t) \/ DropDesc(t) \/ CtlPush(t)
    BY <1>0, <1>4, EndActs, DropActs, CtlPushActs
  <1>5. CASE SpliceRead(t) \/ SpliceWrite(t) \/ SpliceSleep(t)
    BY <1>0, <1>5, SpliceReadActs, SpliceWriteActs, SpliceSleepActs
  <1> QED BY <1>1, <1>2, <1>3, <1>4, <1>5 DEF PipeStep

LEMMA PipeCallActs ==
  ASSUME PipeInv, NEW t \in IoThreads, PipeCall(t)
  PROVE  Acts(t)
  <1>0. Base(t) BY Zenon DEF PipeInv, Base
  <1>1. CASE EpollCall(t) BY <1>0, <1>1, StartActs, Zenon
  <1>2. ASSUME NEW req \in PollSets, PollCall(t, req) \/ SelectCall(t, req) PROVE Acts(t)
    BY <1>0, <1>2, StartActs
  <1>3. ASSUME NEW fd \in Fds, PipeClose(t, fd) \/ CtlDel(t, fd) PROVE Acts(t)
    BY <1>0, <1>3, CloseActs, CtlDelActs, Zenon
  <1>4. ASSUME NEW fd \in Fds, NEW n \in Counts, ReadCall(t, fd, n) \/ WriteCall(t, fd, n) PROVE Acts(t)
    BY <1>0, <1>4, StartActs, Zenon
  <1>5. ASSUME NEW fd \in Fds, NEW new \in Fds, PipeDup(t, fd, new) PROVE Acts(t)
    BY <1>0, <1>5, DupActs, Zenon
  <1>6. ASSUME NEW fd \in Fds, NEW new \in Fds, NEW n \in Counts, SpliceCall(t, fd, new, n) PROVE Acts(t)
    BY <1>0, <1>6, StartActs, Zenon
  <1>7. ASSUME NEW fd \in Fds, NEW rd \in BOOLEAN, NEW wr \in BOOLEAN,
               CtlAdd(t, fd, rd, wr) \/ CtlMod(t, fd, rd, wr)
        PROVE  Acts(t)
    BY <1>0, <1>7, CtlAddActs, CtlModActs, Zenon
  <1> QED BY <1>1, <1>2, <1>3, <1>4, <1>5, <1>6, <1>7, Zenon DEF PipeCall

LEMMA PipeNextInv == PipeInv /\ [PipeNext]_pipeVars => PipeInv'
  <1> SUFFICES ASSUME PipeInv, [PipeNext]_pipeVars PROVE PipeInv'
    BY Zenon
  <1>1. ASSUME NEW t \in IoThreads, PipeStep(t) \/ PipeCall(t) PROVE PipeInv'
    <2>1. CASE WakeIo(t) BY <2>1, WakeInv, Zenon
    <2>2. CASE ~WakeIo(t) BY <1>1, <2>2, PipeStepActs, PipeCallActs, ActsInv
    <2>3. CASE PipeCall(t) BY <2>3, PipeCallActs, ActsInv, Zenon
    <2> QED BY <1>1, <2>1, <2>2, <2>3, Zenon
  <1>2. CASE UNCHANGED pipeVars
    <2>1. UNCHANGED pipe /\ UNCHANGED event /\ UNCHANGED fdt /\ UNCHANGED watch /\ UNCHANGED io /\ UNCHANGED lost
      BY <1>2, Zenon DEF pipeVars
    <2>2. PTypes'
      BY <2>1 DEF PipeInv, PTypes, PipesOK, EventsOK, TablesOK, WatchOK, OneWatch, CallsOK, CallOK
    <2>3. EndsExact' BY <2>1, ZenonT(30) DEF PipeInv, EndsExact, OpenEnds
    <2>4. Collected'
      <3> SUFFICES ASSUME NEW s \in IoThreads PROVE Fits(s)' BY Zenon DEF Collected
      <3>1. Fits(s) BY Zenon DEF PipeInv, Collected
      <3>2. (KeysStay(s)' <=> KeysStay(s)) /\ Mine(s)' = Mine(s) BY <2>1, Zenon DEF KeysStay, Mine
      <3> QED BY <2>1, <3>1, <3>2 DEF Fits, KeysFit
    <2>5. ASSUME NEW s \in IoThreads, io'[s].pc = "asleep" PROVE Sure(s)' \/ Held(s)'
      <3>1. Sure(s) \/ Held(s) BY <2>1, <2>5, Zenon DEF PipeInv, SleepersHeld
      <3>2. Sure(s) => Sure(s)' BY <2>1, Zenon DEF Sure, Wakes, OwnKeys
      <3>3. Held(s) => Held(s)'
        <4>1. (KeysStay(s)' <=> KeysStay(s)) /\ Mine(s)' = Mine(s) BY <2>1, Zenon DEF KeysStay, Mine
        <4>2. /\ \A f : ReadHeld(s, f) => ReadHeld(s, f)'
              /\ \A f : WriteHeld(s, f) => WriteHeld(s, f)'
          BY <2>1, <4>1, Zenon DEF ReadHeld, WriteHeld, ReadBlocks, WriteBlocks
        <4>3. SelectHeld(s) => SelectHeld(s)'
          BY <2>1, <4>1 DEF SelectHeld, PollRead, PollWrite
        <4>4. PollHeld(s) => PollHeld(s)'
          BY <2>1, <4>1 DEF PollHeld, Ready, PollRead, PollWrite, PollErr, PollHup, KeysFit
        <4>5. EpollHeld(s) => EpollHeld(s)'
          BY <2>1, Zenon DEF EpollHeld, Ready, PollRead, PollWrite, PollErr, PollHup
        <4> QED BY <2>1, <4>1, <4>2, <4>3, <4>4, <4>5, Zenon DEF Held
      <3> QED BY <3>1, <3>2, <3>3, Zenon
    <2>6. SleepersHeld' BY <2>5, Zenon DEF SleepersHeld
    <2> QED BY <2>2, <2>3, <2>4, <2>6, Zenon DEF PipeInv
  <1> QED BY <1>1, <1>2, Zenon DEF PipeNext

(* For any number of threads, processes, descriptors, pipes and eventfds,  *)
(* any capacity and any interleaving of read(), write(), splice(), ppoll,  *)
(* pselect6, epoll, dup and close: the reader and writer counts of every   *)
(* pipe equal the descriptors there are, and no call sleeps beside data,   *)
(* room, or the end of the file without a wakeup on its way.               *)
THEOREM PipesAreSafe == PipeSpec => []PipesSafe
  <1>1. PipeSpec => []PipeInv BY PipeInitInv, PipeNextInv, PTL DEF PipeSpec
  <1> QED BY <1>1, PipeInvSafe, PTL

(* A blocking splice() drops bytes it has taken from its input only when   *)
(* it is interrupted in its sleep or its output is closed, replaced or     *)
(* without a reader, whatever the other threads do to either end.          *)
THEOREM SpliceLosesRarely == PipeSpec => SpliceLoss
  <1>1. PipeSpec => []PipeInv BY PipeInitInv, PipeNextInv, PTL DEF PipeSpec
  <1>2. PipeInv /\ [PipeNext]_pipeVars =>
          [lost' # lost =>
             \E t \in IoThreads :
                 /\ io[t].op = "splice"
                 /\ io'[t].pc = "idle"
                 /\ \/ io[t].pc = "asleep"
                    \/ LET d == Mine(t)[io[t].out]
                       IN  d = NoFd \/ d.end # "w" \/ pipe[d.obj].readers = 0]_pipeVars
    <2> SUFFICES ASSUME PipeInv, PipeNext, lost' # lost
                 PROVE  \E t \in IoThreads : LosesRightly(t)
      BY Zenon DEF LosesRightly, pipeVars
    <2>1. PICK t \in IoThreads : PipeStep(t) \/ PipeCall(t) BY Zenon DEF PipeNext
    <2>2. PTypes /\ PipeStep(t) BY <2>1, CallsLoseNothing, Zenon DEF PipeInv
    <2> QED BY <2>2, StepLoss, Zenon
  <1> QED BY <1>1, <1>2, PTL DEF PipeSpec, SpliceLoss

=============================================================================
