---------------------------- MODULE StoresProofs ----------------------------
(***************************************************************************)
(* Proofs about the components that keep chunks or answers on disk or in a *)
(* service, as MCServices puts them side by side: VectorService,           *)
(* FaissStore and DatasetRuns, and about the selections the last two make. *)
(* The layout is that of ServicesProofs: an invariant for each component,  *)
(* InitInv, Step, Holds, and the theorem of MCServices.                    *)
(***************************************************************************)
EXTENDS MCServices, Selections, FiniteSetTheorems, TLAPS

-----------------------------------------------------------------------------
(* The entries of a sequence at some of its positions (Selections).         *)

\* Each position has a rank of its own, and there is one of every rank.
LEMMA RanksAreOneToOne ==
  ASSUME NEW len \in Nat, NEW at \in SUBSET (1 .. len)
  PROVE  /\ Cardinality(at) \in Nat
         /\ \A i \in at : Rank(i, at) \in 1 .. Cardinality(at)
         /\ \A i, j \in at : i < j => Rank(i, at) < Rank(j, at)
         /\ \A n \in 1 .. Cardinality(at) : \E i \in at : Rank(i, at) = n
  <1> DEFINE upTo(i) == {j \in at : j <= i}
             rank == [i \in at |-> Rank(i, at)]
  <1>0. 1 \in Int /\ len \in Int /\ at \subseteq Int
    OBVIOUS
  <1>1. IsFiniteSet(at) /\ Cardinality(at) \in Nat
    <2>1. IsFiniteSet(1 .. len)
      BY <1>0, FS_Interval
    <2>2. IsFiniteSet(at)
      BY <2>1, FS_Subset
    <2> QED BY <2>2, FS_CardinalityType
  <1>2. ASSUME NEW i \in at
        PROVE  IsFiniteSet(upTo(i)) /\ Rank(i, at) \in 1 .. Cardinality(at)
    <2>1. IsFiniteSet(upTo(i)) /\ Cardinality(upTo(i)) <= Cardinality(at)
      BY <1>1, FS_Subset
    <2>2. Cardinality(upTo(i)) # 0
      BY <1>2, <2>1, FS_EmptySet
    <2>3. Cardinality(upTo(i)) \in Nat
      BY <2>1, FS_CardinalityType
    <2> QED BY <1>1, <2>1, <2>2, <2>3 DEF Rank
  <1>3. ASSUME NEW i \in at, NEW j \in at, i < j
        PROVE  Rank(i, at) < Rank(j, at)
    <2>1. upTo(i) \subseteq upTo(j)
      <3>1. \A k \in at : k <= i => k <= j
        BY <1>0, <1>3
      <3> QED BY <3>1
    <2>3. j \in upTo(j)
      BY <1>0, <1>3
    <2>4. j \notin upTo(i)
      BY <1>0, <1>3
    <2>2. Cardinality(upTo(i)) <= Cardinality(upTo(j)) /\ Cardinality(upTo(i)) # Cardinality(upTo(j))
      BY <1>2, <2>1, <2>3, <2>4, FS_Subset
    <2> QED BY <1>1, <1>2, <2>2 DEF Rank
  <1>4. rank \in Injection(at, 1 .. Cardinality(at))
    <2>1. rank \in [at -> 1 .. Cardinality(at)]
      BY <1>2
    <2>2. ASSUME NEW i \in at, NEW j \in at, rank[i] = rank[j] PROVE i = j
      <3>3. Rank(i, at) \in 1 .. Cardinality(at)
        BY <1>2
      <3>4. Rank(j, at) \in 1 .. Cardinality(at)
        BY <1>2
      <3>0. Rank(i, at) \in Int /\ Rank(j, at) \in Int
        BY <1>1, <3>3, <3>4
      <3>1. Rank(i, at) = Rank(j, at)
        BY <2>2
      <3>2. ~(i < j) /\ ~(j < i)
        BY <1>3, <3>0, <3>1
      <3> QED BY <1>0, <3>2
    <2> QED BY <2>1, <2>2 DEF Injection, IsInjective
  <1>5. IsFiniteSet(1 .. Cardinality(at)) /\ Cardinality(1 .. Cardinality(at)) = Cardinality(at)
    BY <1>1, FS_Interval
  <1>6. rank \in Surjection(at, 1 .. Cardinality(at))
    BY <1>1, <1>4, <1>5, FS_Injection
  <1>7. \A n \in 1 .. Cardinality(at) : \E i \in at : Rank(i, at) = n
    BY <1>6 DEF Surjection
  <1> QED BY <1>1, <1>2, <1>3, <1>7

\* The selection has the entries at these positions, in their order.
LEMMA SelectionHas ==
  ASSUME NEW Items, NEW s \in Seq(Items), NEW at \in SUBSET DOMAIN s
  PROVE  /\ Selected(s, at) \in Seq(Items)
         /\ \A n \in DOMAIN Selected(s, at) : \E i \in at : Selected(s, at)[n] = s[i] /\ Rank(i, at) = n
         /\ \A i \in at : \E n \in DOMAIN Selected(s, at) : Selected(s, at)[n] = s[i]
         /\ Len(Selected(s, at)) = Cardinality(at)
  <1> DEFINE nth(n) == CHOOSE i \in at : Rank(i, at) = n
  <1>1. Len(s) \in Nat /\ at \in SUBSET (1 .. Len(s))
    OBVIOUS
  <1>2. /\ Cardinality(at) \in Nat
        /\ \A i \in at : Rank(i, at) \in 1 .. Cardinality(at)
        /\ \A i, j \in at : i < j => Rank(i, at) < Rank(j, at)
        /\ \A n \in 1 .. Cardinality(at) : \E i \in at : Rank(i, at) = n
    BY <1>1, RanksAreOneToOne
  <1>3. \A n \in 1 .. Cardinality(at) : nth(n) \in at /\ Rank(nth(n), at) = n
    BY <1>2
  <1>4. \A i \in at : nth(Rank(i, at)) = i
    <2> SUFFICES ASSUME NEW i \in at PROVE nth(Rank(i, at)) = i
      OBVIOUS
    <2>1. nth(Rank(i, at)) \in at /\ Rank(nth(Rank(i, at)), at) = Rank(i, at) /\ Rank(i, at) \in Nat
      BY <1>2, <1>3
    <2> QED BY <1>1, <1>2, <2>1
  <1>5. Selected(s, at) = [n \in 1 .. Cardinality(at) |-> s[nth(n)]]
    BY DEF Selected
  <1> HIDE DEF nth
  <1>6. Selected(s, at) \in Seq(Items)
    BY <1>1, <1>2, <1>3, <1>5
  <1>7. \A n \in DOMAIN Selected(s, at) : \E i \in at : Selected(s, at)[n] = s[i] /\ Rank(i, at) = n
    BY <1>3, <1>5
  <1>8. \A i \in at : \E n \in DOMAIN Selected(s, at) : Selected(s, at)[n] = s[i]
    BY <1>2, <1>4, <1>5
  <1>9. Len(Selected(s, at)) = Cardinality(at)
    BY <1>2, <1>5
  <1> QED BY <1>6, <1>7, <1>8, <1>9

\* Where no two entries are equal, none are in the selection.
LEMMA SelectionIsOneEach ==
  ASSUME NEW Items, NEW s \in Seq(Items), NEW at \in SUBSET DOMAIN s,
         \A i, j \in at : s[i] = s[j] => i = j
  PROVE  \A m, n \in DOMAIN Selected(s, at) : Selected(s, at)[m] = Selected(s, at)[n] => m = n
  <1> SUFFICES ASSUME NEW m \in DOMAIN Selected(s, at), NEW n \in DOMAIN Selected(s, at),
                      Selected(s, at)[m] = Selected(s, at)[n]
               PROVE  m = n
    OBVIOUS
  <1>1. PICK i \in at : Selected(s, at)[m] = s[i] /\ Rank(i, at) = m
    BY SelectionHas
  <1>2. PICK j \in at : Selected(s, at)[n] = s[j] /\ Rank(j, at) = n
    BY SelectionHas
  <1> QED BY <1>1, <1>2

\* Items beginning that is selected is that beginning.
LEMMA BeginningIsSelected ==
  ASSUME NEW Items, NEW s \in Seq(Items), NEW m \in 0 .. Len(s)
  PROVE  /\ Len(Selected(s, 1 .. m)) = m
         /\ \A n \in DOMAIN Selected(s, 1 .. m) : Selected(s, 1 .. m)[n] = s[n]
  <1>1. 1 .. m \in SUBSET DOMAIN s /\ m \in Nat /\ Len(s) \in Nat
    OBVIOUS
  <1>2. Cardinality(1 .. m) = m
    BY <1>1, FS_Interval
  <1>3. ASSUME NEW i \in 1 .. m PROVE Rank(i, 1 .. m) = i
    <2>1. {j \in 1 .. m : j <= i} = 1 .. i
      OBVIOUS
    <2>2. Cardinality(1 .. i) = i
      BY FS_Interval
    <2> QED BY <2>1, <2>2 DEF Rank
  <1>4. Len(Selected(s, 1 .. m)) = m
    BY <1>1, <1>2, SelectionHas
  <1>5. ASSUME NEW n \in DOMAIN Selected(s, 1 .. m)
        PROVE  Selected(s, 1 .. m)[n] = s[n]
    <2>1. PICK i \in 1 .. m : Selected(s, 1 .. m)[n] = s[i] /\ Rank(i, 1 .. m) = n
      BY <1>1, SelectionHas
    <2> QED BY <1>3, <2>1
  <1> QED BY <1>4, <1>5
-----------------------------------------------------------------------------
(* VectorService: the part of a batch that is no longer to be sent is in    *)
(* the collection, or was deleted with it, so an error may come between any *)
(* two requests of an upsert.                                               *)

\* What a call is made of, whatever else is in it.
VectorLabels == {"idle", "get", "recreate", "upsert", "query", "report", "gauge", "grep",
                 "answered"}
VectorCalls == [pc : VectorLabels, kind : {"index", "search"}, batch : SUBSET Chunks,
                left : SUBSET Chunks, rounds : Int, hits : SUBSET Chunks, clean : BOOLEAN]

\* What has been sent of the batch of a call is in the collection, or was dropped.
VectorSentIsStored ==
  \A t \in Threads : vecOp[t].batch \ vecOp[t].left \subseteq points \cup dropped

VectorKept == vecAcked \subseteq points \cup fallback \cup dropped

VectorOwned == points \cup fallback \subseteq Chunks

VectorInv ==
  vecOp \in [Threads -> VectorCalls] /\ VectorOwned /\ VectorSentIsStored /\ VectorKept

LEMMA VectorIdleIsCall == V!Idle \in VectorCalls
  BY DEF V!Idle, VectorCalls, VectorLabels

\* A call that only goes to another label keeps its batch.
LEMMA VectorGotoKeepsBatch ==
  ASSUME vecOp \in [Threads -> VectorCalls], NEW t \in Threads,
         NEW label \in VectorLabels, V!Goto(t, label)
  PROVE  /\ vecOp' \in [Threads -> VectorCalls]
         /\ \A u \in Threads : vecOp'[u].batch = vecOp[u].batch /\ vecOp'[u].left = vecOp[u].left
  <1>1. [vecOp[t] EXCEPT !.pc = label] \in VectorCalls
    BY DEF VectorCalls
  <1> QED BY <1>1 DEF V!Goto, VectorCalls

\* A call that ends has no batch.
LEMMA VectorEndEffect ==
  ASSUME vecOp \in [Threads -> VectorCalls], NEW t \in Threads,
         vecOp' = [vecOp EXCEPT ![t] = V!Idle]
  PROVE  /\ vecOp' \in [Threads -> VectorCalls]
         /\ vecOp'[t].batch = {}
         /\ \A u \in Threads \ {t} : vecOp'[u] = vecOp[u]
  BY VectorIdleIsCall DEF V!Idle

\* An error keeps the whole batch of index_chunks.
LEMMA VectorErrorKeeps ==
  ASSUME VectorInv, NEW t \in Threads, V!Error(t), UNCHANGED <<points, dropped>>
  PROVE  VectorInv'
  <1>1. CASE vecOp[t].kind = "index"
    <2>1. vecOp' = [vecOp EXCEPT ![t] = V!Idle] /\ fallback' = fallback \cup vecOp[t].batch
          /\ vecAcked' = vecAcked \cup vecOp[t].batch
      BY <1>1 DEF V!Error
    <2>2. vecOp' \in [Threads -> VectorCalls] /\ vecOp'[t].batch = {}
          /\ \A u \in Threads \ {t} : vecOp'[u] = vecOp[u]
      BY <2>1, VectorEndEffect DEF VectorInv
    <2>3. VectorSentIsStored'
      BY <2>2 DEF VectorInv, VectorSentIsStored
    <2>4. VectorKept' /\ VectorOwned'
      BY <2>1 DEF VectorInv, VectorKept, VectorOwned, VectorCalls
    <2> QED BY <2>2, <2>3, <2>4 DEF VectorInv
  <1>2. CASE vecOp[t].kind # "index"
    <2>1. vecOp' = [vecOp EXCEPT ![t] = [vecOp[t] EXCEPT !.pc = "report", !.clean = FALSE]]
          /\ UNCHANGED <<fallback, vecAcked>>
      BY <1>2 DEF V!Error
    <2>2. [vecOp[t] EXCEPT !.pc = "report", !.clean = FALSE] \in VectorCalls
      BY DEF VectorInv, VectorCalls, VectorLabels
    <2>3. vecOp' \in [Threads -> VectorCalls]
          /\ \A u \in Threads : vecOp'[u].batch = vecOp[u].batch /\ vecOp'[u].left = vecOp[u].left
      BY <2>1, <2>2 DEF VectorInv, VectorCalls
    <2> QED BY <2>1, <2>3 DEF VectorInv, VectorSentIsStored, VectorKept, VectorOwned
  <1> QED BY <1>1, <1>2

LEMMA VectorSchemaDoneKeepsBatch ==
  ASSUME VectorInv, NEW t \in Threads, V!SchemaDone(t)
  PROVE  /\ vecOp' \in [Threads -> VectorCalls]
         /\ \A u \in Threads : vecOp'[u].batch = vecOp[u].batch /\ vecOp'[u].left = vecOp[u].left
  <1> DEFINE doing == IF vecOp[t].kind = "index" THEN "upsert" ELSE "query"
             next == IF vecOp[t].rounds = 2 THEN "get" ELSE doing
             fewer == vecOp[t].rounds - 1
  <1>1. vecOp' = [vecOp EXCEPT ![t] = [vecOp[t] EXCEPT !.pc = next, !.rounds = fewer]]
    BY DEF V!SchemaDone, VectorInv
  <1>2. next \in VectorLabels /\ fewer \in Int /\ vecOp[t] \in VectorCalls
    BY DEF VectorInv, VectorLabels, VectorCalls
  <1> HIDE DEF next, fewer
  <1>3. [vecOp[t] EXCEPT !.pc = next, !.rounds = fewer] \in VectorCalls
    BY <1>2 DEF VectorCalls
  <1> QED BY <1>1, <1>3 DEF VectorInv, VectorCalls

\* A step that leaves batches alone and takes nothing away keeps the invariant.
LEMMA VectorNothingLost ==
  ASSUME VectorInv, vecOp' \in [Threads -> VectorCalls],
         \A u \in Threads : vecOp'[u].batch = vecOp[u].batch /\ vecOp'[u].left = vecOp[u].left,
         points \cup dropped \subseteq points' \cup dropped',
         points \cup fallback \cup dropped \subseteq points' \cup fallback' \cup dropped',
         vecAcked' = vecAcked, VectorOwned'
  PROVE  VectorInv'
  <1>1. VectorSentIsStored'
    BY DEF VectorInv, VectorSentIsStored
  <1>2. VectorKept'
    BY DEF VectorInv, VectorKept
  <1> QED BY <1>1, <1>2 DEF VectorInv

\* Nothing is lost when a call begins, or ends, of whose batch nothing is sent.
LEMMA VectorUnsentKeeps ==
  ASSUME VectorInv, NEW t \in Threads, NEW new \in VectorCalls, new.batch \ new.left = {},
         vecOp' = [vecOp EXCEPT ![t] = new],
         points \cup dropped \subseteq points' \cup dropped', VectorKept', VectorOwned'
  PROVE  VectorInv'
  <1>1. vecOp' \in [Threads -> VectorCalls] /\ vecOp'[t] = new
        /\ \A u \in Threads \ {t} : vecOp'[u] = vecOp[u]
    BY DEF VectorInv
  <1>2. VectorSentIsStored'
    BY <1>1 DEF VectorInv, VectorSentIsStored
  <1> QED BY <1>1, <1>2 DEF VectorInv

LEMMA VectorStartIndexKeeps ==
  ASSUME VectorInv, NEW t \in Threads, NEW batch \in SUBSET Chunks, V!StartIndex(t, batch)
  PROVE  VectorInv'
  <1> DEFINE new == [V!Idle EXCEPT !.pc = "get", !.kind = "index", !.batch = batch,
                                 !.left = batch, !.rounds = 2]
  <1>0. V!Idle \in VectorCalls /\ 2 \in Int /\ "get" \in VectorLabels
    BY VectorIdleIsCall DEF VectorLabels
  <1>1. new \in VectorCalls /\ new.batch \ new.left = {}
    BY <1>0 DEF VectorCalls
  <1>2. vecOp' = [vecOp EXCEPT ![t] = new] /\ UNCHANGED <<points, fallback, dropped, vecAcked>>
    BY DEF V!StartIndex, V!stored
  <1>3. VectorKept' /\ VectorOwned' /\ points \cup dropped \subseteq points' \cup dropped'
    BY <1>2 DEF VectorInv, VectorKept, VectorOwned
  <1> HIDE DEF new
  <1> QED BY <1>1, <1>2, <1>3, VectorUnsentKeeps

LEMMA VectorStartSearchKeeps ==
  ASSUME VectorInv, NEW t \in Threads, V!StartSearch(t)
  PROVE  VectorInv'
  <1> DEFINE new == [V!Idle EXCEPT !.pc = "get", !.rounds = 2]
  <1>0. V!Idle \in VectorCalls /\ V!Idle.batch = {} /\ 2 \in Int /\ "get" \in VectorLabels
    BY VectorIdleIsCall DEF VectorLabels, V!Idle
  <1>1. new \in VectorCalls /\ new.batch \ new.left = {}
    BY <1>0 DEF VectorCalls
  <1>2. vecOp' = [vecOp EXCEPT ![t] = new] /\ UNCHANGED <<points, fallback, dropped, vecAcked>>
    BY DEF V!StartSearch, V!stored
  <1>3. VectorKept' /\ VectorOwned' /\ points \cup dropped \subseteq points' \cup dropped'
    BY <1>2 DEF VectorInv, VectorKept, VectorOwned
  <1> HIDE DEF new
  <1> QED BY <1>1, <1>2, <1>3, VectorUnsentKeeps

\* Looking the collection up changes nothing of it.
LEMMA VectorGetCollectionKeeps ==
  ASSUME VectorInv, NEW t \in Threads, V!GetCollection(t)
  PROVE  VectorInv'
  <1>1. UNCHANGED <<points, dropped>>
    BY DEF V!GetCollection
  <1>2. CASE V!Error(t)
    BY <1>1, <1>2, VectorErrorKeeps
  <1>3. CASE V!SchemaDone(t) /\ UNCHANGED <<fallback, vecAcked>>
    BY <1>1, <1>3, VectorSchemaDoneKeepsBatch, VectorNothingLost DEF VectorInv, VectorOwned
  <1>4. CASE V!Goto(t, "recreate") /\ UNCHANGED <<fallback, vecAcked>>
    <2>1. vecOp' \in [Threads -> VectorCalls]
          /\ \A u \in Threads : vecOp'[u].batch = vecOp[u].batch /\ vecOp'[u].left = vecOp[u].left
      BY <1>4, VectorGotoKeepsBatch DEF VectorInv, VectorLabels
    <2> QED BY <1>1, <1>4, <2>1, VectorNothingLost DEF VectorInv, VectorOwned
  <1> QED BY <1>2, <1>3, <1>4 DEF V!GetCollection

\* A new collection is empty: what was stored is dropped.
LEMMA VectorRecreateCollectionKeeps ==
  ASSUME VectorInv, NEW t \in Threads, V!RecreateCollection(t)
  PROVE  VectorInv'
  <1>1. CASE server = "up"
    <2>1. points' = {} /\ dropped' = dropped \cup points /\ V!SchemaDone(t)
          /\ UNCHANGED <<fallback, vecAcked>>
      BY <1>1 DEF V!RecreateCollection
    <2> QED BY <2>1, VectorSchemaDoneKeepsBatch, VectorNothingLost DEF VectorInv, VectorOwned
  <1>2. CASE server # "up"
    BY <1>2, VectorErrorKeeps DEF V!RecreateCollection
  <1> QED BY <1>1, <1>2

\* One request of an upsert: either it stores its part, or the whole batch is kept.
LEMMA VectorFlushKeeps ==
  ASSUME VectorInv, NEW t \in Threads, NEW part \in SUBSET Chunks, V!Flush(t, part)
  PROVE  VectorInv'
  <1>1. CASE server = "up" /\ collection = "ready"
    <2>1. points' = points \cup part /\ UNCHANGED <<fallback, dropped>>
      BY <1>1 DEF V!Flush
    <2>2. CASE part = vecOp[t].left
      <3>1. vecOp' = [vecOp EXCEPT ![t] = V!Idle] /\ vecAcked' = vecAcked \cup vecOp[t].batch
        BY <1>1, <2>2 DEF V!Flush
      <3>2. vecOp[t].batch \subseteq points' \cup dropped'
        BY <2>1, <2>2 DEF VectorInv, VectorSentIsStored
      <3>3. VectorKept' /\ VectorOwned'
        BY <2>1, <3>1, <3>2 DEF VectorInv, VectorKept, VectorOwned
      <3>4. V!Idle.batch \ V!Idle.left = {}
        BY DEF V!Idle
      <3> QED BY <2>1, <3>1, <3>3, <3>4, VectorIdleIsCall, VectorUnsentKeeps
    <2>3. CASE part # vecOp[t].left
      <3> DEFINE rest == vecOp[t].left \ part
                 new == [vecOp[t] EXCEPT !.left = rest]
      <3>1. vecOp' = [vecOp EXCEPT ![t] = new] /\ UNCHANGED vecAcked
        BY <1>1, <2>3 DEF V!Flush, VectorInv
      <3>2. vecOp[t] \in VectorCalls /\ rest \in SUBSET Chunks
        BY DEF VectorInv, VectorCalls
      <3>3. new \in VectorCalls /\ new.batch = vecOp[t].batch /\ new.left = rest
        BY <3>2 DEF VectorCalls
      <3> HIDE DEF new
      <3>4. vecOp' \in [Threads -> VectorCalls] /\ vecOp'[t] = new
            /\ \A u \in Threads \ {t} : vecOp'[u] = vecOp[u]
        BY <3>1, <3>3 DEF VectorInv
      <3>5. VectorSentIsStored'
        BY <2>1, <3>3, <3>4 DEF VectorInv, VectorSentIsStored
      <3>6. VectorKept' /\ VectorOwned'
        BY <2>1, <3>1 DEF VectorInv, VectorKept, VectorOwned
      <3> QED BY <3>4, <3>5, <3>6 DEF VectorInv
    <2> QED BY <2>2, <2>3
  <1>2. CASE ~(server = "up" /\ collection = "ready")
    BY <1>2, VectorErrorKeeps DEF V!Flush
  <1> QED BY <1>1, <1>2

LEMMA VectorQueryKeeps ==
  ASSUME VectorInv, NEW t \in Threads, V!Query(t)
  PROVE  VectorInv'
  <1>1. UNCHANGED <<points, dropped>>
    BY DEF V!Query
  <1>2. CASE V!Error(t)
    BY <1>1, <1>2, VectorErrorKeeps
  <1>3. CASE vecOp' = [vecOp EXCEPT ![t].pc = "report", ![t].hits = points]
             /\ UNCHANGED <<fallback, vecAcked>>
    <2> DEFINE new == [vecOp[t] EXCEPT !.pc = "report", !.hits = points]
    <2>1. vecOp' = [vecOp EXCEPT ![t] = new]
      BY <1>3 DEF VectorInv
    <2>2. new \in VectorCalls /\ new.batch = vecOp[t].batch /\ new.left = vecOp[t].left
      BY DEF VectorInv, VectorOwned, VectorCalls, VectorLabels
    <2> HIDE DEF new
    <2>3. vecOp' \in [Threads -> VectorCalls]
          /\ \A u \in Threads : vecOp'[u].batch = vecOp[u].batch /\ vecOp'[u].left = vecOp[u].left
      BY <2>1, <2>2 DEF VectorInv
    <2> QED BY <1>1, <1>3, <2>3, VectorNothingLost DEF VectorInv, VectorOwned
  <1> QED BY <1>2, <1>3 DEF V!Query

LEMMA VectorReportKeeps ==
  ASSUME VectorInv, NEW t \in Threads, V!Report(t)
  PROVE  VectorInv'
  <1>1. vecOp' \in [Threads -> VectorCalls]
        /\ \A u \in Threads : vecOp'[u].batch = vecOp[u].batch /\ vecOp'[u].left = vecOp[u].left
    BY VectorGotoKeepsBatch DEF V!Report, VectorInv, VectorLabels
  <1>2. UNCHANGED <<points, fallback, dropped, vecAcked>>
    BY DEF V!Report, V!stored
  <1> QED BY <1>1, <1>2, VectorNothingLost DEF VectorInv, VectorOwned

LEMMA VectorSetGaugesKeeps ==
  ASSUME VectorInv, NEW t \in Threads, V!SetGauges(t)
  PROVE  VectorInv'
  <1> DEFINE label == IF vecOp[t].clean THEN "answered" ELSE "grep"
  <1>1. label \in VectorLabels /\ V!Goto(t, label)
    BY DEF V!SetGauges, VectorLabels
  <1> HIDE DEF label
  <1>2. vecOp' \in [Threads -> VectorCalls]
        /\ \A u \in Threads : vecOp'[u].batch = vecOp[u].batch /\ vecOp'[u].left = vecOp[u].left
    BY <1>1, VectorGotoKeepsBatch DEF VectorInv
  <1>3. UNCHANGED <<points, fallback, dropped, vecAcked>>
    BY DEF V!SetGauges, V!stored
  <1> QED BY <1>2, <1>3, VectorNothingLost DEF VectorInv, VectorOwned

LEMMA VectorSearchFallbackKeeps ==
  ASSUME VectorInv, NEW t \in Threads, V!SearchFallback(t)
  PROVE  VectorInv'
  <1> DEFINE new == [vecOp[t] EXCEPT !.pc = "answered", !.hits = fallback]
  <1>1. vecOp' = [vecOp EXCEPT ![t] = new] /\ UNCHANGED <<points, fallback, dropped, vecAcked>>
    BY DEF V!SearchFallback, V!stored, VectorInv
  <1>2. new \in VectorCalls /\ new.batch = vecOp[t].batch /\ new.left = vecOp[t].left
    BY DEF VectorInv, VectorOwned, VectorCalls, VectorLabels
  <1> HIDE DEF new
  <1>3. vecOp' \in [Threads -> VectorCalls]
        /\ \A u \in Threads : vecOp'[u].batch = vecOp[u].batch /\ vecOp'[u].left = vecOp[u].left
    BY <1>1, <1>2 DEF VectorInv
  <1> QED BY <1>1, <1>3, VectorNothingLost DEF VectorInv, VectorOwned

LEMMA VectorAnswerKeeps ==
  ASSUME VectorInv, NEW t \in Threads, V!Answer(t)
  PROVE  VectorInv'
  <1>1. vecOp' = [vecOp EXCEPT ![t] = V!Idle] /\ UNCHANGED <<points, fallback, dropped, vecAcked>>
    BY DEF V!Answer, V!stored
  <1>2. VectorKept' /\ VectorOwned' /\ points \cup dropped \subseteq points' \cup dropped'
    BY <1>1 DEF VectorInv, VectorKept, VectorOwned
  <1>3. V!Idle.batch \ V!Idle.left = {}
    BY DEF V!Idle
  <1> QED BY <1>1, <1>2, <1>3, VectorIdleIsCall, VectorUnsentKeeps

LEMMA VectorServerChangesKeeps ==
  ASSUME VectorInv, NEW condition, V!ServerChanges(condition)
  PROVE  VectorInv'
  BY DEF V!ServerChanges, V!stored, VectorInv, VectorOwned, VectorSentIsStored, VectorKept

\* A restart takes the list, and every call with it.
LEMMA VectorRestartKeeps ==
  ASSUME VectorInv, V!Restart
  PROVE  VectorInv'
  <1>1. vecOp' \in [Threads -> VectorCalls] /\ \A t \in Threads : vecOp'[t].batch = {}
    BY VectorIdleIsCall DEF V!Restart, V!Idle
  <1>2. VectorSentIsStored'
    BY <1>1 DEF VectorSentIsStored
  <1>3. VectorKept' /\ VectorOwned'
    BY DEF V!Restart, VectorInv, VectorKept, VectorOwned
  <1> QED BY <1>1, <1>2, <1>3 DEF VectorInv

LEMMA VectorInitInv == V!Init => VectorInv
  <1> SUFFICES ASSUME V!Init PROVE VectorInv
    OBVIOUS
  <1>1. vecOp \in [Threads -> VectorCalls] /\ \A t \in Threads : vecOp[t].batch = {}
    BY VectorIdleIsCall DEF V!Init, V!Idle
  <1> QED BY <1>1 DEF V!Init, VectorInv, VectorOwned, VectorSentIsStored, VectorKept

LEMMA VectorThreadStepKeeps ==
  ASSUME VectorInv, NEW t \in Threads, V!ThreadStep(t)
  PROVE  VectorInv'
  <1>1. CASE \E batch \in (SUBSET Chunks) \ {{}} : V!StartIndex(t, batch)
    BY <1>1, VectorStartIndexKeeps
  <1>2. CASE \E part \in (SUBSET Chunks) \ {{}} : V!Flush(t, part)
    BY <1>2, VectorFlushKeeps
  <1>3. CASE V!StartSearch(t) \/ V!GetCollection(t) \/ V!RecreateCollection(t)
    BY <1>3, VectorStartSearchKeeps, VectorGetCollectionKeeps, VectorRecreateCollectionKeeps
  <1>4. CASE V!Query(t) \/ V!Report(t) \/ V!SetGauges(t) \/ V!SearchFallback(t) \/ V!Answer(t)
    BY <1>4, VectorQueryKeeps, VectorReportKeeps, VectorSetGaugesKeeps,
       VectorSearchFallbackKeeps, VectorAnswerKeeps
  <1> QED BY <1>1, <1>2, <1>3, <1>4 DEF V!ThreadStep

LEMMA VectorStep == ASSUME VectorInv, V!Next PROVE VectorInv'
  <1>1. CASE \E t \in Threads : V!ThreadStep(t)
    BY <1>1, VectorThreadStepKeeps
  <1>2. CASE \E condition \in {"up", "down", "erroring"} : V!ServerChanges(condition)
    BY <1>2, VectorServerChangesKeeps
  <1>3. CASE V!Restart
    BY <1>3, VectorRestartKeeps
  <1> QED BY <1>1, <1>2, <1>3 DEF V!Next

LEMMA VectorHolds == VectorInv => V!IndexedIsKept
  BY DEF VectorInv, VectorKept, V!IndexedIsKept

\* A chunk index_chunks has returned for is in the collection or in the fallback list,
\* unless the server dropped its collection (app/services/vectorstore.py).
THEOREM IndexedChunksStay == Spec => []IndexedIsKept
  <1> DEFINE Here == scene = "vector" => VectorInv
  <1>1. Init => Here
    BY VectorInitInv DEF Init
  <1>2. Here /\ [Next]_vars => Here'
    <2> SUFFICES ASSUME Here, [Next]_vars, scene' = "vector" PROVE VectorInv'
      OBVIOUS
    <2>1. CASE Apart("vector") /\ V!Next
      BY <2>1, VectorStep DEF Apart
    <2>2. CASE UNCHANGED <<scene, vectorVars>>
      BY <2>2 DEF vectorVars, VectorInv, VectorOwned, VectorSentIsStored, VectorKept
    <2> QED BY <2>1, <2>2 DEF Next, vars, Apart
  <1>3. Here => IndexedIsKept
    BY VectorHolds DEF IndexedIsKept
  <1> QED BY <1>1, <1>2, <1>3, PTL DEF Spec

-----------------------------------------------------------------------------
(* FaissStore: one order of the chunks, of which every copy is a beginning. *)

StoreLabels == {"idle", "payloads", "mapping", "index", "rebuild", "encode", "write",
                "writing", "search", "merge", "persist", "persisting", "map", "mapping_out"}

\* Labels of a call that also a search comes by, those after the mapping was read, and of
\* an upsert that was merged and is not written.
Shared == {"idle", "payloads", "mapping", "index", "rebuild", "encode", "write", "writing",
           "search"}
Ready == {"index", "rebuild", "encode", "write", "writing", "search", "merge", "map",
          "mapping_out"}
Ahead == {"persist", "persisting"}
Merged == {"persist", "persisting", "map", "mapping_out", "rebuild", "encode", "write",
           "writing"}

StoreFiles == {f \in [kind : {"missing", "torn", "content"}, ids : Seq(Ids)] :
                 f.kind # "content" => f.ids = <<>>}
StoreCalls == [pc : StoreLabels, batch : Seq(Ids), buffer : Seq(Ids), merged : BOOLEAN]

FaissTyped ==
  /\ payloads \in [Threads -> Seq(Ids)] /\ ordered \in [Threads -> Seq(Ids)]
  /\ index \in [Threads -> StoreFiles]
  /\ payloadsFile \in StoreFiles /\ mappingFile \in StoreFiles /\ indexFile \in StoreFiles
  /\ op \in [Threads -> StoreCalls]
  /\ acked \subseteq Ids /\ split \in BOOLEAN

OneEach(s) == \A m, n \in DOMAIN s : s[m] = s[n] => m = n
Begins(s, t) == Len(s) <= Len(t) /\ \A n \in DOMAIN s : s[n] = t[n]
Has(s, chunks) == \A i \in chunks : \E n \in DOMAIN s : s[n] = i
Pc == op[Indexer].pc

\* Only the indexer writes the two JSON files: payloads.json is torn while it does, or
\* for ever, and a call past the read of a file found it whole.
TornInv ==
  /\ payloadsFile.kind = "torn" =>
       mappingFile.kind # "torn" /\ Pc \in {"idle", "payloads", "persisting"}
  /\ Pc = "mapping_out" => mappingFile.kind = "torn"
  /\ Pc \in (Ready \ {"mapping_out"}) \cup Ahead => mappingFile.kind # "torn"
  /\ \A t \in Threads \ {Indexer} : op[t].pc \in Shared /\ op[t].batch = <<>> /\ ~op[t].merged
  /\ op[Indexer].merged => Pc \in Merged
  /\ Pc \in Merged \ {"rebuild", "encode", "write", "writing"} => op[Indexer].merged
  /\ OneEach(op[Indexer].batch)
  /\ \A t \in Threads : op[t].pc = "encode" => index[t].ids = <<>>

\* The chunks in the order in which readers find them.
Published == IF payloadsFile.kind = "torn" THEN mappingFile.ids ELSE payloadsFile.ids

\* What any process reads or read is a beginning of that order.
CopiesInv ==
  /\ OneEach(Published)
  /\ Begins(mappingFile.ids, Published) /\ Begins(indexFile.ids, Published)
  /\ \A t \in Threads : Begins(index[t].ids, Published)
  /\ \A t \in Threads : ~(t = Indexer /\ Pc \in Ahead) => Begins(ordered[t], Published)
  /\ \A t \in Threads \ {Indexer} : Begins(payloads[t], Published)
                                    /\ Begins(op[t].buffer, Published)

\* The indexer's own memory is that order, or has the chunks of its upsert besides.
IndexerInv ==
  /\ Pc \in {"map", "mapping_out"} \/ mappingFile.kind = "torn" \/ mappingFile.ids = Published
  /\ Pc = "mapping" => payloads[Indexer] = Published
  /\ Pc \in Ready => payloads[Indexer] = Published /\ ordered[Indexer] = Published
  /\ Pc \in Ahead => /\ ordered[Indexer] = payloads[Indexer]
                     /\ OneEach(payloads[Indexer])
                     /\ Begins(Published, payloads[Indexer])
  /\ Pc = "persisting" => op[Indexer].buffer = payloads[Indexer]
  /\ Pc \in {"mapping_out", "encode"} => op[Indexer].buffer = Published

OrderInv == ~split => CopiesInv /\ IndexerInv

\* What is to be on disk when the call of the indexer returns.
Due == acked \cup {i \in Ids : op[Indexer].merged
                               /\ \E n \in DOMAIN op[Indexer].batch : op[Indexer].batch[n] = i}

StoredInv ==
  /\ payloadsFile.kind # "torn" => Has(payloadsFile.ids, acked)
  /\ mappingFile.kind # "torn" => Has(mappingFile.ids, acked)
  /\ Pc = "mapping" => Has(payloads[Indexer], acked)
  /\ Pc \in Ready \cup Ahead => Has(payloads[Indexer], Due) /\ Has(ordered[Indexer], Due)
  /\ Pc \in {"persisting", "mapping_out"} => Has(op[Indexer].buffer, Due)
  /\ Pc \in Ready => Has(payloadsFile.ids, Due)
  /\ Pc \in {"rebuild", "encode", "write", "writing"} => Has(mappingFile.ids, Due)

FaissInv == FaissTyped /\ TornInv /\ OrderInv /\ StoredInv

LEMMA SameSelection == ASSUME NEW s, NEW at PROVE F!Selected(s, at) = Selected(s, at)
  BY DEF F!Selected, Selected, F!Rank, Rank, F!Cardinality, Cardinality

\* What a process knows of the mapping is a beginning of the order, all of it where the
\* payloads are those of the mapping.
LEMMA KnownBegins ==
  ASSUME NEW s \in Seq(Ids), NEW q \in Seq(Ids), NEW p \in Seq(Ids),
         OneEach(p), Begins(s, p), Begins(q, p)
  PROVE  Begins(F!Known(s, q), p) /\ (s = q => F!Known(s, q) = s)
  <1> DEFINE at == {n \in DOMAIN s : s[n] \in F!Range(q)}
             m == IF Len(s) <= Len(q) THEN Len(s) ELSE Len(q)
  <1>0. /\ Len(s) \in Nat /\ Len(q) \in Nat /\ Len(p) \in Nat /\ m \in 0 .. Len(s)
        /\ DOMAIN s = 1 .. Len(s) /\ DOMAIN q = 1 .. Len(q) /\ DOMAIN p = 1 .. Len(p)
        /\ Len(s) <= Len(p) /\ Len(q) <= Len(p)
    BY DEF Begins
  <1>1. at = 1 .. m
    <2>1. ASSUME NEW n \in at PROVE n \in 1 .. m
      <3>1. PICK k \in DOMAIN q : s[n] = q[k]
        BY DEF F!Range
      <3>2. n \in DOMAIN p /\ k \in DOMAIN p /\ p[n] = p[k]
        BY <1>0, <3>1 DEF Begins
      <3>3. n = k
        BY <3>2 DEF OneEach
      <3> QED BY <1>0, <3>1, <3>3
    <2>2. ASSUME NEW n \in 1 .. m PROVE n \in at
      <3>1. n \in DOMAIN s /\ n \in DOMAIN q
        BY <1>0
      <3>2. s[n] = p[n] /\ q[n] = p[n]
        BY <3>1 DEF Begins
      <3> QED BY <3>1, <3>2 DEF F!Range
    <2> QED BY <2>1, <2>2
  <1>2. F!Known(s, q) = Selected(s, 1 .. m)
    <2>1. F!Known(s, q) = Selected(s, at)
      BY SameSelection DEF F!Known
    <2> QED BY <1>1, <2>1
  <1> HIDE DEF at, m
  <1>3. Selected(s, 1 .. m) \in Seq(Ids)
    <2>1. 1 .. m \in SUBSET DOMAIN s
      BY <1>0
    <2> QED BY <2>1, SelectionHas
  <1>4. /\ Len(Selected(s, 1 .. m)) = m
        /\ \A n \in DOMAIN Selected(s, 1 .. m) : Selected(s, 1 .. m)[n] = s[n]
    BY <1>0, BeginningIsSelected
  <1>5. Begins(F!Known(s, q), p)
    BY <1>0, <1>2, <1>3, <1>4 DEF Begins
  <1>6. ASSUME s = q PROVE Selected(s, 1 .. m) = s
    <2>1. m = Len(s)
      BY <1>6 DEF m
    <2> QED BY <1>0, <1>3, <1>4, <2>1
  <1> QED BY <1>2, <1>5, <1>6

\* Whatever chunk both the mapping and the payloads have is known.
LEMMA KnownHas ==
  ASSUME NEW s \in Seq(Ids), NEW q \in Seq(Ids), NEW chunks, Has(s, chunks), Has(q, chunks)
  PROVE  Has(F!Known(s, q), chunks)
  <1> DEFINE at == {n \in DOMAIN s : s[n] \in F!Range(q)}
  <1>1. F!Known(s, q) = Selected(s, at)
    BY SameSelection DEF F!Known
  <1>2. at \in SUBSET DOMAIN s
    OBVIOUS
  <1>3. ASSUME NEW i \in chunks PROVE \E n \in at : s[n] = i
    BY DEF Has, F!Range
  <1>4. \A n \in at : \E k \in DOMAIN Selected(s, at) : Selected(s, at)[k] = s[n]
    BY <1>2, SelectionHas
  <1> QED BY <1>1, <1>3, <1>4 DEF Has

LEMMA KnownTyped ==
  ASSUME NEW s \in Seq(Ids), NEW q \in Seq(Ids)
  PROVE  F!Known(s, q) \in Seq(Ids)
  <1> DEFINE at == {n \in DOMAIN s : s[n] \in F!Range(q)}
  <1>1. F!Known(s, q) = Selected(s, at)
    BY SameSelection DEF F!Known
  <1>2. at \in SUBSET DOMAIN s
    OBVIOUS
  <1> QED BY <1>1, <1>2, SelectionHas

\* Items merge appends the chunks that are new, each once.
LEMMA MergeAppends ==
  ASSUME NEW s \in Seq(Ids), NEW batch \in Seq(Ids), OneEach(batch)
  PROVE  /\ F!AppendNew(s, batch) \in Seq(Ids)
         /\ Begins(s, F!AppendNew(s, batch))
         /\ OneEach(s) => OneEach(F!AppendNew(s, batch))
         /\ \A i : (\E n \in DOMAIN s : s[n] = i) \/ (\E n \in DOMAIN batch : batch[n] = i)
                   => \E n \in DOMAIN F!AppendNew(s, batch) : F!AppendNew(s, batch)[n] = i
  <1> DEFINE at == {n \in DOMAIN batch : batch[n] \notin F!Range(s)}
             new == Selected(batch, at)
  <1>1. F!AppendNew(s, batch) = s \o new
    BY SameSelection DEF F!AppendNew, F!Fresh
  <1>2. at \in SUBSET DOMAIN batch
    OBVIOUS
  <1>3. /\ new \in Seq(Ids)
        /\ \A n \in DOMAIN new : \E i \in at : new[n] = batch[i]
        /\ \A i \in at : \E n \in DOMAIN new : new[n] = batch[i]
    BY <1>2, SelectionHas
  <1>4. \A m, n \in DOMAIN new : new[m] = new[n] => m = n
    BY <1>2, SelectionIsOneEach DEF OneEach
  <1>5. \A n \in DOMAIN new : \A k \in DOMAIN s : new[n] # s[k]
    BY <1>3 DEF F!Range
  <1>6. \A n \in DOMAIN batch : n \in at \/ \E k \in DOMAIN s : s[k] = batch[n]
    BY DEF F!Range
  <1> HIDE DEF at, new
  <1> DEFINE all == s \o new
  <1>7. /\ all \in Seq(Ids) /\ Len(all) = Len(s) + Len(new) /\ Len(s) \in Nat /\ Len(new) \in Nat
        /\ \A n \in 1 .. Len(s) : all[n] = s[n]
        /\ \A n \in 1 .. Len(new) : all[Len(s) + n] = new[n]
        /\ \A n \in 1 .. Len(all) : n \notin 1 .. Len(s) => n - Len(s) \in 1 .. Len(new)
                                                           /\ all[n] = new[n - Len(s)]
    BY <1>3
  <1> HIDE DEF all
  <1>8. Begins(s, all)
    BY <1>7 DEF Begins
  <1>9. ASSUME OneEach(s) PROVE OneEach(all)
    <2> SUFFICES ASSUME NEW m \in 1 .. Len(all), NEW n \in 1 .. Len(all), all[m] = all[n]
                 PROVE  m = n
      BY <1>7 DEF OneEach
    <2>0. Len(s) \in Nat /\ m \in Nat /\ n \in Nat
      BY <1>7
    <2>1. CASE m \in 1 .. Len(s) /\ n \in 1 .. Len(s)
      BY <1>7, <1>9, <2>1 DEF OneEach
    <2>2. ASSUME NEW j \in 1 .. Len(all), j \notin 1 .. Len(s), NEW k \in 1 .. Len(s)
          PROVE  all[j] # all[k]
      <3>1. j - Len(s) \in DOMAIN new /\ all[j] = new[j - Len(s)]
        BY <1>3, <1>7, <2>2
      <3>2. k \in DOMAIN s /\ all[k] = s[k]
        BY <1>7
      <3> QED BY <1>5, <3>1, <3>2
    <2>3. CASE m \notin 1 .. Len(s) /\ n \notin 1 .. Len(s)
      <3>1. m - Len(s) \in DOMAIN new /\ all[m] = new[m - Len(s)]
        BY <1>3, <1>7, <2>3
      <3>2. n - Len(s) \in DOMAIN new /\ all[n] = new[n - Len(s)]
        BY <1>3, <1>7, <2>3
      <3>3. m - Len(s) = n - Len(s)
        BY <1>4, <3>1, <3>2
      <3> QED BY <2>0, <3>3
    <2> QED BY <2>1, <2>2, <2>3
  <1>10. ASSUME NEW i, NEW n \in DOMAIN s, s[n] = i PROVE \E k \in DOMAIN all : all[k] = i
    BY <1>7, <1>10
  <1>11. ASSUME NEW n \in DOMAIN new PROVE \E k \in DOMAIN all : all[k] = new[n]
    <2>1. n \in 1 .. Len(new) /\ Len(s) + n \in 1 .. Len(all)
      BY <1>3, <1>7
    <2> QED BY <1>7, <2>1
  <1>12. ASSUME NEW i, NEW n \in DOMAIN batch, batch[n] = i PROVE \E k \in DOMAIN all : all[k] = i
    <2>1. CASE n \in at
      <3>1. PICK j \in DOMAIN new : new[j] = batch[n]
        BY <1>3, <2>1
      <3> QED BY <1>11, <1>12, <3>1
    <2>2. CASE n \notin at
      BY <1>6, <1>10, <1>12, <2>2
    <2> QED BY <2>1, <2>2
  <1> QED BY <1>1, <1>7, <1>8, <1>9, <1>10, <1>12 DEF all

LEMMA FaissInitInv == F!Init => FaissInv
  <1> SUFFICES ASSUME F!Init PROVE FaissInv
    OBVIOUS
  <1>0. <<>> \in Seq(Ids) /\ Len(<<>>) = 0 /\ DOMAIN <<>> = {} /\ Indexer \in Threads
    BY ServicesAssumption
  <1>1. /\ payloads = [t \in Threads |-> <<>>] /\ ordered = [t \in Threads |-> <<>>]
        /\ index = [t \in Threads |-> F!Missing] /\ op = [t \in Threads |-> F!Idle]
        /\ payloadsFile = F!Missing /\ mappingFile = F!Missing /\ indexFile = F!Missing
        /\ acked = {} /\ split = FALSE
    BY DEF F!Init
  <1>2. F!Missing.kind = "missing" /\ F!Missing.ids = <<>> /\ F!Missing \in StoreFiles
    BY DEF F!Missing, StoreFiles
  <1>3. /\ F!Idle \in StoreCalls /\ F!Idle.pc = "idle" /\ F!Idle.batch = <<>>
        /\ F!Idle.buffer = <<>> /\ ~F!Idle.merged
    BY DEF F!Idle, StoreCalls, StoreLabels
  <1>4. FaissTyped
    BY <1>0, <1>1, <1>2, <1>3 DEF FaissTyped
  <1>5. Pc = "idle" /\ Published = <<>>
    BY <1>0, <1>1, <1>2, <1>3 DEF Pc, Published
  <1>6. TornInv
    BY <1>0, <1>1, <1>2, <1>3, <1>5 DEF TornInv, Ready, Ahead, Shared, Merged, OneEach
  <1>7. Begins(<<>>, <<>>) /\ OneEach(<<>>) /\ Has(<<>>, {})
    BY <1>0 DEF Begins, OneEach, Has
  <1>8. OrderInv
    BY <1>0, <1>1, <1>2, <1>3, <1>5, <1>7 DEF OrderInv, CopiesInv, IndexerInv, Ready, Ahead
  <1>9. StoredInv
    BY <1>0, <1>1, <1>2, <1>3, <1>5, <1>7 DEF StoredInv, Ready, Ahead
  <1> QED BY <1>4, <1>6, <1>8, <1>9 DEF FaissInv

-----------------------------------------------------------------------------
\* A step of a call that leaves the JSON files and what was read of them.
Reads(t) ==
  /\ index' \in [Threads -> StoreFiles] /\ indexFile' \in StoreFiles
  /\ \A u \in Threads \ {t} : index'[u] = index[u]
  /\ ~split => Begins(index'[t].ids, Published) /\ Begins(indexFile'.ids, Published)
  /\ UNCHANGED <<payloads, ordered, payloadsFile, mappingFile, split>>

LEMMA PublishedTyped == ASSUME FaissTyped PROVE Published \in Seq(Ids) /\ Pc \in StoreLabels
  BY ServicesAssumption DEF FaissTyped, Published, StoreFiles, StoreCalls, Pc

\* The call goes on to a label, and nothing else of it changes but its buffer.
Goes(t, label, buffer) ==
  /\ op'[t].pc = label /\ op'[t].buffer = buffer
  /\ op'[t].batch = op[t].batch /\ op'[t].merged = op[t].merged
  /\ op' \in [Threads -> StoreCalls] /\ \A u \in Threads \ {t} : op'[u] = op[u]

LEMMA GotoGoes ==
  ASSUME FaissTyped, NEW t \in Threads, NEW label \in StoreLabels, F!Goto(t, label)
  PROVE  Goes(t, label, op[t].buffer)
  <1>1. op \in [Threads -> StoreCalls] /\ op' = [op EXCEPT ![t].pc = label]
    BY DEF FaissTyped, F!Goto
  <1> QED BY <1>1 DEF Goes, StoreCalls

\* Where it goes, in ensure_ready and _rebuild_index.
Follows(t, label) ==
  \/ label = "payloads" /\ op[t].pc = "idle"
  \/ label = "rebuild" /\ op[t].pc = "index"
  \/ label = "encode" /\ op[t].pc = "rebuild" /\ index'[t].ids = <<>>
  \/ label \in {"write", "writing"} /\ op[t].pc \in {"encode", "write"}
  \/ /\ label \in {"search", "merge"} /\ ~op[t].merged /\ (label = "merge" => t = Indexer)
     /\ op[t].pc \in {"index", "rebuild", "encode", "write", "writing"}

LEMMA CallGoes ==
  ASSUME FaissInv, NEW t \in Threads, Reads(t), acked' = acked, NEW label, NEW buffer,
         Goes(t, label, buffer), Follows(t, label),
         buffer = IF label = "encode" THEN ordered[t] ELSE op[t].buffer
  PROVE  FaissInv'
  <1>1. /\ FaissTyped /\ TornInv /\ OrderInv /\ StoredInv /\ Indexer \in Threads
        /\ op \in [Threads -> StoreCalls]
    BY ServicesAssumption DEF FaissInv, FaissTyped
  <1>2. /\ op'[t].pc = label /\ op'[t].batch = op[t].batch /\ op'[t].merged = op[t].merged
        /\ op'[t].buffer = buffer /\ op' \in [Threads -> StoreCalls]
        /\ \A u \in Threads \ {t} : op'[u] = op[u]
    BY DEF Goes
  <1>3. /\ payloads' = payloads /\ ordered' = ordered /\ payloadsFile' = payloadsFile
        /\ mappingFile' = mappingFile /\ split' = split /\ acked' = acked
    BY DEF Reads
  <1>4. FaissTyped'
    BY <1>1, <1>2, <1>3 DEF FaissTyped, Reads
  <1>5. Published' = Published
    BY <1>3 DEF Published
  <1>6. Pc' = op'[Indexer].pc /\ Pc = op[Indexer].pc
    BY DEF Pc
  <1>7. TornInv'
    BY <1>1, <1>2, <1>3, <1>6 DEF TornInv, Ready, Ahead, Shared, Merged, Reads, Follows
  <1>8. ASSUME ~split PROVE CopiesInv'
    BY <1>1, <1>2, <1>3, <1>5, <1>6, <1>8
       DEF CopiesInv, OrderInv, TornInv, Reads, Shared, Ahead, Follows
  <1>9. ASSUME ~split PROVE IndexerInv'
    BY <1>1, <1>2, <1>3, <1>5, <1>6, <1>9
       DEF IndexerInv, OrderInv, TornInv, Shared, Ahead, Ready, Follows
  <1>10. Due' = Due
    BY <1>1, <1>2, <1>3 DEF Due
  <1>11. StoredInv'
    <2>1. CASE t # Indexer
      BY <1>1, <1>2, <1>3, <1>6, <1>10, <2>1 DEF StoredInv
    <2>2. CASE t = Indexer
      <3>1. /\ ~op[t].merged => Due = acked
            /\ op[t].merged => Pc \in Merged
        BY <1>1, <1>6, <2>2 DEF Due, TornInv
      <3>2. Pc \in {"index", "rebuild", "encode", "write", "writing"} =>
              Has(mappingFile.ids, Due)
        BY <1>1, <3>1 DEF StoredInv, TornInv, Merged, Ready
      <3>3. Pc' # "mapping" /\ Pc' \notin Ahead /\ Pc' \notin {"persisting", "mapping_out"}
        BY <1>2, <1>6, <2>2 DEF Follows, Ahead
      <3>4. Pc' \in Ready => Pc \in Ready
                             /\ Pc \in {"index", "rebuild", "encode", "write", "writing"}
        BY <1>2, <1>6, <2>2 DEF Follows, Ready
      <3>5. Pc' \in {"rebuild", "encode", "write", "writing"} => Pc' \in Ready
        BY DEF Ready
      <3> QED BY <1>1, <1>3, <1>10, <3>2, <3>3, <3>4, <3>5 DEF StoredInv
    <2> QED BY <2>1, <2>2
  <1> QED BY <1>3, <1>4, <1>7, <1>8, <1>9, <1>11 DEF FaissInv, OrderInv

\* The call returns, or raises an error.
LEMMA CallEnds ==
  ASSUME FaissInv, NEW t \in Threads, Reads(t), op' = [op EXCEPT ![t] = F!Idle],
         t = Indexer => Pc \notin {"map", "mapping_out", "persist", "persisting"},
         acked' = acked \/ (t = Indexer /\ Pc \in {"rebuild", "writing"} /\ acked' = Due)
  PROVE  FaissInv'
  <1>1. /\ FaissTyped /\ TornInv /\ OrderInv /\ StoredInv /\ Indexer \in Threads
        /\ op \in [Threads -> StoreCalls] /\ acked \subseteq Ids
    BY ServicesAssumption DEF FaissInv, FaissTyped
  <1>2. /\ op'[t].pc = "idle" /\ op'[t].batch = <<>> /\ ~op'[t].merged
        /\ op' \in [Threads -> StoreCalls]
        /\ \A u \in Threads \ {t} : op'[u] = op[u]
    BY <1>1 DEF StoreCalls, StoreLabels, F!Idle
  <1>3. /\ payloads' = payloads /\ ordered' = ordered /\ payloadsFile' = payloadsFile
        /\ mappingFile' = mappingFile /\ split' = split
    BY DEF Reads
  <1>4. acked' \subseteq Ids
    BY <1>1 DEF Due
  <1>5. FaissTyped'
    BY <1>1, <1>2, <1>3, <1>4 DEF FaissTyped, Reads
  <1>6. Published' = Published
    BY <1>3 DEF Published
  <1>7. Pc' = op'[Indexer].pc /\ Pc = op[Indexer].pc
    BY DEF Pc
  <1>8. OneEach(<<>>)
    BY DEF OneEach
  <1>9. TornInv'
    BY <1>1, <1>2, <1>3, <1>7, <1>8 DEF TornInv, Ready, Ahead, Shared, Merged, Reads
  <1>10. ASSUME ~split PROVE CopiesInv'
    <2>1. ~(t = Indexer /\ Pc \in Ahead)
      BY <1>1 DEF Ahead
    <2>2. F!Idle.buffer = <<>> /\ Begins(<<>>, Published)
      BY <1>1, PublishedTyped DEF F!Idle, Begins
    <2> QED BY <1>1, <1>2, <1>3, <1>6, <1>7, <1>10, <2>1, <2>2
            DEF CopiesInv, OrderInv, TornInv, Reads, Shared, Ahead
  <1>11. ASSUME ~split PROVE IndexerInv'
    BY <1>1, <1>2, <1>3, <1>6, <1>7, <1>11 DEF IndexerInv, OrderInv, TornInv, Shared, Ahead, Ready
  <1>12. StoredInv'
    <2>1. CASE t # Indexer
      <3>1. Due' = Due
        BY <1>1, <1>2, <2>1 DEF Due
      <3> QED BY <1>1, <1>2, <1>3, <1>7, <2>1, <3>1 DEF StoredInv, TornInv, Shared, Ahead, Ready
    <2>2. CASE t = Indexer /\ acked' = acked
      BY <1>1, <1>2, <1>3, <1>7, <2>2 DEF StoredInv, Shared, Ahead, Ready
    <2>3. CASE t = Indexer /\ Pc \in {"rebuild", "writing"} /\ acked' = Due
      BY <1>1, <1>2, <1>3, <1>7, <2>3 DEF StoredInv, TornInv, Shared, Ahead, Ready
    <2> QED BY <2>1, <2>2, <2>3
  <1> QED BY <1>3, <1>5, <1>9, <1>10, <1>11, <1>12 DEF FaissInv, OrderInv

\* Those of ensure_ready, _rebuild_index and search.
LEMMA ReadsSame ==
  ASSUME FaissInv, NEW t \in Threads, index' = index, indexFile' = indexFile,
         UNCHANGED <<payloads, ordered, payloadsFile, mappingFile, split>>
  PROVE  Reads(t)
  BY DEF Reads, FaissInv, FaissTyped, OrderInv, CopiesInv

LEMMA StartSearchKeeps == ASSUME FaissInv, NEW t \in Threads, F!StartSearch(t) PROVE FaissInv'
  <1>1. Reads(t) /\ acked' = acked
    BY ReadsSame DEF F!StartSearch, F!memory, F!storage
  <1>2. Goes(t, "payloads", op[t].buffer)
    BY GotoGoes DEF F!StartSearch, FaissInv, StoreLabels
  <1>3. Follows(t, "payloads")
    BY DEF Follows, F!StartSearch, F!At
  <1> QED BY <1>1, <1>2, <1>3, CallGoes

LEMMA LoadedKeeps ==
  ASSUME FaissInv, NEW t \in Threads, Reads(t), F!Loaded(t), acked' = acked,
         op[t].pc \in {"index", "rebuild", "encode", "write", "writing"}, ~op[t].merged
  PROVE  FaissInv'
  <1>1. CASE op[t].batch = <<>>
    <2>1. Goes(t, "search", op[t].buffer)
      BY <1>1, GotoGoes DEF F!Loaded, FaissInv, StoreLabels
    <2>2. Follows(t, "search")
      BY DEF Follows
    <2> QED BY <2>1, <2>2, CallGoes
  <1>2. CASE op[t].batch # <<>>
    <2>1. Goes(t, "merge", op[t].buffer)
      BY <1>2, GotoGoes DEF F!Loaded, FaissInv, StoreLabels
    <2>2. t = Indexer
      BY <1>2 DEF FaissInv, TornInv
    <2>3. Follows(t, "merge")
      BY <2>2 DEF Follows
    <2> QED BY <2>1, <2>3, CallGoes
  <1> QED BY <1>1, <1>2

LEMMA EnsureIndexLoadedKeeps ==
  ASSUME FaissInv, NEW t \in Threads, F!EnsureIndexLoaded(t) PROVE FaissInv'
  <1>1. /\ op[t].pc = "index" /\ op[t] \in StoreCalls /\ op \in [Threads -> StoreCalls]
        /\ acked' = acked /\ index \in [Threads -> StoreFiles] /\ indexFile \in StoreFiles
        /\ UNCHANGED <<payloads, ordered, payloadsFile, mappingFile, indexFile, split>>
    BY DEF F!EnsureIndexLoaded, F!At, F!storage, FaissInv, FaissTyped
  <1>2. ~op[t].merged /\ op[t].buffer \in Seq(Ids)
    BY <1>1 DEF FaissInv, TornInv, Merged, Pc, StoreCalls
  <1>3. CASE F!Loaded(t) /\ index' = index
    BY <1>1, <1>2, <1>3, ReadsSame, LoadedKeeps
  <1>4. CASE F!Goto(t, "rebuild") /\ index' = index
    <2>1. Goes(t, "rebuild", op[t].buffer)
      BY <1>4, GotoGoes DEF FaissInv, StoreLabels
    <2>2. Follows(t, "rebuild")
      BY <1>1 DEF Follows
    <2> QED BY <1>1, <1>4, <2>1, <2>2, ReadsSame, CallGoes
  <1>5. CASE F!Fail(t) /\ index' = index
    BY <1>1, <1>5, ReadsSame, CallEnds DEF Pc, F!Fail
  <1>6. CASE F!Loaded(t) /\ index' = [index EXCEPT ![t] = indexFile]
    <2>1. Reads(t)
      BY <1>1, <1>6 DEF Reads, FaissInv, OrderInv, CopiesInv
    <2> QED BY <1>1, <1>2, <1>6, <2>1, LoadedKeeps
  <1>7. F!EnsureIndexLoaded(t) =>
          \/ F!Loaded(t) /\ index' = index
          \/ F!Goto(t, "rebuild") /\ index' = index
          \/ F!Fail(t) /\ index' = index
          \/ F!Loaded(t) /\ index' = [index EXCEPT ![t] = indexFile]
    BY DEF F!EnsureIndexLoaded
  <1> QED BY <1>3, <1>4, <1>5, <1>6, <1>7

LEMMA FinishKeeps ==
  ASSUME FaissInv, NEW t \in Threads, Reads(t), F!Finish(t),
         op[t].pc \in {"rebuild", "writing"}
  PROVE  FaissInv'
  <1>1. CASE op[t].merged
    <2>1. t = Indexer
      BY <1>1 DEF FaissInv, TornInv
    <2>2. acked' = acked \cup F!Range(op[t].batch) /\ op' = [op EXCEPT ![t] = F!Idle]
      BY <1>1 DEF F!Finish
    <2>3. op[t].batch \in Seq(Ids)
      BY DEF FaissInv, FaissTyped, StoreCalls
    <2>4. acked' = Due
      BY <1>1, <2>1, <2>2, <2>3 DEF Due, F!Range
    <2> QED BY <2>1, <2>2, <2>4, CallEnds DEF Pc
  <1>2. CASE ~op[t].merged
    BY <1>2, LoadedKeeps DEF F!Finish
  <1> QED BY <1>1, <1>2

LEMMA RebuildEmptyKeeps == ASSUME FaissInv, NEW t \in Threads, F!RebuildEmpty(t) PROVE FaissInv'
  <1>1. /\ op[t].pc = "rebuild" /\ op[t] \in StoreCalls /\ op \in [Threads -> StoreCalls]
        /\ index \in [Threads -> StoreFiles] /\ indexFile \in StoreFiles
        /\ ordered[t] \in Seq(Ids)
        /\ index' = [index EXCEPT ![t] = F!Content(<<>>)]
        /\ UNCHANGED <<payloads, ordered, payloadsFile, mappingFile, split>>
    BY DEF F!RebuildEmpty, F!At, FaissInv, FaissTyped
  <1>2. /\ F!Content(<<>>) \in StoreFiles /\ F!Content(<<>>).ids = <<>>
        /\ F!Missing \in StoreFiles /\ F!Missing.ids = <<>>
    BY DEF F!Content, F!Missing, StoreFiles
  <1>3. Begins(<<>>, Published)
    BY PublishedTyped DEF FaissInv, Begins
  <1>4. CASE indexFile' = F!Missing /\ F!Finish(t)
    <2>1. Reads(t)
      BY <1>1, <1>2, <1>3, <1>4 DEF Reads
    <2> QED BY <1>1, <1>4, <2>1, FinishKeeps
  <1>5. CASE /\ op' = [op EXCEPT ![t].pc = "encode", ![t].buffer = ordered[t]]
             /\ UNCHANGED <<indexFile, acked>>
    <2>1. Reads(t)
      BY <1>1, <1>2, <1>3, <1>5 DEF Reads, FaissInv, OrderInv, CopiesInv
    <2>2. Goes(t, "encode", ordered[t])
      BY <1>1, <1>5 DEF Goes, StoreCalls, StoreLabels
    <2>3. Follows(t, "encode")
      BY <1>1, <1>2 DEF Follows
    <2> QED BY <1>5, <2>1, <2>2, <2>3, CallGoes
  <1> QED BY <1>4, <1>5 DEF F!RebuildEmpty

LEMMA EncodeAndAddKeeps == ASSUME FaissInv, NEW t \in Threads, F!EncodeAndAdd(t) PROVE FaissInv'
  <1>1. /\ op[t].pc = "encode" /\ op[t] \in StoreCalls /\ op \in [Threads -> StoreCalls]
        /\ index \in [Threads -> StoreFiles] /\ indexFile \in StoreFiles /\ acked' = acked
        /\ index' = [index EXCEPT ![t] = F!Content(index[t].ids \o op[t].buffer)]
        /\ UNCHANGED <<payloads, ordered, payloadsFile, mappingFile, indexFile, split>>
    BY DEF F!EncodeAndAdd, F!At, F!storage, FaissInv, FaissTyped
  <1>2. op[t].buffer \in Seq(Ids) /\ index[t].ids = <<>>
    BY <1>1 DEF FaissInv, TornInv, StoreCalls
  <1>3. index[t].ids \o op[t].buffer = op[t].buffer
    BY <1>2
  <1>4. F!Content(op[t].buffer) \in StoreFiles /\ F!Content(op[t].buffer).ids = op[t].buffer
    BY <1>2 DEF F!Content, StoreFiles
  <1>5. ASSUME ~split PROVE Begins(op[t].buffer, Published)
    <2>1. CASE t = Indexer
      <3>1. op[t].buffer = Published
        BY <1>1, <1>5, <2>1 DEF FaissInv, OrderInv, IndexerInv, Pc
      <3> QED BY <3>1, PublishedTyped DEF Begins, FaissInv
    <2>2. CASE t # Indexer
      BY <1>5, <2>2 DEF FaissInv, OrderInv, CopiesInv
    <2> QED BY <2>1, <2>2
  <1>6. Reads(t)
    BY <1>1, <1>3, <1>4, <1>5 DEF Reads, FaissInv, OrderInv, CopiesInv
  <1>7. Goes(t, "write", op[t].buffer)
    BY GotoGoes DEF F!EncodeAndAdd, FaissInv, StoreLabels
  <1>8. Follows(t, "write")
    BY <1>1 DEF Follows
  <1> QED BY <1>1, <1>6, <1>7, <1>8, CallGoes

LEMMA EncodeFailsKeeps == ASSUME FaissInv, NEW t \in Threads, F!EncodeFails(t) PROVE FaissInv'
  BY ReadsSame, CallEnds DEF F!EncodeFails, F!At, F!Fail, F!memory, F!storage, Pc

LEMMA TruncateIndexKeeps == ASSUME FaissInv, NEW t \in Threads, F!TruncateIndex(t) PROVE FaissInv'
  <1>1. /\ op[t].pc = "write" /\ op[t] \in StoreCalls /\ op \in [Threads -> StoreCalls]
        /\ index \in [Threads -> StoreFiles] /\ indexFile' = F!Torn /\ acked' = acked
        /\ UNCHANGED <<index, payloads, ordered, payloadsFile, mappingFile, split>>
    BY DEF F!TruncateIndex, F!At, F!memory, FaissInv, FaissTyped
  <1>2. F!Torn \in StoreFiles /\ F!Torn.ids = <<>>
    BY DEF F!Torn, StoreFiles
  <1>3. Begins(<<>>, Published)
    BY PublishedTyped DEF FaissInv, Begins
  <1>4. Reads(t)
    BY <1>1, <1>2, <1>3 DEF Reads, FaissInv, OrderInv, CopiesInv
  <1>5. Goes(t, "writing", op[t].buffer)
    BY GotoGoes DEF F!TruncateIndex, FaissInv, StoreLabels
  <1>6. Follows(t, "writing")
    BY <1>1 DEF Follows
  <1> QED BY <1>1, <1>4, <1>5, <1>6, CallGoes

LEMMA WriteIndexKeeps == ASSUME FaissInv, NEW t \in Threads, F!WriteIndex(t) PROVE FaissInv'
  <1>1. /\ op[t].pc = "writing" /\ F!Finish(t)
        /\ index \in [Threads -> StoreFiles] /\ indexFile' = index[t]
        /\ UNCHANGED <<index, payloads, ordered, payloadsFile, mappingFile, split>>
    BY DEF F!WriteIndex, F!At, F!memory, FaissInv, FaissTyped
  <1>2. Reads(t)
    BY <1>1 DEF Reads, FaissInv, OrderInv, CopiesInv
  <1> QED BY <1>1, <1>2, FinishKeeps

LEMMA SearchKeeps == ASSUME FaissInv, NEW t \in Threads, F!Search(t) PROVE FaissInv'
  BY ReadsSame, CallEnds DEF F!Search, F!At, F!memory, F!storage, Pc

-----------------------------------------------------------------------------
\* The steps of an upsert, and those that read the JSON files.
LEMMA StartUpsertKeeps ==
  ASSUME FaissInv, NEW t \in Threads, NEW batch \in F!Batches, F!StartUpsert(t, batch)
  PROVE  FaissInv'
  <1>1. /\ FaissTyped /\ TornInv /\ OrderInv /\ StoredInv /\ Indexer \in Threads
        /\ op \in [Threads -> StoreCalls] /\ t = Indexer /\ op[t].pc = "idle"
        /\ op' = [op EXCEPT ![t].pc = "payloads", ![t].batch = batch]
        /\ UNCHANGED <<index, payloads, ordered, payloadsFile, mappingFile, indexFile, split, acked>>
    BY ServicesAssumption
       DEF FaissInv, FaissTyped, F!StartUpsert, F!At, F!memory, F!storage
  <1>2. batch \in Seq(Ids) /\ OneEach(batch)
    <2>1. OneEach(batch)
      BY DEF F!Batches, F!IsInjective, OneEach
    <2>2. PICK n \in 1 .. 2 : batch \in [1 .. n -> Ids]
      BY DEF F!Batches
    <2>3. n \in Nat
      BY <2>2
    <2> QED BY <2>1, <2>2, <2>3
  <1>3. /\ op'[t].pc = "payloads" /\ op'[t].batch = batch /\ ~op'[t].merged
        /\ op' \in [Threads -> StoreCalls] /\ \A u \in Threads \ {t} : op'[u] = op[u]
    <2>1. ~op[t].merged
      BY <1>1 DEF TornInv, Merged, Pc
    <2>2. op \in [Threads -> StoreCalls] /\ op' = [op EXCEPT ![t].pc = "payloads", ![t].batch = batch]
      BY <1>1
    <2>3. \A u \in Threads \ {t} : op'[u] = op[u]
      BY <2>2
    <2>4. op'[t].pc = "payloads" /\ op'[t].batch = batch /\ op'[t].merged = op[t].merged
      BY <2>2 DEF StoreCalls
    <2>5. op' \in [Threads -> StoreCalls]
      BY <1>2, <2>2 DEF StoreCalls, StoreLabels
    <2> QED BY <2>1, <2>3, <2>4, <2>5
  <1>4. FaissTyped'
    BY <1>1, <1>3 DEF FaissTyped
  <1>5. Published' = Published /\ Pc' = "payloads" /\ Pc = "idle"
    BY <1>1, <1>3 DEF Published, Pc
  <1>6. TornInv'
    BY <1>1, <1>2, <1>3, <1>5 DEF TornInv, Ready, Ahead, Shared, Merged
  <1>7. ASSUME ~split PROVE CopiesInv' /\ IndexerInv'
    BY <1>1, <1>3, <1>5, <1>7 DEF CopiesInv, OrderInv, IndexerInv, Ahead, Ready
  <1>8. StoredInv'
    BY <1>1, <1>5 DEF StoredInv, Ahead, Ready
  <1> QED BY <1>1, <1>4, <1>6, <1>7, <1>8 DEF FaissInv, OrderInv

\* A call that goes on from the read of a file it found whole.
GoesOn(t) ==
  /\ op[t].pc \in {"payloads", "mapping"} /\ op'[t].pc \in {"mapping", "index"}
  /\ payloadsFile.kind # "torn" \/ op[t].pc = "mapping"
  /\ mappingFile.kind # "torn" \/ op'[t].pc = "mapping"
  /\ op'[t].batch = op[t].batch /\ op'[t].merged = op[t].merged
  /\ \A u \in Threads \ {t} : op'[u] = op[u]
  /\ UNCHANGED <<index, payloadsFile, mappingFile>>

LEMMA ReadKeepsTorn ==
  ASSUME TornInv, Indexer \in Threads, NEW t \in Threads, GoesOn(t) PROVE TornInv'
  <1>1. ASSUME t = Indexer PROVE TornInv'
    <2>1. /\ Pc \in {"payloads", "mapping"} /\ Pc' \in {"mapping", "index"}
          /\ payloadsFile'.kind # "torn"
          /\ mappingFile'.kind # "torn" \/ Pc' = "mapping"
      BY <1>1 DEF GoesOn, TornInv, Pc
    <2>2. ~op'[Indexer].merged /\ OneEach(op'[Indexer].batch)
      BY <1>1, <2>1 DEF GoesOn, TornInv, Merged
    <2>3. \A u \in Threads \ {Indexer} : op'[u].pc \in Shared /\ op'[u].batch = <<>>
                                        /\ ~op'[u].merged
      BY <1>1 DEF GoesOn, TornInv
    <2>4. \A u \in Threads : op'[u].pc = "encode" => index'[u].ids = <<>>
      BY <1>1 DEF GoesOn, TornInv
    <2> QED BY <2>1, <2>2, <2>3, <2>4 DEF TornInv, Ready, Ahead, Merged
  <1>2. ASSUME t # Indexer PROVE TornInv'
    <2>1. op'[Indexer] = op[Indexer] /\ Pc' = Pc /\ UNCHANGED <<payloadsFile, mappingFile>>
      BY <1>2 DEF GoesOn, Pc
    <2>2. \A u \in Threads \ {Indexer} : op'[u].pc \in Shared /\ op'[u].batch = <<>>
                                        /\ ~op'[u].merged
      BY <1>2 DEF GoesOn, TornInv, Shared
    <2>3. \A u \in Threads : op'[u].pc = "encode" => index'[u].ids = <<>>
      BY <1>2 DEF GoesOn, TornInv
    <2> QED BY <2>1, <2>2, <2>3 DEF TornInv
  <1> QED BY <1>1, <1>2

LEMMA LoadPayloadsKeeps == ASSUME FaissInv, NEW t \in Threads, F!LoadPayloads(t) PROVE FaissInv'
  <1>1. /\ FaissTyped /\ TornInv /\ OrderInv /\ StoredInv /\ Indexer \in Threads
        /\ op \in [Threads -> StoreCalls] /\ op[t].pc = "payloads"
        /\ payloads \in [Threads -> Seq(Ids)] /\ payloadsFile \in StoreFiles
        /\ UNCHANGED <<index, ordered, payloadsFile, mappingFile, indexFile, split, acked>>
    BY ServicesAssumption
       DEF FaissInv, FaissTyped, F!LoadPayloads, F!At, F!storage
  <1>2. CASE F!Fail(t) /\ payloads' = payloads
    BY <1>1, <1>2, ReadsSame, CallEnds DEF F!Fail, Pc
  <1>3. CASE /\ payloadsFile # F!Torn /\ F!Goto(t, "mapping")
             /\ payloads' = [payloads EXCEPT ![t] = payloadsFile.ids]
    <2>1. /\ op'[t].pc = "mapping" /\ op'[t].batch = op[t].batch
          /\ op'[t].merged = op[t].merged /\ op'[t].buffer = op[t].buffer
          /\ op' \in [Threads -> StoreCalls] /\ \A u \in Threads \ {t} : op'[u] = op[u]
      BY <1>1, <1>3 DEF StoreCalls, StoreLabels, F!Goto
    <2>2. payloadsFile.kind # "torn" /\ payloadsFile.ids \in Seq(Ids)
      BY <1>1, <1>3 DEF StoreFiles, F!Torn
    <2>3. /\ payloads' \in [Threads -> Seq(Ids)] /\ payloads'[t] = payloadsFile.ids
          /\ \A u \in Threads \ {t} : payloads'[u] = payloads[u]
      BY <1>1, <1>3, <2>2
    <2>4. FaissTyped'
      BY <1>1, <2>1, <2>3 DEF FaissTyped
    <2>5. Published' = Published /\ Pc' = op'[Indexer].pc /\ Pc = op[Indexer].pc
          /\ Published = payloadsFile.ids
      BY <1>1, <2>2 DEF Published, Pc
    <2>6. TornInv'
      <3>1. GoesOn(t)
        BY <1>1, <2>1, <2>2 DEF GoesOn
      <3> QED BY <1>1, <3>1, ReadKeepsTorn
    <2>7. Begins(Published, Published)
      BY PublishedTyped, <1>1 DEF Begins
    <2>8. ASSUME ~split PROVE CopiesInv' /\ IndexerInv'
      BY <1>1, <2>1, <2>3, <2>5, <2>7, <2>8 DEF CopiesInv, OrderInv, IndexerInv, Ahead, Ready
    <2>9. Due' = Due
      <3>1. op'[Indexer].merged = op[Indexer].merged /\ op'[Indexer].batch = op[Indexer].batch
        BY <1>1, <2>1
      <3>2. acked' = acked
        BY <1>1
      <3> QED BY <3>1, <3>2 DEF Due
    <2>10. /\ StoredInv /\ Has(payloadsFile.ids, acked)
           /\ UNCHANGED <<payloadsFile, mappingFile, ordered, acked>>
      BY <1>1, <2>2 DEF StoredInv
    <2>11. ASSUME t = Indexer PROVE StoredInv'
      <3>1. Pc' = "mapping" /\ payloads'[Indexer] = payloadsFile.ids
        BY <2>1, <2>3, <2>5, <2>11
      <3>2. payloads'[Indexer] = payloadsFile.ids /\ Pc' \notin Ready \cup Ahead
            /\ Pc' \notin {"persisting", "mapping_out", "rebuild", "encode", "write", "writing"}
        BY <3>1 DEF Ready, Ahead
      <3> QED BY <2>10, <3>2 DEF StoredInv, Ready
    <2>12. ASSUME t # Indexer PROVE StoredInv'
      <3>1. Pc' = Pc /\ payloads'[Indexer] = payloads[Indexer]
            /\ op'[Indexer].buffer = op[Indexer].buffer
        BY <1>1, <2>1, <2>3, <2>5, <2>12
      <3> QED BY <2>9, <2>10, <3>1 DEF StoredInv
    <2>13. StoredInv'
      BY <2>11, <2>12
    <2> QED BY <1>1, <2>4, <2>6, <2>8, <2>13 DEF FaissInv, OrderInv
  <1> QED BY <1>2, <1>3 DEF F!LoadPayloads

LEMMA LoadMappingKeeps == ASSUME FaissInv, NEW t \in Threads, F!LoadMapping(t) PROVE FaissInv'
  <1>1. /\ FaissTyped /\ TornInv /\ OrderInv /\ StoredInv /\ Indexer \in Threads
        /\ op \in [Threads -> StoreCalls] /\ op[t].pc = "mapping"
        /\ payloads \in [Threads -> Seq(Ids)] /\ mappingFile \in StoreFiles
        /\ ordered \in [Threads -> Seq(Ids)] /\ payloads[t] \in Seq(Ids)
        /\ UNCHANGED <<index, payloads, payloadsFile, mappingFile, indexFile, split, acked>>
    BY ServicesAssumption
       DEF FaissInv, FaissTyped, F!LoadMapping, F!At, F!storage
  <1>2. CASE F!Fail(t) /\ ordered' = ordered
    BY <1>1, <1>2, ReadsSame, CallEnds DEF F!Fail, Pc
  <1> DEFINE read == IF mappingFile = F!Missing THEN payloads[t]
                     ELSE F!Known(mappingFile.ids, payloads[t])
  <1>3. CASE /\ mappingFile # F!Torn /\ F!Goto(t, "index")
             /\ ordered' = [ordered EXCEPT ![t] = read]
    <2>1. /\ op'[t].pc = "index" /\ op'[t].batch = op[t].batch
          /\ op'[t].merged = op[t].merged /\ op'[t].buffer = op[t].buffer
          /\ op' \in [Threads -> StoreCalls] /\ \A u \in Threads \ {t} : op'[u] = op[u]
      BY <1>1, <1>3 DEF StoreCalls, StoreLabels, F!Goto
    <2>2. /\ mappingFile.kind # "torn" /\ mappingFile.ids \in Seq(Ids)
          /\ mappingFile = F!Missing => mappingFile.ids = <<>>
      BY <1>1, <1>3 DEF StoreFiles, F!Torn, F!Missing
    <2>3. read \in Seq(Ids)
      BY <1>1, <2>2, KnownTyped
    <2>4. ASSUME ~split
          PROVE  Begins(read, Published) /\ (t = Indexer => read = Published)
      <3>1. Published \in Seq(Ids) /\ OneEach(Published) /\ Begins(mappingFile.ids, Published)
        BY <1>1, <2>4, PublishedTyped DEF OrderInv, CopiesInv
      <3>2. t = Indexer => payloads[t] = Published /\ mappingFile.ids = Published
        BY <1>1, <2>2, <2>4 DEF OrderInv, IndexerInv, Pc
      <3>3. Begins(Published, Published)
        BY <3>1 DEF Begins
      <3>4. Begins(payloads[t], Published)
        BY <1>1, <2>4, <3>2, <3>3 DEF OrderInv, CopiesInv
      <3> QED BY <1>1, <2>2, <3>1, <3>2, <3>4, KnownBegins
    <2>5. t = Indexer => Has(read, acked)
      BY <1>1, <2>2, KnownHas DEF StoredInv, Pc
    <2> HIDE DEF read
    <2>6. /\ ordered' \in [Threads -> Seq(Ids)] /\ ordered'[t] = read
          /\ \A u \in Threads \ {t} : ordered'[u] = ordered[u]
      BY <1>1, <1>3, <2>3
    <2>7. FaissTyped'
      BY <1>1, <2>1, <2>6 DEF FaissTyped
    <2>8. Published' = Published /\ Pc' = op'[Indexer].pc /\ Pc = op[Indexer].pc
      BY <1>1 DEF Published, Pc
    <2>9. TornInv'
      <3>1. GoesOn(t)
        BY <1>1, <2>1, <2>2 DEF GoesOn
      <3> QED BY <1>1, <3>1, ReadKeepsTorn
    <2>10. ASSUME ~split PROVE CopiesInv' /\ IndexerInv'
      BY <1>1, <2>1, <2>4, <2>6, <2>8, <2>10 DEF CopiesInv, OrderInv, IndexerInv, Ahead, Ready
    <2>11. Due' = Due /\ (t = Indexer => Due = acked)
      <3>1. Due' = Due
        <4>1. op'[Indexer].merged = op[Indexer].merged /\ op'[Indexer].batch = op[Indexer].batch
          BY <1>1, <2>1
        <4>2. acked' = acked
          BY <1>1
        <4> QED BY <4>1, <4>2 DEF Due
      <3>2. t = Indexer => ~op[Indexer].merged
        BY <1>1 DEF TornInv, Merged, Pc
      <3> QED BY <3>1, <3>2 DEF Due
    <2>12. t = Indexer => payloadsFile.kind # "torn"
      BY <1>1 DEF TornInv, Pc
    <2>13. StoredInv'
      BY <1>1, <2>1, <2>2, <2>5, <2>6, <2>8, <2>11, <2>12 DEF StoredInv, Ahead, Ready
    <2> QED BY <1>1, <2>7, <2>9, <2>10, <2>13 DEF FaissInv, OrderInv
  <1> QED BY <1>2, <1>3 DEF F!LoadMapping

LEMMA MergeKeeps == ASSUME FaissInv, NEW t \in Threads, F!Merge(t) PROVE FaissInv'
  <1>1. /\ FaissTyped /\ TornInv /\ OrderInv /\ StoredInv /\ Indexer \in Threads
        /\ op \in [Threads -> StoreCalls] /\ op[t].pc = "merge"
        /\ payloads \in [Threads -> Seq(Ids)] /\ ordered \in [Threads -> Seq(Ids)]
        /\ UNCHANGED <<index, payloadsFile, mappingFile, indexFile, split, acked>>
        /\ payloads' = [payloads EXCEPT ![t] = F!AppendNew(payloads[t], op[t].batch)]
        /\ ordered' = [ordered EXCEPT ![t] = F!AppendNew(ordered[t], op[t].batch)]
        /\ op' = [op EXCEPT ![t].pc = "persist", ![t].merged = TRUE]
    BY ServicesAssumption DEF FaissInv, FaissTyped, F!Merge, F!At, F!storage
  <1>2. t = Indexer
    BY <1>1 DEF TornInv, Shared
  <1>3. op[t].batch \in Seq(Ids) /\ OneEach(op[t].batch) /\ ~op[t].merged
    BY <1>1, <1>2 DEF TornInv, StoreCalls, Merged, Pc
  <1>4. /\ op'[t].pc = "persist" /\ op'[t].batch = op[t].batch /\ op'[t].merged
        /\ op'[t].buffer = op[t].buffer
        /\ op' \in [Threads -> StoreCalls] /\ \A u \in Threads \ {t} : op'[u] = op[u]
    BY <1>1 DEF StoreCalls, StoreLabels
  <1>5. ASSUME NEW s \in Seq(Ids)
        PROVE  /\ F!AppendNew(s, op[t].batch) \in Seq(Ids)
               /\ Begins(s, F!AppendNew(s, op[t].batch))
               /\ OneEach(s) => OneEach(F!AppendNew(s, op[t].batch))
               /\ Has(s, Due) => Has(F!AppendNew(s, op[t].batch), Due')
    <2>1. Due' = Due \cup {i \in Ids : \E n \in DOMAIN op[t].batch : op[t].batch[n] = i}
      BY <1>1, <1>2, <1>3, <1>4 DEF Due
    <2>2. /\ F!AppendNew(s, op[t].batch) \in Seq(Ids)
          /\ Begins(s, F!AppendNew(s, op[t].batch))
          /\ OneEach(s) => OneEach(F!AppendNew(s, op[t].batch))
      BY <1>3, MergeAppends
    <2>3. \A i : (\E n \in DOMAIN s : s[n] = i) \/ (\E n \in DOMAIN op[t].batch : op[t].batch[n] = i)
             => \E n \in DOMAIN F!AppendNew(s, op[t].batch) : F!AppendNew(s, op[t].batch)[n] = i
      BY <1>3, MergeAppends
    <2>4. Has(s, Due) => Has(F!AppendNew(s, op[t].batch), Due')
      BY <2>1, <2>3 DEF Has
    <2> QED BY <2>2, <2>4
  <1>6. /\ payloads' \in [Threads -> Seq(Ids)] /\ ordered' \in [Threads -> Seq(Ids)]
        /\ payloads'[t] = F!AppendNew(payloads[t], op[t].batch)
        /\ ordered'[t] = F!AppendNew(ordered[t], op[t].batch)
        /\ \A u \in Threads \ {t} : payloads'[u] = payloads[u] /\ ordered'[u] = ordered[u]
    BY <1>1, <1>5
  <1>7. FaissTyped'
    BY <1>1, <1>4, <1>6 DEF FaissTyped
  <1>8. Published' = Published /\ Pc' = "persist" /\ Pc = "merge"
    BY <1>1, <1>2, <1>4 DEF Published, Pc
  <1>9. TornInv'
    BY <1>1, <1>2, <1>3, <1>4, <1>8 DEF TornInv, Ready, Ahead, Shared, Merged
  <1>10. ASSUME ~split PROVE CopiesInv' /\ IndexerInv'
    <2>1. payloads[t] = Published /\ ordered[t] = Published /\ OneEach(Published)
      BY <1>1, <1>2, <1>8, <1>10 DEF OrderInv, CopiesInv, IndexerInv, Ready
    <2>2. CopiesInv'
      BY <1>1, <1>2, <1>4, <1>6, <1>8, <1>10 DEF OrderInv, CopiesInv, Ahead
    <2>3. IndexerInv'
      BY <1>1, <1>2, <1>5, <1>6, <1>8, <1>10, <2>1 DEF OrderInv, IndexerInv, Ahead, Ready
    <2> QED BY <2>2, <2>3
  <1>11. StoredInv'
    BY <1>1, <1>2, <1>5, <1>6, <1>8 DEF StoredInv, Ready, Ahead
  <1> QED BY <1>1, <1>7, <1>9, <1>10, <1>11 DEF FaissInv, OrderInv

\* From here payloads.json cannot be read, and readers have the order of mapping.json.
LEMMA TruncatePayloadsKeeps ==
  ASSUME FaissInv, NEW t \in Threads, F!TruncatePayloads(t) PROVE FaissInv'
  <1>1. /\ FaissTyped /\ TornInv /\ OrderInv /\ StoredInv /\ Indexer \in Threads
        /\ op \in [Threads -> StoreCalls] /\ op[t].pc = "persist"
        /\ payloads[t] \in Seq(Ids) /\ payloadsFile' = F!Torn
        /\ UNCHANGED <<index, payloads, ordered, mappingFile, indexFile, split, acked>>
        /\ op' = [op EXCEPT ![t].pc = "persisting", ![t].buffer = payloads[t]]
    BY ServicesAssumption DEF FaissInv, FaissTyped, F!TruncatePayloads, F!At, F!memory
  <1>2. t = Indexer
    BY <1>1 DEF TornInv, Shared
  <1>3. /\ op'[t].pc = "persisting" /\ op'[t].batch = op[t].batch
        /\ op'[t].merged = op[t].merged /\ op'[t].buffer = payloads[t]
        /\ op' \in [Threads -> StoreCalls] /\ \A u \in Threads \ {t} : op'[u] = op[u]
    BY <1>1 DEF StoreCalls, StoreLabels
  <1>4. F!Torn.kind = "torn" /\ F!Torn \in StoreFiles
    BY DEF F!Torn, StoreFiles
  <1>5. FaissTyped'
    BY <1>1, <1>3, <1>4 DEF FaissTyped
  <1>6. Pc' = "persisting" /\ Pc = "persist" /\ mappingFile.kind # "torn"
    BY <1>1, <1>2, <1>3 DEF Pc, TornInv, Ready, Ahead
  <1>7. payloadsFile.kind # "torn" /\ Published = payloadsFile.ids /\ Published' = mappingFile.ids
    BY <1>1, <1>4, <1>6 DEF TornInv, Published
  <1>8. TornInv'
    BY <1>1, <1>2, <1>3, <1>6 DEF TornInv, Ready, Ahead, Shared, Merged
  <1>9. ASSUME ~split PROVE CopiesInv' /\ IndexerInv'
    <2>1. Published' = Published
      BY <1>1, <1>6, <1>7, <1>9 DEF OrderInv, IndexerInv
    <2> QED BY <1>1, <1>2, <1>3, <1>6, <1>9, <2>1 DEF OrderInv, CopiesInv, IndexerInv, Ahead, Ready
  <1>10. Due' = Due
    BY <1>1, <1>2, <1>3 DEF Due
  <1>11. StoredInv'
    BY <1>1, <1>2, <1>3, <1>4, <1>6, <1>10 DEF StoredInv, Ahead, Ready
  <1> QED BY <1>1, <1>5, <1>8, <1>9, <1>11 DEF FaissInv, OrderInv

\* The order grows.
LEMMA WritePayloadsKeeps ==
  ASSUME FaissInv, NEW t \in Threads, F!WritePayloads(t) PROVE FaissInv'
  <1>1. /\ FaissTyped /\ TornInv /\ OrderInv /\ StoredInv /\ Indexer \in Threads
        /\ op \in [Threads -> StoreCalls] /\ op[t].pc = "persisting"
        /\ payloadsFile' = F!Content(op[t].buffer) /\ op[t].buffer \in Seq(Ids)
        /\ UNCHANGED <<index, payloads, ordered, mappingFile, indexFile, split, acked>>
        /\ op' = [op EXCEPT ![t].pc = "map"]
    BY ServicesAssumption
       DEF FaissInv, FaissTyped, F!WritePayloads, F!At, F!memory, F!Goto, StoreCalls
  <1>2. t = Indexer
    BY <1>1 DEF TornInv, Shared
  <1>3. /\ op'[t].pc = "map" /\ op'[t].batch = op[t].batch
        /\ op'[t].merged = op[t].merged /\ op'[t].buffer = op[t].buffer
        /\ op' \in [Threads -> StoreCalls] /\ \A u \in Threads \ {t} : op'[u] = op[u]
    BY <1>1 DEF StoreCalls, StoreLabels
  <1>4. /\ F!Content(op[t].buffer).kind = "content" /\ F!Content(op[t].buffer) \in StoreFiles
        /\ F!Content(op[t].buffer).ids = op[t].buffer
    BY <1>1 DEF F!Content, StoreFiles
  <1>5. FaissTyped'
    BY <1>1, <1>3, <1>4 DEF FaissTyped
  <1>6. Pc' = "map" /\ Pc = "persisting" /\ mappingFile.kind # "torn"
    BY <1>1, <1>2, <1>3 DEF Pc, TornInv, Ready, Ahead
  <1>7. Published' = op[t].buffer
    BY <1>1, <1>4 DEF Published
  <1>8. TornInv'
    BY <1>1, <1>2, <1>3, <1>4, <1>6 DEF TornInv, Ready, Ahead, Shared, Merged
  <1>9. ASSUME ~split PROVE CopiesInv' /\ IndexerInv'
    <2>1. /\ op[t].buffer = payloads[t] /\ ordered[t] = payloads[t]
          /\ OneEach(payloads[t]) /\ Begins(Published, payloads[t])
      BY <1>1, <1>2, <1>6, <1>9 DEF OrderInv, IndexerInv, Ahead
    <2>2. /\ Published \in Seq(Ids) /\ Published' \in Seq(Ids)
          /\ Begins(Published, Published') /\ Begins(Published', Published')
      BY <1>1, <1>7, <2>1, PublishedTyped DEF Begins
    <2>3. ASSUME NEW s \in Seq(Ids), Begins(s, Published) PROVE Begins(s, Published')
      <3>1. Published \in Seq(Ids) /\ Published' \in Seq(Ids)
        BY <2>2
      <3> DEFINE old == Published
                 grown == Published'
      <3>2. old \in Seq(Ids) /\ grown \in Seq(Ids) /\ Begins(s, old) /\ Begins(old, grown)
        BY <2>2, <2>3
      <3> HIDE DEF old, grown
      <3>3. Begins(s, grown)
        BY <3>2 DEF Begins
      <3> QED BY <3>3 DEF grown
    <2>4. /\ mappingFile.ids \in Seq(Ids) /\ indexFile.ids \in Seq(Ids)
          /\ \A u \in Threads : /\ index[u].ids \in Seq(Ids) /\ payloads[u] \in Seq(Ids)
                                /\ ordered[u] \in Seq(Ids) /\ op[u].buffer \in Seq(Ids)
      BY <1>1 DEF FaissTyped, StoreFiles, StoreCalls
    <2>5. Begins(mappingFile.ids, Published') /\ Begins(indexFile.ids, Published')
      BY <1>1, <1>9, <2>3, <2>4 DEF OrderInv, CopiesInv
    <2>6. \A u \in Threads : Begins(index[u].ids, Published')
      BY <1>1, <1>9, <2>3, <2>4 DEF OrderInv, CopiesInv
    <2>7. \A u \in Threads \ {Indexer} :
            Begins(ordered[u], Published') /\ Begins(payloads[u], Published')
            /\ Begins(op[u].buffer, Published')
      BY <1>1, <1>9, <2>3, <2>4 DEF OrderInv, CopiesInv
    <2>8. CopiesInv'
      BY <1>1, <1>2, <1>3, <1>6, <1>7, <2>1, <2>2, <2>5, <2>6, <2>7 DEF CopiesInv
    <2>9. IndexerInv'
      BY <1>1, <1>2, <1>6, <1>7, <2>1 DEF IndexerInv, Ready, Ahead
    <2> QED BY <2>8, <2>9
  <1>10. Due' = Due
    BY <1>1, <1>2, <1>3 DEF Due
  <1>11. acked \subseteq Due
    BY <1>1 DEF Due, FaissTyped
  <1>12. StoredInv'
    BY <1>1, <1>2, <1>3, <1>4, <1>6, <1>10, <1>11 DEF StoredInv, Ahead, Ready, Has
  <1> QED BY <1>1, <1>5, <1>8, <1>9, <1>12 DEF FaissInv, OrderInv

LEMMA TruncateMappingKeeps ==
  ASSUME FaissInv, NEW t \in Threads, F!TruncateMapping(t) PROVE FaissInv'
  <1>1. /\ FaissTyped /\ TornInv /\ OrderInv /\ StoredInv /\ Indexer \in Threads
        /\ op \in [Threads -> StoreCalls] /\ op[t].pc = "map"
        /\ ordered[t] \in Seq(Ids) /\ mappingFile' = F!Torn
        /\ UNCHANGED <<index, payloads, ordered, payloadsFile, indexFile, split, acked>>
        /\ op' = [op EXCEPT ![t].pc = "mapping_out", ![t].buffer = ordered[t]]
    BY ServicesAssumption DEF FaissInv, FaissTyped, F!TruncateMapping, F!At, F!memory
  <1>2. t = Indexer
    BY <1>1 DEF TornInv, Shared
  <1>3. /\ op'[t].pc = "mapping_out" /\ op'[t].batch = op[t].batch
        /\ op'[t].merged = op[t].merged /\ op'[t].buffer = ordered[t]
        /\ op' \in [Threads -> StoreCalls] /\ \A u \in Threads \ {t} : op'[u] = op[u]
    BY <1>1 DEF StoreCalls, StoreLabels
  <1>4. F!Torn.kind = "torn" /\ F!Torn \in StoreFiles /\ F!Torn.ids = <<>>
    BY DEF F!Torn, StoreFiles
  <1>5. FaissTyped'
    BY <1>1, <1>3, <1>4 DEF FaissTyped
  <1>6. Pc' = "mapping_out" /\ Pc = "map"
    BY <1>1, <1>2, <1>3 DEF Pc
  <1>7. payloadsFile.kind # "torn" /\ Published' = Published
    BY <1>1, <1>6 DEF TornInv, Published
  <1>8. TornInv'
    BY <1>1, <1>2, <1>3, <1>4, <1>6, <1>7 DEF TornInv, Ready, Ahead, Shared, Merged
  <1>9. ASSUME ~split PROVE CopiesInv' /\ IndexerInv'
    <2>1. Begins(<<>>, Published)
      BY <1>1, PublishedTyped DEF Begins
    <2> QED BY <1>1, <1>2, <1>3, <1>4, <1>6, <1>7, <1>9, <2>1
            DEF OrderInv, CopiesInv, IndexerInv, Ahead, Ready
  <1>10. Due' = Due
    BY <1>1, <1>2, <1>3 DEF Due
  <1>11. StoredInv'
    BY <1>1, <1>2, <1>3, <1>4, <1>6, <1>10 DEF StoredInv, Ahead, Ready
  <1> QED BY <1>1, <1>5, <1>8, <1>9, <1>11 DEF FaissInv, OrderInv

LEMMA WriteMappingKeeps ==
  ASSUME FaissInv, NEW t \in Threads, F!WriteMapping(t) PROVE FaissInv'
  <1>1. /\ FaissTyped /\ TornInv /\ OrderInv /\ StoredInv /\ Indexer \in Threads
        /\ op \in [Threads -> StoreCalls] /\ op[t].pc = "mapping_out"
        /\ mappingFile' = F!Content(op[t].buffer) /\ op[t].buffer \in Seq(Ids)
        /\ UNCHANGED <<index, payloads, ordered, payloadsFile, indexFile, split, acked>>
        /\ op' = [op EXCEPT ![t].pc = "rebuild"]
    BY ServicesAssumption
       DEF FaissInv, FaissTyped, F!WriteMapping, F!At, F!memory, F!Goto, StoreCalls
  <1>2. t = Indexer
    BY <1>1 DEF TornInv, Shared
  <1>3. /\ op'[t].pc = "rebuild" /\ op'[t].batch = op[t].batch
        /\ op'[t].merged = op[t].merged /\ op'[t].buffer = op[t].buffer
        /\ op' \in [Threads -> StoreCalls] /\ \A u \in Threads \ {t} : op'[u] = op[u]
    BY <1>1 DEF StoreCalls, StoreLabels
  <1>4. /\ F!Content(op[t].buffer).kind = "content" /\ F!Content(op[t].buffer) \in StoreFiles
        /\ F!Content(op[t].buffer).ids = op[t].buffer
    BY <1>1 DEF F!Content, StoreFiles
  <1>5. FaissTyped'
    BY <1>1, <1>3, <1>4 DEF FaissTyped
  <1>6. Pc' = "rebuild" /\ Pc = "mapping_out"
    BY <1>1, <1>2, <1>3 DEF Pc
  <1>7. payloadsFile.kind # "torn" /\ Published' = Published
    BY <1>1, <1>6 DEF TornInv, Published
  <1>8. TornInv'
    BY <1>1, <1>2, <1>3, <1>4, <1>6, <1>7 DEF TornInv, Ready, Ahead, Shared, Merged
  <1>9. ASSUME ~split PROVE CopiesInv' /\ IndexerInv'
    <2>1. Begins(Published, Published)
      BY <1>1, PublishedTyped DEF Begins
    <2>2. op[t].buffer = Published
      BY <1>1, <1>2, <1>6, <1>9 DEF OrderInv, IndexerInv
    <2> QED BY <1>1, <1>2, <1>3, <1>4, <1>6, <1>7, <1>9, <2>1, <2>2
            DEF OrderInv, CopiesInv, IndexerInv, Ahead, Ready
  <1>10. Due' = Due
    BY <1>1, <1>2, <1>3 DEF Due
  <1>11. acked \subseteq Due
    BY <1>1 DEF Due, FaissTyped
  <1>12. StoredInv'
    BY <1>1, <1>2, <1>3, <1>4, <1>6, <1>10, <1>11 DEF StoredInv, Ahead, Ready, Has
  <1> QED BY <1>1, <1>5, <1>8, <1>9, <1>12 DEF FaissInv, OrderInv

\* A crash takes the memory of a process; what its indexer had not written is gone.
LEMMA FaissCrashKeeps == ASSUME FaissInv, NEW p \in Threads, F!Crash(p) PROVE FaissInv'
  <1>1. /\ FaissTyped /\ TornInv /\ OrderInv /\ StoredInv /\ Indexer \in Threads
        /\ op \in [Threads -> StoreCalls]
        /\ payloads \in [Threads -> Seq(Ids)] /\ ordered \in [Threads -> Seq(Ids)]
        /\ index \in [Threads -> StoreFiles]
        /\ UNCHANGED <<payloadsFile, mappingFile, indexFile, acked>>
        /\ payloads' = [payloads EXCEPT ![p] = <<>>]
        /\ ordered' = [ordered EXCEPT ![p] = <<>>]
        /\ index' = [index EXCEPT ![p] = F!Missing]
    BY ServicesAssumption DEF FaissInv, FaissTyped, F!Crash, F!storage
  <1>2. /\ op' = [t \in Threads |-> IF t = p THEN F!Idle ELSE op[t]]
        /\ split' = (split \/ op[p].pc = "map")
    BY DEF F!Crash, F!At
  <1>3. /\ op'[p].pc = "idle" /\ op'[p].batch = <<>> /\ ~op'[p].merged /\ op'[p].buffer = <<>>
        /\ op' \in [Threads -> StoreCalls] /\ \A u \in Threads \ {p} : op'[u] = op[u]
    BY <1>1, <1>2 DEF StoreCalls, StoreLabels, F!Idle
  <1>4. F!Missing \in StoreFiles /\ F!Missing.ids = <<>>
    BY DEF F!Missing, StoreFiles
  <1>5. /\ payloads' \in [Threads -> Seq(Ids)] /\ ordered' \in [Threads -> Seq(Ids)]
        /\ index' \in [Threads -> StoreFiles]
        /\ payloads'[p] = <<>> /\ ordered'[p] = <<>> /\ index'[p].ids = <<>>
        /\ \A u \in Threads \ {p} : /\ payloads'[u] = payloads[u] /\ ordered'[u] = ordered[u]
                                    /\ index'[u] = index[u]
    BY <1>1, <1>4
  <1>6. split' \in BOOLEAN
    BY <1>1, <1>2 DEF FaissTyped
  <1>7. FaissTyped'
    BY <1>1, <1>3, <1>5, <1>6 DEF FaissTyped
  <1>8. Published' = Published /\ Pc' = op'[Indexer].pc /\ Pc = op[Indexer].pc
    BY <1>1 DEF Published, Pc
  <1>9. OneEach(<<>>)
    BY DEF OneEach
  <1>10. TornInv'
    <2>1. "idle" \notin Ready \cup Ahead \cup Merged /\ "idle" \in Shared
      BY DEF Ready, Ahead, Shared, Merged
    <2>2. CASE p = Indexer
      BY <1>1, <1>3, <1>5, <1>8, <1>9, <2>1, <2>2 DEF TornInv
    <2>3. CASE p # Indexer
      <3>1. op'[Indexer] = op[Indexer] /\ Pc' = Pc
        BY <1>1, <1>3, <1>8, <2>3
      <3>2. \A t \in Threads \ {Indexer} :
              op'[t].pc \in Shared /\ op'[t].batch = <<>> /\ ~op'[t].merged
        BY <1>1, <1>3, <2>1 DEF TornInv
      <3>3. \A t \in Threads : op'[t].pc = "encode" => index'[t].ids = <<>>
        BY <1>1, <1>3, <1>5 DEF TornInv
      <3> QED BY <1>1, <3>1, <3>2, <3>3 DEF TornInv
    <2> QED BY <2>2, <2>3
  <1>11. ASSUME ~split' PROVE CopiesInv' /\ IndexerInv'
    <2>1. ~split /\ op[p].pc # "map"
      BY <1>2, <1>11
    <2>2. Begins(<<>>, Published)
      BY <1>1, PublishedTyped DEF Begins
    <2>3. CopiesInv'
      BY <1>1, <1>3, <1>5, <1>8, <2>1, <2>2 DEF OrderInv, CopiesInv, Ahead
    <2>4. CASE p # Indexer
      <3>1. IndexerInv'
        BY <1>1, <1>3, <1>5, <1>8, <2>1, <2>4 DEF OrderInv, IndexerInv
      <3> QED BY <2>3, <3>1
    <2>5. CASE p = Indexer
      <3>1. Pc = "mapping_out" => mappingFile.kind = "torn"
        BY <1>1 DEF TornInv
      <3>2. IndexerInv'
        BY <1>1, <1>3, <1>8, <2>1, <2>5, <3>1 DEF OrderInv, IndexerInv, Ready, Ahead
      <3> QED BY <2>3, <3>2
    <2> QED BY <2>4, <2>5
  <1>12. StoredInv'
    <2>1. CASE p # Indexer
      <3>1. Due' = Due
        BY <1>1, <1>3, <2>1 DEF Due
      <3> QED BY <1>1, <1>3, <1>5, <1>8, <2>1, <3>1 DEF StoredInv
    <2>2. CASE p = Indexer
      BY <1>1, <1>3, <1>8, <2>2 DEF StoredInv, Ready, Ahead
    <2> QED BY <2>1, <2>2
  <1> QED BY <1>7, <1>10, <1>11, <1>12 DEF FaissInv, OrderInv

-----------------------------------------------------------------------------
LEMMA FaissStep == ASSUME FaissInv, F!Next PROVE FaissInv'
  <1>1. CASE \E p \in Threads : F!Crash(p)
    BY <1>1, FaissCrashKeeps
  <1>2. ASSUME NEW t \in Threads, F!ThreadStep(t) PROVE FaissInv'
    BY <1>2, StartUpsertKeeps, StartSearchKeeps, LoadPayloadsKeeps, LoadMappingKeeps,
       EnsureIndexLoadedKeeps, MergeKeeps, TruncatePayloadsKeeps, WritePayloadsKeeps,
       TruncateMappingKeeps, WriteMappingKeeps, RebuildEmptyKeeps, EncodeAndAddKeeps,
       EncodeFailsKeeps, TruncateIndexKeeps, WriteIndexKeeps, SearchKeeps
    DEF F!ThreadStep
  <1> QED BY <1>1, <1>2 DEF F!Next

LEMMA HitsHold == FaissInv => F!HitsAreOfTheirVectors
  <1> SUFFICES ASSUME FaissInv, ~split, NEW t \in Threads, op[t].pc = "search",
                      NEW n \in F!Hits(t)
               PROVE  ordered[t][n] = index[t].ids[n]
    BY DEF F!HitsAreOfTheirVectors, F!At
  <1>1. /\ ordered[t] \in Seq(Ids) /\ index[t].ids \in Seq(Ids)
        /\ Begins(index[t].ids, Published) /\ Begins(ordered[t], Published)
    BY DEF FaissInv, FaissTyped, StoreFiles, OrderInv, CopiesInv, Pc, Ahead
  <1>2. n \in DOMAIN index[t].ids /\ n <= Len(ordered[t])
    BY DEF F!Hits
  <1>3. n \in DOMAIN ordered[t]
    BY <1>1, <1>2
  <1> QED BY <1>1, <1>2, <1>3 DEF Begins

LEMMA AcknowledgedHold == FaissInv => F!AcknowledgedIsStored
  <1> SUFFICES ASSUME FaissInv, NEW i \in acked, NEW f \in {payloadsFile, mappingFile},
                      f # F!Torn
               PROVE  i \in F!Range(f.ids)
    BY DEF F!AcknowledgedIsStored
  <1>1. f.kind # "torn"
    BY DEF FaissInv, FaissTyped, StoreFiles, F!Torn
  <1> QED BY <1>1 DEF FaissInv, StoredInv, Has, F!Range

LEMMA FaissInvariant == Spec => [](scene = "faiss" => FaissInv)
  <1> DEFINE Here == scene = "faiss" => FaissInv
  <1>1. Init => Here
    BY FaissInitInv DEF Init
  <1>2. Here /\ [Next]_vars => Here'
    <2> SUFFICES ASSUME Here, [Next]_vars, scene' = "faiss" PROVE FaissInv'
      OBVIOUS
    <2>1. CASE Apart("faiss") /\ F!Next
      BY <2>1, FaissStep DEF Apart
    <2>2. CASE UNCHANGED <<scene, faissVars>>
      BY <2>2 DEF faissVars, FaissInv, FaissTyped, TornInv, OrderInv, CopiesInv, IndexerInv,
                  StoredInv, Due, Pc, Published
    <2> QED BY <2>1, <2>2 DEF Next, vars, Apart
  <1> QED BY <1>1, <1>2, PTL DEF Spec

\* Any number of processes search while one indexes, each with the index it read first and a
\* mapping it reads anew, and the JSON files are overwritten under them: whatever position
\* the index finds, the mapping has the chunk of that vector there, unless a crash came
\* between the two files (app/retriever/faiss.py).
THEOREM HitsStayOfTheirVectors == Spec => []HitsAreOfTheirVectors
  <1>1. (scene = "faiss" => FaissInv) => HitsAreOfTheirVectors
    BY HitsHold DEF HitsAreOfTheirVectors
  <1> QED BY <1>1, FaissInvariant, PTL

\* Whatever errors and crashes come between the accesses to the files: a chunk whose upsert
\* returned has its payload and its position in every file that can be read
\* (app/retriever/faiss.py).
THEOREM AcknowledgedChunksStay == Spec => []AcknowledgedIsStored
  <1>1. (scene = "faiss" => FaissInv) => AcknowledgedIsStored
    BY AcknowledgedHold DEF AcknowledgedIsStored
  <1> QED BY <1>1, FaissInvariant, PTL

-----------------------------------------------------------------------------
(* DatasetRuns: what is on disk is not asked again.                         *)

DataRows == [unit : Nat, source : Nat, answer : Nat, whole : BOOLEAN, ended : BOOLEAN]

DatasetTyped ==
  /\ dataFile \in Seq(DataRows) /\ dataRuns \in [started : Nat, answers : Nat]
  /\ dataRun \in [on : BOOLEAN, todo : Seq(Seq(Nat)), rows : Seq(DataRows)]

\* The whole rows of the file are of units of the input, and one answer each.
FileInv ==
  /\ \A n \in DOMAIN dataFile : dataFile[n].whole =>
       dataFile[n].unit \in DOMAIN D!Items /\ dataFile[n].source = D!Items[dataFile[n].unit]
  /\ \A m, n \in DOMAIN dataFile :
       dataFile[m].whole /\ dataFile[n].whole /\ dataFile[m].unit = dataFile[n].unit
       => dataFile[m].answer = dataFile[n].answer

\* The units to do differ, and neither the file nor the rows in hand have one of them.
TodoInv ==
  \A k \in DOMAIN dataRun.todo :
    /\ dataRun.todo[k] # <<>> /\ dataRun.todo[k][1] \in DOMAIN D!Items
    /\ \A j \in DOMAIN dataRun.todo : dataRun.todo[j][1] = dataRun.todo[k][1] => j = k
    /\ \A n \in DOMAIN dataFile : dataFile[n].whole => dataFile[n].unit # dataRun.todo[k][1]
    /\ \A n \in DOMAIN dataRun.rows : dataRun.rows[n].unit # dataRun.todo[k][1]

\* The rows in hand are of one answer, and so are the rows of its unit on disk.
RowsInv ==
  \A k \in DOMAIN dataRun.rows :
    /\ dataRun.rows[k].unit \in DOMAIN D!Items
    /\ dataRun.rows[k].source = D!Items[dataRun.rows[k].unit]
    /\ \A j \in DOMAIN dataRun.rows : dataRun.rows[j] = dataRun.rows[k]
    /\ \A n \in DOMAIN dataFile : dataFile[n].whole /\ dataFile[n].unit = dataRun.rows[k].unit
                                  => dataFile[n].answer = dataRun.rows[k].answer

DatasetInv == DatasetTyped /\ FileInv /\ TodoInv /\ RowsInv

LEMMA SameSelectionD == ASSUME NEW s, NEW at PROVE D!Selected(s, at) = Selected(s, at)
  BY DEF D!Selected, Selected, D!Rank, Rank, D!Cardinality, Cardinality

\* Batches of multi-hop questions begin apart.
LEMMA BatchesApart ==
  ASSUME NEW h \in Nat, h >= 2, NEW j \in Nat, NEW k \in Nat, j < k, j >= 1
  PROVE  (j - 1) * h + 1 < (k - 1) * h + 1
  <1>1. (k - 1) * h = (j - 1) * h + (k - j) * h
    OBVIOUS
  <1>2. k - j \in Nat /\ k - j >= 1
    OBVIOUS
  <1>3. (k - j) * h >= h
    BY <1>2
  <1>4. (j - 1) * h \in Int /\ (k - 1) * h \in Int /\ (k - j) * h \in Int
    OBVIOUS
  <1> QED BY <1>1, <1>3, <1>4

\* Units are made of the given positions, and no two begin with the same.
LEMMA UnitsApart ==
  ASSUME NEW positions \in Seq(Nat), OneEach(positions)
  PROVE  /\ D!Units(positions) \in Seq(Seq(Nat))
         /\ \A k \in DOMAIN D!Units(positions) :
              /\ D!Units(positions)[k] # <<>>
              /\ \E m \in DOMAIN positions : D!Units(positions)[k][1] = positions[m]
              /\ \A j \in DOMAIN D!Units(positions) :
                   D!Units(positions)[j][1] = D!Units(positions)[k][1] => j = k
  <1>1. CASE script # "hops"
    <2>1. D!Units(positions) = [k \in DOMAIN positions |-> <<positions[k]>>]
      BY <1>1 DEF D!Units
    <2>2. /\ DOMAIN positions = 1 .. Len(positions) /\ Len(positions) \in Nat
          /\ \A k \in DOMAIN positions : positions[k] \in Nat
      OBVIOUS
    <2>3. [k \in DOMAIN positions |-> <<positions[k]>>] \in Seq(Seq(Nat))
      <3>1. \A k \in 1 .. Len(positions) : <<positions[k]>> \in Seq(Nat)
        BY <2>2
      <3> QED BY <2>2, <3>1
    <2>4. \A k \in DOMAIN positions : <<positions[k]>> # <<>> /\ <<positions[k]>>[1] = positions[k]
      OBVIOUS
    <2>5. \A k \in DOMAIN positions : D!Units(positions)[k] # <<>>
                                     /\ D!Units(positions)[k][1] = positions[k]
      BY <2>1, <2>4
    <2>6. DOMAIN D!Units(positions) = DOMAIN positions
      BY <2>1
    <2>7. D!Units(positions) \in Seq(Seq(Nat))
      BY <2>1, <2>3
    <2> QED BY <2>5, <2>6, <2>7 DEF OneEach
  <1>2. CASE script = "hops"
    <2> DEFINE first(k) == (k - 1) * HopSize + 1
               last(k) == IF k * HopSize > Len(positions) THEN Len(positions) ELSE k * HopSize
               batches == [k \in DOMAIN positions |-> SubSeq(positions, first(k), last(k))]
               at == {k \in DOMAIN batches : Len(batches[k]) >= 2}
    <2>1. D!Units(positions) = Selected(batches, at)
      BY <1>2, SameSelectionD DEF D!Units
    <2>2. /\ HopSize \in Nat /\ HopSize >= 2
          /\ DOMAIN positions = 1 .. Len(positions) /\ Len(positions) \in Nat
      BY ServicesAssumption
    <2>3. ASSUME NEW k \in DOMAIN positions
          PROVE  first(k) \in Nat /\ first(k) >= 1 /\ last(k) \in Nat /\ last(k) <= Len(positions)
      <3>1. k \in Nat /\ k - 1 \in Nat
        BY <2>2
      <3>2. (k - 1) * HopSize \in Nat /\ k * HopSize \in Nat
        BY <2>2, <3>1
      <3> QED BY <2>2, <3>2
    <2>4. ASSUME NEW k \in DOMAIN positions
          PROVE  /\ SubSeq(positions, first(k), last(k)) \in Seq(Nat)
                 /\ Len(SubSeq(positions, first(k), last(k))) >= 2 =>
                      /\ first(k) \in DOMAIN positions
                      /\ SubSeq(positions, first(k), last(k)) # <<>>
                      /\ SubSeq(positions, first(k), last(k))[1] = positions[first(k)]
      <3> DEFINE m == first(k)
                 n == last(k)
      <3>1. m \in Nat /\ m >= 1 /\ n \in Nat /\ n <= Len(positions)
        BY <2>3
      <3> HIDE DEF first, last, m, n
      <3>2. SubSeq(positions, m, n) \in Seq(Nat)
        BY <2>2, <3>1
      <3>3. ASSUME Len(SubSeq(positions, m, n)) >= 2
            PROVE  /\ m \in DOMAIN positions /\ SubSeq(positions, m, n) # <<>>
                   /\ SubSeq(positions, m, n)[1] = positions[m]
        <4>1. m <= n
          BY <3>1, <3>3
        <4> QED BY <2>2, <3>1, <3>3, <4>1
      <3> QED BY <3>2, <3>3 DEF m, n
    <2>5. ASSUME NEW j \in DOMAIN positions, NEW k \in DOMAIN positions, first(j) = first(k)
          PROVE  j = k
      <3>1. j \in Nat /\ k \in Nat /\ j >= 1 /\ k >= 1
        BY <2>2
      <3>2. j < k => first(j) < first(k)
        BY <2>2, <3>1, BatchesApart
      <3>3. k < j => first(k) < first(j)
        BY <2>2, <3>1, BatchesApart
      <3>4. first(j) \in Nat /\ first(k) \in Nat
        BY <2>3
      <3> QED BY <2>5, <3>1, <3>2, <3>3, <3>4
    <2> HIDE DEF first, last
    <2>6. batches \in Seq(Seq(Nat)) /\ DOMAIN batches = DOMAIN positions
      BY <2>2, <2>4
    <2>7. \A k \in at : /\ k \in DOMAIN positions /\ first(k) \in DOMAIN positions
                        /\ batches[k] # <<>> /\ batches[k][1] = positions[first(k)]
      BY <2>4
    <2>8. at \in SUBSET DOMAIN batches
      OBVIOUS
    <2> HIDE DEF batches, at
    <2>9. /\ Selected(batches, at) \in Seq(Seq(Nat))
          /\ \A n \in DOMAIN Selected(batches, at) :
               \E i \in at : Selected(batches, at)[n] = batches[i] /\ Rank(i, at) = n
      BY <2>6, <2>8, SelectionHas
    <2>10. ASSUME NEW k \in DOMAIN Selected(batches, at)
           PROVE  /\ Selected(batches, at)[k] # <<>>
                  /\ \E m \in DOMAIN positions : Selected(batches, at)[k][1] = positions[m]
                  /\ \A j \in DOMAIN Selected(batches, at) :
                       Selected(batches, at)[j][1] = Selected(batches, at)[k][1] => j = k
      <3>1. PICK i \in at : Selected(batches, at)[k] = batches[i] /\ Rank(i, at) = k
        BY <2>9
      <3>2. ASSUME NEW j \in DOMAIN Selected(batches, at),
                   Selected(batches, at)[j][1] = Selected(batches, at)[k][1]
            PROVE  j = k
        <4>1. PICK l \in at : Selected(batches, at)[j] = batches[l] /\ Rank(l, at) = j
          BY <2>9
        <4>2. positions[first(l)] = positions[first(i)]
          BY <2>7, <3>1, <3>2, <4>1
        <4>3. first(l) = first(i)
          BY <2>7, <4>2 DEF OneEach
        <4>4. l = i
          BY <2>5, <2>7, <4>3
        <4> QED BY <3>1, <4>1, <4>4
      <3> QED BY <2>7, <3>1, <3>2
    <2> QED BY <2>1, <2>9, <2>10
  <1> QED BY <1>1, <1>2

SameAnswer(r, s) == r.unit = s.unit /\ r.source = s.source /\ r.answer = s.answer

\* A line that parses is one that did, or the new one.
LEMMA LineAppended ==
  ASSUME NEW file \in Seq(DataRows), NEW row \in DataRows
  PROVE  /\ D!AppendLine(file, row) \in Seq(DataRows)
         /\ \A n \in DOMAIN D!AppendLine(file, row) : D!AppendLine(file, row)[n].whole =>
              \/ \E k \in DOMAIN file : file[k].whole /\ D!AppendLine(file, row)[n] = file[k]
              \/ D!AppendLine(file, row)[n] = row
  <1> DEFINE new == D!AppendLine(file, row)
  <1>1. CASE file # <<>> /\ ~file[Len(file)].ended
    <2>0. Len(file) \in DOMAIN file
      BY <1>1
    <2>1. new = [file EXCEPT ![Len(file)].whole = FALSE, ![Len(file)].ended = row.ended]
      BY <1>1 DEF D!AppendLine
    <2>2. /\ new \in Seq(DataRows) /\ DOMAIN new = DOMAIN file
          /\ ~new[Len(file)].whole
          /\ \A n \in DOMAIN file : n # Len(file) => new[n] = file[n]
      <3>1. PICK last \in DataRows : last = file[Len(file)]
        BY <2>0
      <3>2. row.ended \in BOOLEAN
        BY DEF DataRows
      <3> DEFINE cut == [last EXCEPT !.whole = FALSE, !.ended = row.ended]
      <3>3. cut \in DataRows /\ ~cut.whole
        BY <3>1, <3>2 DEF DataRows
      <3>4. new = [file EXCEPT ![Len(file)] = cut]
        BY <2>0, <2>1, <3>1
      <3> HIDE DEF cut, new
      <3> QED BY <2>0, <3>3, <3>4
    <2> QED BY <2>2
  <1>2. CASE ~(file # <<>> /\ ~file[Len(file)].ended)
    <2>1. new = Append(file, row)
      BY <1>2 DEF D!AppendLine
    <2>2. /\ new \in Seq(DataRows) /\ Len(new) = Len(file) + 1 /\ Len(file) \in Nat
          /\ \A n \in 1 .. Len(file) : new[n] = file[n]
          /\ new[Len(file) + 1] = row
      BY <2>1
    <2>3. \A n \in DOMAIN new : n \in DOMAIN file \/ n = Len(file) + 1
      BY <2>2
    <2> QED BY <2>2, <2>3
  <1> QED BY <1>1, <1>2

LEMMA LinesAppended ==
  ASSUME NEW file \in Seq(DataRows), NEW rows \in Seq(DataRows)
  PROVE  /\ D!AppendLines(file, rows) \in Seq(DataRows)
         /\ \A n \in DOMAIN D!AppendLines(file, rows) : D!AppendLines(file, rows)[n].whole =>
              \/ \E k \in DOMAIN file : file[k].whole /\ D!AppendLines(file, rows)[n] = file[k]
              \/ \E k \in DOMAIN rows : D!AppendLines(file, rows)[n] = rows[k]
  <1>1. CASE rows = <<>>
    BY <1>1 DEF D!AppendLines
  <1>2. CASE rows # <<>>
    <2> DEFINE begun == D!AppendLine(file, rows[1])
               new == begun \o Tail(rows)
    <2>1. /\ D!AppendLines(file, rows) = new /\ Head(rows) = rows[1]
          /\ 1 \in DOMAIN rows /\ rows[1] \in DataRows
      BY <1>2 DEF D!AppendLines
    <2>2. /\ begun \in Seq(DataRows)
          /\ \A n \in DOMAIN begun : begun[n].whole =>
               \/ \E k \in DOMAIN file : file[k].whole /\ begun[n] = file[k]
               \/ begun[n] = rows[1]
      BY <2>1, LineAppended
    <2>3. /\ Tail(rows) \in Seq(DataRows)
          /\ \A n \in DOMAIN Tail(rows) : n + 1 \in DOMAIN rows /\ Tail(rows)[n] = rows[n + 1]
      BY <1>2
    <2> HIDE DEF begun
    <2>4. /\ new \in Seq(DataRows)
          /\ \A n \in DOMAIN new : \/ n \in DOMAIN begun /\ new[n] = begun[n]
                                   \/ n - Len(begun) \in DOMAIN Tail(rows)
                                      /\ new[n] = Tail(rows)[n - Len(begun)]
      BY <2>2, <2>3
    <2> HIDE DEF new
    <2>5. ASSUME NEW n \in DOMAIN new, new[n].whole
          PROVE  \/ \E k \in DOMAIN file : file[k].whole /\ new[n] = file[k]
                 \/ \E k \in DOMAIN rows : new[n] = rows[k]
      <3>1. CASE n \in DOMAIN begun /\ new[n] = begun[n]
        BY <2>1, <2>2, <2>5, <3>1
      <3>2. CASE n - Len(begun) \in DOMAIN Tail(rows) /\ new[n] = Tail(rows)[n - Len(begun)]
        BY <2>3, <3>2
      <3> QED BY <2>4, <3>1, <3>2
    <2> QED BY <2>1, <2>4, <2>5
  <1> QED BY <1>1, <1>2

\* A file each of whose lines was there, or is of the rows in hand.
Grown(file) ==
  /\ file \in Seq(DataRows)
  /\ \A n \in DOMAIN file : file[n].whole =>
       \/ \E k \in DOMAIN dataFile : dataFile[k].whole /\ SameAnswer(file[n], dataFile[k])
       \/ \E k \in DOMAIN dataRun.rows : SameAnswer(file[n], dataRun.rows[k])

\* It has one answer for each unit, and none of a unit to do.
LEMMA GrownIsSound ==
  ASSUME DatasetInv, NEW file, Grown(file)
  PROVE  /\ \A n \in DOMAIN file : file[n].whole =>
              file[n].unit \in DOMAIN D!Items /\ file[n].source = D!Items[file[n].unit]
         /\ \A m, n \in DOMAIN file :
              file[m].whole /\ file[n].whole /\ file[m].unit = file[n].unit
              => file[m].answer = file[n].answer
         /\ \A n \in DOMAIN file : \A k \in DOMAIN dataRun.todo :
              file[n].whole => file[n].unit # dataRun.todo[k][1]
         /\ \A n \in DOMAIN file : \A k \in DOMAIN dataRun.rows :
              file[n].whole /\ file[n].unit = dataRun.rows[k].unit
              => file[n].answer = dataRun.rows[k].answer
  <1>1. FileInv /\ TodoInv /\ RowsInv
    BY DEF DatasetInv
  <1>2. \A n \in DOMAIN file : file[n].whole =>
          file[n].unit \in DOMAIN D!Items /\ file[n].source = D!Items[file[n].unit]
    BY <1>1 DEF Grown, SameAnswer, FileInv, RowsInv
  <1>3. \A n \in DOMAIN file : \A k \in DOMAIN dataRun.todo :
          file[n].whole => file[n].unit # dataRun.todo[k][1]
    BY <1>1 DEF Grown, SameAnswer, TodoInv
  <1>4. \A n \in DOMAIN file : \A k \in DOMAIN dataRun.rows :
          file[n].whole /\ file[n].unit = dataRun.rows[k].unit
          => file[n].answer = dataRun.rows[k].answer
    BY <1>1 DEF Grown, SameAnswer, RowsInv
  <1>5. ASSUME NEW m \in DOMAIN file, NEW n \in DOMAIN file,
               file[m].whole, file[n].whole, file[m].unit = file[n].unit
        PROVE  file[m].answer = file[n].answer
    <2>1. CASE \E k \in DOMAIN dataRun.rows : SameAnswer(file[m], dataRun.rows[k])
      BY <1>4, <1>5, <2>1 DEF SameAnswer
    <2>2. CASE \E k \in DOMAIN dataRun.rows : SameAnswer(file[n], dataRun.rows[k])
      BY <1>4, <1>5, <2>2 DEF SameAnswer
    <2>3. CASE /\ \E k \in DOMAIN dataFile : dataFile[k].whole /\ SameAnswer(file[m], dataFile[k])
               /\ \E k \in DOMAIN dataFile : dataFile[k].whole /\ SameAnswer(file[n], dataFile[k])
      BY <1>1, <1>5, <2>3 DEF SameAnswer, FileInv
    <2> QED BY <1>5, <2>1, <2>2, <2>3 DEF Grown
  <1> QED BY <1>2, <1>3, <1>4, <1>5

LEMMA DataInitInv == D!DataInit => DatasetInv
  <1> SUFFICES ASSUME D!DataInit PROVE DatasetInv
    OBVIOUS
  <1>1. /\ dataFile = <<>> /\ dataRun.rows = <<>> /\ dataRun.todo = <<>> /\ dataRun.on = FALSE
        /\ dataRun = [on |-> FALSE, todo |-> <<>>, rows |-> <<>>]
        /\ dataRuns = [started |-> 0, answers |-> 0]
    BY DEF D!DataInit, D!NoRun
  <1>2. <<>> \in Seq(DataRows) /\ <<>> \in Seq(Seq(Nat))
    OBVIOUS
  <1>3. DatasetTyped
    BY <1>1, <1>2 DEF DatasetTyped
  <1> QED BY <1>1, <1>3 DEF DatasetInv, FileInv, TodoInv, RowsInv

\* The run ends, with what it wrote.
LEMMA RunEnds ==
  ASSUME DatasetInv, Grown(dataFile'), dataRun' = D!NoRun, script' = script,
         dataRuns' \in [started : Nat, answers : Nat]
  PROVE  DatasetInv'
  <1>1. /\ dataRun'.rows = <<>> /\ dataRun'.todo = <<>>
        /\ dataRun' = [on |-> FALSE, todo |-> <<>>, rows |-> <<>>]
    BY DEF D!NoRun
  <1>2. D!Items' = D!Items
    BY DEF D!Items
  <1>3. DatasetTyped'
    BY <1>1 DEF DatasetTyped, Grown
  <1>4. FileInv'
    BY <1>2, GrownIsSound DEF FileInv
  <1>5. TodoInv' /\ RowsInv'
    BY <1>1 DEF TodoInv, RowsInv
  <1> QED BY <1>3, <1>4, <1>5 DEF DatasetInv

LEMMA FileStays == ASSUME DatasetInv PROVE Grown(dataFile)
  BY DEF Grown, DatasetInv, DatasetTyped, SameAnswer

LEMMA DataStartKeeps == ASSUME DatasetInv, NEW resume \in BOOLEAN, D!Start(resume) PROVE DatasetInv'
  <1> DEFINE done == IF resume THEN D!Done(dataFile) ELSE {}
             input1 == [p \in DOMAIN D!Items |-> p]
             at == {p \in DOMAIN D!Items : D!Items[p] \notin done}
             remaining == Selected(input1, at)
             file == IF resume THEN dataFile ELSE <<>>
  <1>1. /\ DatasetTyped /\ FileInv /\ dataFile' = file /\ script' = script
        /\ dataRun' = IF remaining = <<>> THEN D!NoRun
                      ELSE [on |-> TRUE, todo |-> D!Units(remaining), rows |-> <<>>]
        /\ dataRuns' \in [started : Nat, answers : Nat]
    <2>1. DatasetTyped /\ FileInv /\ dataFile' = file /\ script' = script
      BY DEF D!Start, DatasetInv
    <2>2. dataRun' = IF remaining = <<>> THEN D!NoRun
                     ELSE [on |-> TRUE, todo |-> D!Units(remaining), rows |-> <<>>]
      BY SameSelectionD DEF D!Start
    <2>3. dataRuns' = [dataRuns EXCEPT !.started = @ + 1]
      BY DEF D!Start
    <2>4. dataRuns' \in [started : Nat, answers : Nat]
      BY <2>1, <2>3 DEF DatasetTyped
    <2> QED BY <2>1, <2>2, <2>4
  <1>2. Grown(file)
    BY FileStays DEF Grown
  <1>3. CASE remaining = <<>>
    BY <1>1, <1>2, <1>3, RunEnds
  <1>4. CASE remaining # <<>>
    <2>1. D!Items \in Seq(Nat)
      BY ServicesAssumption DEF D!Items
    <2>2. input1 \in Seq(Nat) /\ at \in SUBSET DOMAIN input1
      BY <2>1
    <2>3. remaining \in Seq(Nat)
      BY <2>2, SelectionHas
    <2>4. \A n \in DOMAIN remaining : remaining[n] \in at
      <3>1. \A n \in DOMAIN remaining : \E i \in at : remaining[n] = input1[i]
        BY <2>2, SelectionHas
      <3> QED BY <3>1
    <2>5. OneEach(remaining)
      <3>1. \A i, j \in at : input1[i] = input1[j] => i = j
        OBVIOUS
      <3> HIDE DEF input1, at
      <3> QED BY <2>2, <3>1, SelectionIsOneEach DEF OneEach
    <2> DEFINE todo == D!Units(remaining)
    <2>6. \A n \in DOMAIN file : file[n].whole => file[n].unit \notin at
      <3> SUFFICES ASSUME NEW n \in DOMAIN file, file[n].whole PROVE file[n].unit \notin at
        OBVIOUS
      <3>1. resume /\ n \in DOMAIN dataFile /\ file[n] = dataFile[n]
        OBVIOUS
      <3>2. D!Items[dataFile[n].unit] \in D!Done(dataFile)
        BY <1>1, <3>1 DEF FileInv, D!Done, D!Range
      <3> QED BY <3>1, <3>2
    <2>7. at \subseteq DOMAIN D!Items
      OBVIOUS
    <2> HIDE DEF remaining, at, file
    <2>8. /\ todo \in Seq(Seq(Nat))
          /\ \A k \in DOMAIN todo :
               /\ todo[k] # <<>>
               /\ \E m \in DOMAIN remaining : todo[k][1] = remaining[m]
               /\ \A j \in DOMAIN todo : todo[j][1] = todo[k][1] => j = k
      BY <2>3, <2>5, UnitsApart
    <2>9. /\ dataRun' = [on |-> TRUE, todo |-> todo, rows |-> <<>>]
          /\ dataRun'.todo = todo /\ dataRun'.rows = <<>>
      BY <1>1, <1>4
    <2> HIDE DEF todo
    <2>10. D!Items' = D!Items
      BY <1>1 DEF D!Items
    <2>11. DatasetTyped'
      <3>1. <<>> \in Seq(DataRows)
        OBVIOUS
      <3>2. dataRun' \in [on : BOOLEAN, todo : Seq(Seq(Nat)), rows : Seq(DataRows)]
        BY <2>8, <2>9, <3>1
      <3> QED BY <1>1, <1>2, <3>2 DEF DatasetTyped, Grown
    <2>12. FileInv'
      BY <1>1, <1>2, <2>10, GrownIsSound DEF FileInv
    <2>13. TodoInv'
      BY <1>1, <2>4, <2>6, <2>7, <2>8, <2>9, <2>10 DEF TodoInv
    <2>14. RowsInv'
      BY <2>9 DEF RowsInv
    <2> QED BY <2>11, <2>12, <2>13, <2>14 DEF DatasetInv
  <1> QED BY <1>3, <1>4

LEMMA AnswerKeeps == ASSUME DatasetInv, NEW n \in 0 .. MaxRows, D!Answer(n) PROVE DatasetInv'
  <1> DEFINE unit == Head(dataRun.todo)
             row == [unit |-> unit[1], source |-> D!Source(unit),
                     answer |-> dataRuns.answers + 1, whole |-> TRUE, ended |-> TRUE]
             rows == [k \in 1 .. n |-> row]
  <1>1. /\ DatasetTyped /\ FileInv /\ TodoInv /\ dataRun.on
        /\ dataRun.rows = <<>> /\ dataRun.todo # <<>>
        /\ dataRun.todo \in Seq(Seq(Nat))
        /\ dataRun' = [dataRun EXCEPT !.todo = Tail(dataRun.todo), !.rows = rows]
        /\ dataRuns' = [dataRuns EXCEPT !.answers = @ + 1] /\ dataFile' = dataFile
        /\ script' = script
    BY DEF D!Answer, DatasetInv, DatasetTyped
  <1>2. unit = dataRun.todo[1] /\ 1 \in DOMAIN dataRun.todo
    BY <1>1
  <1>3. unit # <<>> /\ unit \in Seq(Nat) /\ unit[1] \in DOMAIN D!Items /\ unit[1] \in Nat
    BY <1>1, <1>2 DEF TodoInv
  <1>4. D!Source(unit) = D!Items[unit[1]] /\ D!Items[unit[1]] \in Nat
    <2>1. D!Items \in Seq(Nat)
      BY ServicesAssumption DEF D!Items
    <2> QED BY <1>3, <2>1 DEF D!Source
  <1>5. row \in DataRows
    <2>1. dataRuns.answers + 1 \in Nat
      BY <1>1 DEF DatasetTyped
    <2>2. D!Source(unit) \in Nat /\ unit[1] \in Nat
      BY <1>3, <1>4
    <2> QED BY <2>1, <2>2 DEF DataRows
  <1>6. rows \in Seq(DataRows)
    BY <1>5
  <1>7. /\ dataRun'.todo = Tail(dataRun.todo) /\ dataRun'.rows = rows
        /\ Tail(dataRun.todo) \in Seq(Seq(Nat))
        /\ dataRun' \in [on : BOOLEAN, todo : Seq(Seq(Nat)), rows : Seq(DataRows)]
    <2>1. dataRun \in [on : BOOLEAN, todo : Seq(Seq(Nat)), rows : Seq(DataRows)]
      BY <1>1 DEF DatasetTyped
    <2>2. Tail(dataRun.todo) \in Seq(Seq(Nat))
      BY <1>1
    <2> HIDE DEF rows
    <2> QED BY <1>1, <1>6, <2>1, <2>2
  <1>8. \A k \in DOMAIN Tail(dataRun.todo) :
          k \in Nat /\ k + 1 \in DOMAIN dataRun.todo /\ k + 1 # 1
          /\ Tail(dataRun.todo)[k] = dataRun.todo[k + 1]
    BY <1>1
  <1>9. D!Items' = D!Items
    BY <1>1 DEF D!Items
  <1>10. DatasetTyped'
    <2>1. /\ dataRuns \in [started : Nat, answers : Nat]
          /\ dataRuns' = [dataRuns EXCEPT !.answers = @ + 1]
      BY <1>1 DEF DatasetTyped
    <2>2. dataRuns' \in [started : Nat, answers : Nat]
      BY <2>1
    <2> QED BY <1>1, <1>7, <2>2 DEF DatasetTyped
  <1>11. FileInv'
    BY <1>1, <1>9 DEF FileInv
  <1>12. \A k \in DOMAIN rows : rows[k] = row
    OBVIOUS
  <1>13. row.unit = unit[1] /\ row.source = D!Items[unit[1]]
    BY <1>4
  <1> HIDE DEF rows, row, unit
  <1>14. TodoInv'
    <2> SUFFICES ASSUME NEW k \in DOMAIN Tail(dataRun.todo)
                 PROVE  /\ Tail(dataRun.todo)[k] # <<>>
                        /\ Tail(dataRun.todo)[k][1] \in DOMAIN D!Items
                        /\ \A j \in DOMAIN Tail(dataRun.todo) :
                             Tail(dataRun.todo)[j][1] = Tail(dataRun.todo)[k][1] => j = k
                        /\ \A m \in DOMAIN dataFile : dataFile[m].whole =>
                             dataFile[m].unit # Tail(dataRun.todo)[k][1]
                        /\ \A m \in DOMAIN rows : rows[m].unit # Tail(dataRun.todo)[k][1]
      BY <1>1, <1>7, <1>9 DEF TodoInv
    <2>1. k + 1 \in DOMAIN dataRun.todo /\ Tail(dataRun.todo)[k] = dataRun.todo[k + 1]
          /\ k + 1 # 1 /\ k \in Nat
      BY <1>8
    <2>2. dataRun.todo[k + 1] # <<>> /\ dataRun.todo[k + 1][1] \in DOMAIN D!Items
      BY <1>1, <2>1 DEF TodoInv
    <2>3. ASSUME NEW j \in DOMAIN Tail(dataRun.todo),
                 Tail(dataRun.todo)[j][1] = Tail(dataRun.todo)[k][1]
          PROVE  j = k
      <3>1. j + 1 \in DOMAIN dataRun.todo /\ Tail(dataRun.todo)[j] = dataRun.todo[j + 1] /\ j \in Nat
        BY <1>8
      <3>2. j + 1 = k + 1
        BY <1>1, <2>1, <2>3, <3>1 DEF TodoInv
      <3> QED BY <2>1, <3>1, <3>2
    <2>4. \A m \in DOMAIN dataFile : dataFile[m].whole => dataFile[m].unit # dataRun.todo[k + 1][1]
      BY <1>1, <2>1 DEF TodoInv
    <2>5. dataRun.todo[1][1] # dataRun.todo[k + 1][1]
      BY <1>1, <1>2, <2>1 DEF TodoInv
    <2> QED BY <1>2, <1>12, <1>13, <2>1, <2>2, <2>3, <2>4, <2>5
  <1>15. RowsInv'
    <2>1. \A m \in DOMAIN dataFile : dataFile[m].whole => dataFile[m].unit # unit[1]
      BY <1>1, <1>2 DEF TodoInv
    <2> QED BY <1>1, <1>3, <1>7, <1>9, <1>12, <1>13, <2>1 DEF RowsInv
  <1> QED BY <1>10, <1>11, <1>14, <1>15 DEF DatasetInv

LEMMA AnswerFailsKeeps == ASSUME DatasetInv, D!AnswerFails PROVE DatasetInv'
  <1>1. /\ DatasetTyped /\ FileInv /\ TodoInv /\ dataRun.rows = <<>> /\ dataRun.todo # <<>>
        /\ dataRun.todo \in Seq(Seq(Nat)) /\ UNCHANGED <<script, dataFile, dataRuns>>
    BY DEF D!AnswerFails, DatasetInv, DatasetTyped
  <1>2. CASE dataRun' = [dataRun EXCEPT !.todo = Tail(dataRun.todo)]
    <2>1. /\ dataRun'.todo = Tail(dataRun.todo) /\ dataRun'.rows = <<>>
          /\ Tail(dataRun.todo) \in Seq(Seq(Nat))
          /\ dataRun' \in [on : BOOLEAN, todo : Seq(Seq(Nat)), rows : Seq(DataRows)]
      <3>1. dataRun \in [on : BOOLEAN, todo : Seq(Seq(Nat)), rows : Seq(DataRows)]
        BY <1>1 DEF DatasetTyped
      <3>2. Tail(dataRun.todo) \in Seq(Seq(Nat))
        BY <1>1
      <3> QED BY <1>1, <1>2, <3>1, <3>2
    <2>2. \A k \in DOMAIN Tail(dataRun.todo) :
            k \in Nat /\ k + 1 \in DOMAIN dataRun.todo
            /\ Tail(dataRun.todo)[k] = dataRun.todo[k + 1]
      BY <1>1
    <2>3. D!Items' = D!Items
      BY <1>1 DEF D!Items
    <2>4. DatasetTyped'
      BY <1>1, <2>1 DEF DatasetTyped
    <2>5. FileInv'
      BY <1>1, <2>3 DEF FileInv
    <2>6. TodoInv'
      <3> SUFFICES ASSUME NEW k \in DOMAIN Tail(dataRun.todo)
                   PROVE  /\ Tail(dataRun.todo)[k] # <<>>
                          /\ Tail(dataRun.todo)[k][1] \in DOMAIN D!Items
                          /\ \A j \in DOMAIN Tail(dataRun.todo) :
                               Tail(dataRun.todo)[j][1] = Tail(dataRun.todo)[k][1] => j = k
                          /\ \A m \in DOMAIN dataFile : dataFile[m].whole =>
                               dataFile[m].unit # Tail(dataRun.todo)[k][1]
        <4>1. \A n \in DOMAIN dataRun'.rows : FALSE
          BY <2>1
        <4>2. dataFile' = dataFile
          BY <1>1
        <4> QED BY <2>1, <2>3, <4>1, <4>2 DEF TodoInv
      <3>1. k + 1 \in DOMAIN dataRun.todo /\ Tail(dataRun.todo)[k] = dataRun.todo[k + 1] /\ k \in Nat
        BY <2>2
      <3>2. ASSUME NEW j \in DOMAIN Tail(dataRun.todo),
                   Tail(dataRun.todo)[j][1] = Tail(dataRun.todo)[k][1]
            PROVE  j = k
        <4>1. j + 1 \in DOMAIN dataRun.todo /\ Tail(dataRun.todo)[j] = dataRun.todo[j + 1] /\ j \in Nat
          BY <2>2
        <4>2. j + 1 = k + 1
          BY <1>1, <3>1, <3>2, <4>1 DEF TodoInv
        <4> QED BY <3>1, <4>1, <4>2
      <3>3. /\ dataRun.todo[k + 1] # <<>> /\ dataRun.todo[k + 1][1] \in DOMAIN D!Items
            /\ \A m \in DOMAIN dataFile : dataFile[m].whole =>
                 dataFile[m].unit # dataRun.todo[k + 1][1]
        BY <1>1, <3>1 DEF TodoInv
      <3> QED BY <3>1, <3>2, <3>3
    <2>7. RowsInv'
      BY <2>1 DEF RowsInv
    <2> QED BY <2>4, <2>5, <2>6, <2>7 DEF DatasetInv
  <1>3. CASE dataRun' = D!NoRun
    BY <1>1, <1>3, FileStays, RunEnds DEF DatasetTyped
  <1> QED BY <1>2, <1>3 DEF D!AnswerFails

\* The first rows in hand are written.
LEMMA RowsAreGrown ==
  ASSUME DatasetInv, NEW count \in Nat, count <= Len(dataRun.rows)
  PROVE  Grown(D!AppendLines(dataFile, SubSeq(dataRun.rows, 1, count)))
  <1> DEFINE rows == SubSeq(dataRun.rows, 1, count)
             file == D!AppendLines(dataFile, rows)
  <1>1. dataFile \in Seq(DataRows) /\ dataRun.rows \in Seq(DataRows)
    BY DEF DatasetInv, DatasetTyped
  <1>2. /\ rows \in Seq(DataRows)
        /\ \A k \in DOMAIN rows : k \in DOMAIN dataRun.rows /\ rows[k] = dataRun.rows[k]
    BY <1>1
  <1> HIDE DEF rows
  <1>3. /\ file \in Seq(DataRows)
        /\ \A n \in DOMAIN file : file[n].whole =>
             \/ \E k \in DOMAIN dataFile : dataFile[k].whole /\ file[n] = dataFile[k]
             \/ \E k \in DOMAIN rows : file[n] = rows[k]
    BY <1>1, <1>2, LinesAppended
  <1> HIDE DEF file
  <1>4. Grown(file)
    BY <1>2, <1>3 DEF Grown, SameAnswer
  <1> QED BY <1>4 DEF file, rows

LEMMA WriteRowsKeeps == ASSUME DatasetInv, D!WriteRows PROVE DatasetInv'
  <1> DEFINE count == IF script = "rerank" THEN Len(dataRun.rows) ELSE 1
             left == SubSeq(dataRun.rows, count + 1, Len(dataRun.rows))
  <1>1. /\ DatasetTyped /\ TodoInv /\ RowsInv /\ dataRun.rows # <<>>
        /\ dataRun.rows \in Seq(DataRows)
        /\ dataFile' = D!AppendLines(dataFile, SubSeq(dataRun.rows, 1, count))
        /\ dataRun' = [dataRun EXCEPT !.rows = left]
        /\ UNCHANGED <<script, dataRuns>>
    BY DEF D!WriteRows, DatasetInv, DatasetTyped
  <1>2. count \in Nat /\ count <= Len(dataRun.rows)
    BY <1>1
  <1> HIDE DEF count
  <1>3. Grown(dataFile')
    BY <1>1, <1>2, RowsAreGrown
  <1>4. /\ left \in Seq(DataRows)
        /\ \A k \in DOMAIN left : count + k \in DOMAIN dataRun.rows /\ left[k] = dataRun.rows[count + k]
    <2>1. count + 1 \in Nat /\ Len(dataRun.rows) \in Nat /\ count + 1 >= 1
      BY <1>1, <1>2
    <2>2. left \in Seq(DataRows)
      BY <1>1, <2>1
    <2>3. ASSUME NEW k \in DOMAIN left
          PROVE  count + k \in DOMAIN dataRun.rows /\ left[k] = dataRun.rows[count + k]
      <3>1. k \in 1 .. (Len(dataRun.rows) - count)
        BY <1>1, <1>2, <2>1
      <3> QED BY <1>1, <1>2, <2>1, <3>1
    <2> QED BY <2>2, <2>3
  <1> HIDE DEF left
  <1>5. /\ dataRun'.todo = dataRun.todo /\ dataRun'.rows = left
        /\ dataRun' \in [on : BOOLEAN, todo : Seq(Seq(Nat)), rows : Seq(DataRows)]
    BY <1>1, <1>4 DEF DatasetTyped
  <1>6. D!Items' = D!Items
    BY <1>1 DEF D!Items
  <1>7. DatasetTyped'
    BY <1>1, <1>3, <1>5 DEF DatasetTyped, Grown
  <1>8. FileInv'
    BY <1>3, <1>6, GrownIsSound DEF FileInv
  <1>9. TodoInv'
    <2>1. \A n \in DOMAIN dataFile' : \A k \in DOMAIN dataRun.todo :
            dataFile'[n].whole => dataFile'[n].unit # dataRun.todo[k][1]
      BY <1>3, GrownIsSound
    <2>2. \A k \in DOMAIN dataRun.todo : \A n \in DOMAIN left :
            left[n].unit # dataRun.todo[k][1]
      BY <1>1, <1>4 DEF TodoInv
    <2> QED BY <1>1, <1>5, <1>6, <2>1, <2>2 DEF TodoInv
  <1>10. RowsInv'
    <2>1. \A n \in DOMAIN dataFile' : \A k \in DOMAIN dataRun.rows :
            dataFile'[n].whole /\ dataFile'[n].unit = dataRun.rows[k].unit
            => dataFile'[n].answer = dataRun.rows[k].answer
      BY <1>3, GrownIsSound
    <2> QED BY <1>1, <1>4, <1>5, <1>6, <2>1 DEF RowsInv
  <1> QED BY <1>7, <1>8, <1>9, <1>10 DEF DatasetInv

\* A kill may leave part of a line, which parses when only its line end is missing.
LEMMA KillKeeps == ASSUME DatasetInv, D!Kill PROVE DatasetInv'
  <1>1. PICK kept \in 0 .. Len(dataRun.rows), cut \in {"none", "inside", "end"} :
          LET torn == [dataRun.rows[kept + 1] EXCEPT !.whole = cut = "end", !.ended = FALSE]
              whole == D!AppendLines(dataFile, SubSeq(dataRun.rows, 1, kept))
          IN  /\ cut # "none" => kept < Len(dataRun.rows)
              /\ dataFile' = IF cut = "none" THEN whole ELSE D!AppendLine(whole, torn)
    BY DEF D!Kill
  <1> DEFINE torn == [dataRun.rows[kept + 1] EXCEPT !.whole = cut = "end", !.ended = FALSE]
             whole == D!AppendLines(dataFile, SubSeq(dataRun.rows, 1, kept))
  <1>2. dataRun.rows \in Seq(DataRows) /\ Len(dataRun.rows) \in Nat
    BY DEF DatasetInv, DatasetTyped
  <1>3. kept \in Nat /\ kept <= Len(dataRun.rows)
    BY <1>2
  <1>4. Grown(whole)
    BY <1>3, RowsAreGrown
  <1>5. Grown(dataFile')
    <2>1. CASE cut = "none"
      BY <1>1, <1>4, <2>1
    <2>2. CASE cut # "none"
      <3>1. kept + 1 \in DOMAIN dataRun.rows /\ dataRun.rows[kept + 1] \in DataRows
        BY <1>1, <1>2, <1>3, <2>2
      <3>2. torn \in DataRows /\ SameAnswer(torn, dataRun.rows[kept + 1])
        BY <3>1 DEF DataRows, SameAnswer
      <3>3. dataFile' = D!AppendLine(whole, torn)
        BY <1>1, <2>2
      <3> HIDE DEF torn, whole
      <3>4. whole \in Seq(DataRows)
        BY <1>4 DEF Grown
      <3>5. /\ dataFile' \in Seq(DataRows)
            /\ \A n \in DOMAIN dataFile' : dataFile'[n].whole =>
                 \/ \E k \in DOMAIN whole : whole[k].whole /\ dataFile'[n] = whole[k]
                 \/ dataFile'[n] = torn
        BY <3>2, <3>3, <3>4, LineAppended
      <3> QED BY <1>4, <3>1, <3>2, <3>5 DEF Grown
    <2> QED BY <2>1, <2>2
  <1>6. dataRun' = D!NoRun /\ script' = script /\ dataRuns' = dataRuns
    BY DEF D!Kill
  <1>7. dataRuns' \in [started : Nat, answers : Nat]
    BY <1>6 DEF DatasetInv, DatasetTyped
  <1> QED BY <1>5, <1>6, <1>7, RunEnds

LEMMA DataFinishKeeps == ASSUME DatasetInv, D!Finish PROVE DatasetInv'
  <1>1. /\ dataRun' = D!NoRun /\ dataFile' = dataFile /\ script' = script
        /\ dataRuns' \in [started : Nat, answers : Nat]
    BY DEF D!Finish, DatasetInv, DatasetTyped
  <1> QED BY <1>1, FileStays, RunEnds

LEMMA DatasetStep == ASSUME DatasetInv, D!DataNext PROVE DatasetInv'
  BY DataStartKeeps, AnswerKeeps, AnswerFailsKeeps, WriteRowsKeeps, DataFinishKeeps, KillKeeps
     DEF D!DataNext

LEMMA OneAnswerHolds == DatasetInv => D!OneAnswerPerUnit
  BY DEF DatasetInv, FileInv, D!OneAnswerPerUnit, D!Range

\* For any corpus and seeds, batches of any size and any number of killed and resumed runs:
\* whatever rows of one unit are in the file are of one answer of the teacher
\* (scripts/generate_synthetic_qa.py, build_rerank_dataset.py, generate_rag_dataset.py).
THEOREM AnswersAreAskedOnce == Spec => []OneAnswerPerUnit
  <1> DEFINE Here == scene = "dataset" => DatasetInv
  <1>1. Init => Here
    BY DataInitInv DEF Init
  <1>2. Here /\ [Next]_vars => Here'
    <2> SUFFICES ASSUME Here, [Next]_vars, scene' = "dataset" PROVE DatasetInv'
      OBVIOUS
    <2>1. CASE Apart("dataset") /\ D!DataNext
      BY <2>1, DatasetStep DEF Apart
    <2>2. CASE UNCHANGED <<scene, datasetVars>>
      BY <2>2 DEF datasetVars, DatasetInv, DatasetTyped, FileInv, TodoInv, RowsInv, D!Items
    <2> QED BY <2>1, <2>2 DEF Next, vars, Apart
  <1>3. Here => OneAnswerPerUnit
    BY OneAnswerHolds DEF OneAnswerPerUnit
  <1> QED BY <1>1, <1>2, <1>3, PTL DEF Spec
=============================================================================
