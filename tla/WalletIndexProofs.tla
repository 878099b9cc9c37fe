------------------------- MODULE WalletIndexProofs -------------------------
(***************************************************************************)
(* Proofs about the chain index, for any number of analyses, whatever      *)
(* indexer commands run beside them, and for any number of contracts and   *)
(* faults.                                                                 *)
(***************************************************************************)
EXTENDS WalletIndex, FiniteSetTheorems, TLAPS

USE WalletIndexAssumption

-----------------------------------------------------------------------------
(* A loop over a set of contracts comes to one of them next: a nonempty    *)
(* set of numbers has a smallest one, since of its initial segments one is *)
(* minimal.                                                                *)
LEMMA FirstIsMember ==
  ASSUME NEW S, S \subseteq Contract, S # {}
  PROVE  First(S) \in S
<1> DEFINE Segment(c) == {d \in S : d <= c}
           Segments == {Segment(c) : c \in S}
           Smaller == StrictSubsetOrdering(Contract)
<1>1. IsFiniteSet(Contract)
  BY FS_Interval DEF Contract
<1>2. IsWellFoundedOn(Smaller, SUBSET Contract)
  BY <1>1, FS_StrictSubsetOrderingWellFounded, FS_FiniteSubsetsOfFinite
<1>3. Segments \subseteq SUBSET Contract /\ Segments # {}
  <2>1. \A c \in S : Segment(c) \in SUBSET Contract /\ Segment(c) \in Segments
    OBVIOUS
  <2>2. Segments \subseteq SUBSET Contract
    BY <2>1, Zenon
  <2>3. QED
    BY <2>1, <2>2
<1>4. PICK T \in Segments : \A U \in Segments : ~ (<<U, T>> \in Smaller)
  <2> HIDE DEF Segments, Smaller
  <2> QED BY <1>2, <1>3, WFMin
<1>5. PICK c \in S : T = Segment(c)
  OBVIOUS
<1>6. \A d \in S : c <= d
  <2> SUFFICES ASSUME NEW d \in S, d < c PROVE FALSE
    BY DEF Contract
  <2>1. \A e \in S : e \in Int
    BY DEF Contract
  <2>2. c \in Segment(c) /\ c \notin Segment(d)
    BY <2>1
  <2>3. Segment(d) \subseteq Segment(c)
    BY <2>1
  <2>4. <<Segment(d), T>> \in Smaller
    BY <1>5, <2>2, <2>3 DEF StrictSubsetOrdering
  <2>5. Segment(d) \in Segments
    OBVIOUS
  <2>6. QED
    BY <1>4, <2>4, <2>5
<1>7. QED
  BY <1>6 DEF First

(* More rows never make a smaller number of rows.                          *)
LEMMA RowsCount ==
  ASSUME NEW S, NEW T, S \subseteq T, T \subseteq Contract
  PROVE  /\ Cardinality(S) \in 0 .. MaxContracts /\ Cardinality(T) \in 0 .. MaxContracts
         /\ Cardinality(S) <= Cardinality(T)
<1>1. IsFiniteSet(Contract) /\ Cardinality(Contract) = MaxContracts
  BY FS_Interval DEF Contract
<1>2. IsFiniteSet(T) /\ Cardinality(T) <= MaxContracts
  BY <1>1, FS_Subset
<1>3. IsFiniteSet(S) /\ Cardinality(S) <= Cardinality(T)
  BY <1>2, FS_Subset
<1>4. Cardinality(S) \in Nat /\ Cardinality(T) \in Nat
  BY <1>2, <1>3, FS_CardinalityType
<1>5. QED
  BY <1>2, <1>3, <1>4

-----------------------------------------------------------------------------
(* Types.                                                                  *)
LEMMA InitType == Init => TypeOK
  BY DEF Init, TypeOK, WorldType, IndexType, AnalysisType, IndexerType, DocumentType,
         NotStarted, Resting, AnalysisState, IndexerState, Looping, Contract, Deployed,
         Unmarked

LEMMA LooksVerifiedFact ==
  ASSUME NEW c, NEW flag, LooksVerified(c, flag)
  PROVE  flag => c \in published
  BY Zenon DEF LooksVerified

(* The state of one analysis.                                              *)
AnalysisLocal(t) ==
  /\ t \in AnalysisState
  /\ t.list \subseteq Deployed /\ t.todo \subseteq t.list
  /\ t.pc \in Looping <=> t.todo # {}
  /\ t.pc \in {"checks", "mark"} => t.list # {}

LEMMA AnalysisMoves ==
  ASSUME TypeOK, NEW a \in Analysis, AnalysisStep(a)
  PROVE  \E t : AnalysisLocal(t) /\ Goto(a, t)
<1> USE DEF TypeOK, AnalysisType, AnalysisState, AnalysisLocal, Looping
<1>0. analysis[a].todo # {} => First(analysis[a].todo) \in analysis[a].todo
  BY FirstIsMember
<1>d. Deployed \subseteq Contract
  BY DEF WorldType, Deployed, Contract
<1>t. analysis[a] \in AnalysisState /\ AnalysisLocal(analysis[a])
  OBVIOUS
<1>1. CASE ReadMarker(a)
  BY <1>1 DEF ReadMarker, IndexType
<1>2. CASE ReadRows(a)
  <2>1. rows \subseteq Deployed /\ rows \subseteq Contract
    BY <1>d DEF IndexType
  <2>2. analysis[a].todo = {}
    BY <1>2 DEF ReadRows
  <2>3. CASE Goto(a, [analysis[a] EXCEPT !.pc = "fetch"])
    BY <2>2, <2>3
  <2>4. ASSUME NEW pc \in {"save", "checks"}, pc = "checks" => rows # {},
               Goto(a, [analysis[a] EXCEPT !.pc = pc,
                          !.source = "indexed", !.list = rows])
        PROVE  \E t : AnalysisLocal(t) /\ Goto(a, t)
    <3> DEFINE t == [analysis[a] EXCEPT !.pc = pc,
                       !.source = "indexed", !.list = rows]
    <3>1. t \in AnalysisState
      BY <2>1
    <3>2. t.pc = pc /\ t.list = rows /\ t.todo = {}
      BY <2>2
    <3>3. AnalysisLocal(t)
      <4> HIDE DEF t
      <4> QED BY <2>1, <2>4, <3>1, <3>2
    <3>4. QED
      BY <2>4, <3>3
  <2>5. QED
    <3>1. CASE rows = {}
      BY <1>2, <2>3, <2>4, <3>1 DEF ReadRows
    <3>2. CASE rows # {}
      BY <1>2, <2>3, <2>4, <3>2 DEF ReadRows
    <3>3. QED
      BY <3>1, <3>2
<1>3. CASE ReadChecks(a)
  <2>1. analysis[a].todo = {} /\ analysis[a].list # {}
    BY <1>3 DEF ReadChecks
  <2>2. CASE \E S \in SUBSET analysis[a].list :
               Goto(a, [analysis[a] EXCEPT !.pc = "save", !.verified = S])
    <3>1. PICK S \in SUBSET analysis[a].list :
                 Goto(a, [analysis[a] EXCEPT !.pc = "save", !.verified = S])
      BY <2>2
    <3> DEFINE new == [analysis[a] EXCEPT !.pc = "save", !.verified = S]
    <3>2. S \subseteq Contract
      BY <1>d
    <3>3. new \in AnalysisState
      BY <1>t, <3>2
    <3>4. new.pc = "save" /\ new.list = analysis[a].list /\ new.todo = {}
      BY <1>t, <2>1
    <3>5. AnalysisLocal(new)
      <4> HIDE DEF new
      <4> QED BY <1>t, <3>3, <3>4
    <3>6. QED
      BY <3>1, <3>5
  <2>3. CASE Goto(a, [analysis[a] EXCEPT !.pc = "lookup", !.todo = analysis[a].list])
    BY <2>1, <2>3
  <2>4. CASE Goto(a, [analysis[a] EXCEPT !.pc = "fetch",
                        !.source = "live", !.list = {}])
    <3> DEFINE new == [analysis[a] EXCEPT !.pc = "fetch", !.source = "live", !.list = {}]
    <3>1. new \in AnalysisState
      BY <1>t
    <3>2. new.pc = "fetch" /\ new.list = {} /\ new.todo = {}
      BY <1>t, <2>1
    <3>3. AnalysisLocal(new)
      <4> HIDE DEF new
      <4> QED BY <3>1, <3>2
    <3>4. QED
      BY <2>4, <3>3
  <2>5. QED
    BY <1>3, <2>2, <2>3, <2>4 DEF ReadChecks
<1>4. CASE Fetch(a)
  <2>2. PICK list \in SUBSET Deployed :
          Goto(a, [analysis[a] EXCEPT
              !.pc = IF list = {} THEN "save" ELSE "lookup",
              !.list = list, !.todo = list])
    BY <1>4 DEF Fetch
  <2>3. AnalysisLocal([analysis[a] EXCEPT
              !.pc = IF list = {} THEN "save" ELSE "lookup",
              !.list = list, !.todo = list])
    BY <1>d
  <2>4. QED
    BY <2>2, <2>3
<1>5. CASE LookUp(a)
  BY <1>0, <1>5 DEF LookUp
<1>6. CASE UpsertDeployment(a)
  BY <1>0, <1>6 DEF UpsertDeployment
<1>7. CASE MarkIndexed(a)
  BY <1>7 DEF MarkIndexed
<1>8. CASE UpsertVerification(a)
  BY <1>0, <1>8 DEF UpsertVerification
<1>9. CASE SaveResult(a)
  BY <1>9 DEF SaveResult
<1>10. QED
  BY <1>1, <1>2, <1>3, <1>4, <1>5, <1>6, <1>7, <1>8, <1>9 DEF AnalysisStep

(* The state of one indexer command.                                       *)
IndexerLocal(t) ==
  /\ t \in IndexerState
  /\ t.list \union t.todo \subseteq Deployed
  /\ t.pc \in Looping => t.todo # {}
  /\ t.pc = "lookup" => t.list # {}

LEMMA RestingLocal == IndexerLocal(Resting)
  BY DEF IndexerLocal, IndexerState, Resting, Looping

LEMMA IndexerMoves ==
  ASSUME TypeOK, NEW x \in Indexer, IndexerStep(x) \/ Start(x)
  PROVE  \E t : IndexerLocal(t) /\ Move(x, t)
<1> USE DEF TypeOK, IndexerType, IndexerState, IndexerLocal, Looping
<1>0. indexer[x].todo # {} => First(indexer[x].todo) \in indexer[x].todo
  <2>1. Deployed \subseteq Contract
    BY DEF WorldType, Deployed, Contract
  <2>2. QED
    BY <2>1, FirstIsMember
<1>d. Deployed \subseteq Contract
  BY DEF WorldType, Deployed, Contract
<1>1. CASE Begin(x)
  BY <1>1 DEF Begin
<1>2. CASE Refresh(x)
  <2>1. CASE Move(x, Resting)
    BY <2>1, RestingLocal
  <2>2. CASE \E list \in SUBSET Deployed :
               Move(x, [indexer[x] EXCEPT !.list = list, !.todo = list,
                  !.pc = IF list = {} THEN "mark" ELSE "lookup"])
    BY <1>d, <2>2
  <2>3. QED
    BY <1>2, <2>1, <2>2 DEF Refresh
<1>3. CASE CheckSource(x)
  <2>1. CASE Move(x, Resting)
    BY <2>1, RestingLocal
  <2>2. indexer[x].pc = "lookup" /\ First(indexer[x].todo) \in indexer[x].todo
    BY <1>0, <1>3 DEF CheckSource
  <2>3. CASE \E flag \in BOOLEAN : Move(x, [indexer[x] EXCEPT
                  !.verified = IF flag THEN @ \union {First(indexer[x].todo)} ELSE @,
                  !.todo = indexer[x].list, !.pc = "saveRow"])
    BY <1>d, <2>2, <2>3
  <2>4. CASE /\ indexer[x].todo \ {First(indexer[x].todo)} # {}
             /\ \E flag \in BOOLEAN : Move(x, [indexer[x] EXCEPT
                  !.verified = IF flag THEN @ \union {First(indexer[x].todo)} ELSE @,
                  !.todo = indexer[x].todo \ {First(indexer[x].todo)}, !.pc = "lookup"])
    BY <1>d, <2>2, <2>4
  <2>5. QED
    BY <1>3, <2>1, <2>3, <2>4 DEF CheckSource
<1>4. CASE BackfillRow(x)
  BY <1>4, RestingLocal DEF BackfillRow
<1>5. CASE BackfillCheck(x)
  BY <1>0, <1>5, RestingLocal DEF BackfillCheck
<1>6. CASE BackfillMark(x)
  BY <1>6, RestingLocal DEF BackfillMark
<1>7. CASE ListStale(x)
  <2>1. PICK stale \in SUBSET {c \in Contract : checked[c] # "unknown"} :
          stale # {} /\ Move(x, [indexer[x] EXCEPT !.pc = "recheck", !.todo = stale])
    BY <1>7 DEF ListStale
  <2>2. stale \in SUBSET Contract /\ stale \subseteq Deployed
    BY <2>1 DEF IndexType
  <2>3. IndexerLocal([indexer[x] EXCEPT !.pc = "recheck", !.todo = stale])
    BY <2>1, <2>2
  <2>4. QED
    BY <2>1, <2>3
<1>8. CASE Recheck(x)
  BY <1>0, <1>8, RestingLocal DEF Recheck
<1>9. CASE UpdateVerification(x)
  BY <1>0, <1>9, RestingLocal DEF UpdateVerification
<1>10. CASE Start(x)
  BY <1>10, RestingLocal DEF Start
<1>11. QED
  BY <1>1, <1>2, <1>3, <1>4, <1>5, <1>6, <1>7, <1>8, <1>9, <1>10 DEF IndexerStep

-----------------------------------------------------------------------------
(* The inductive invariant: what each process has done and learned so far. *)

(* An analysis in its loop over the rows has saved those before the next;  *)
(* one that goes by the index saw no marker greater than what it lists.    *)
AnalysisSound(t) ==
  /\ t.verified \subseteq published
  /\ t.pc = "saveRow" => t.list \ t.todo \subseteq rows
  /\ t.pc = "mark" => t.list \subseteq rows
  /\ t.pc \in {"idle", "rows", "fetch"} => t.source = "live"
  /\ t.pc = "rows" => t.seen <= Cardinality(rows)
  /\ t.source = "indexed" => t.seen <= Cardinality(t.list)

IndexerSound(t) ==
  /\ t.verified \subseteq published
  /\ t.pc = "saveRow" => t.list \ t.todo \subseteq rows
  /\ t.pc = "saveCheck" => t.list \ (t.todo \ {First(t.todo)}) \subseteq rows
  /\ t.pc = "mark" => t.list \subseteq rows

(* A count under way is for what its analysis found when it was done.      *)
JobsAreAnswers ==
  \A j \in jobs : analysis[j.of].pc = "done" /\ j.contracts = analysis[j.of].verified

ChecksSound == \A c \in Contract : checked[c] = "yes" => c \in published

CountsSound ==
  /\ \A j \in jobs : j.contracts \subseteq published
  /\ \A d \in results : UNION d.interactors \subseteq published

IndexInv ==
  /\ TypeOK /\ CountBacked /\ ChecksSound /\ CountsSound
  /\ \A a \in Analysis : AnalysisSound(analysis[a])
  /\ \A x \in Indexer : IndexerSound(indexer[x])
  /\ ResultsAreAnswers /\ JobsAreAnswers

LEMMA InitInv == Init => IndexInv
<1> SUFFICES ASSUME Init PROVE IndexInv
  OBVIOUS
<1>1. TypeOK
  BY InitType
<1>2. Cardinality(rows) = 0
  BY FS_EmptySet DEF Init
<1>3. QED
  BY <1>1, <1>2 DEF Init, IndexInv, CountBacked, ChecksSound, CountsSound,
     AnalysisSound, IndexerSound, ResultsAreAnswers, JobsAreAnswers, NotStarted, Resting, Unmarked

(* All that any process does to the index.                                 *)
IndexStep ==
  \/ UNCHANGED index
  \/ \E c \in Deployed : SaveRow(c)
  \/ \E c \in Deployed, v \in {"yes", "no"} :
       /\ v = "yes" => c \in published
       /\ checked' = [checked EXCEPT ![c] = v]
       /\ UNCHANGED <<rows, marker>>
  \/ \E S \in SUBSET rows : SaveMarker(Cardinality(S))

LEMMA IndexKept ==
  ASSUME TypeOK, CountBacked, ChecksSound, IndexStep, UNCHANGED chain
  PROVE  /\ IndexType' /\ CountBacked' /\ ChecksSound'
         /\ rows \subseteq rows' /\ Cardinality(rows) <= Cardinality(rows')
<1>1. Deployed \subseteq Contract /\ rows \subseteq Contract /\ rows \subseteq Deployed
  BY DEF TypeOK, WorldType, IndexType, Deployed, Contract
<1>2. rows' \subseteq Contract /\ rows \subseteq rows' /\ rows' \subseteq Deployed
  BY <1>1 DEF IndexStep, index, SaveRow, SaveMarker
<1>3. /\ Cardinality(rows) \in 0 .. MaxContracts /\ Cardinality(rows') \in 0 .. MaxContracts
      /\ Cardinality(rows) <= Cardinality(rows')
  BY <1>2, RowsCount
<1>4. Deployed' = Deployed /\ published' = published
  BY DEF chain, Deployed
<1>5. \A S \in SUBSET rows : Cardinality(S) \in 0 .. MaxContracts /\ Cardinality(S) <= Cardinality(rows)
  BY <1>1, RowsCount
<1>6. CASE UNCHANGED index
  BY <1>2, <1>3, <1>4, <1>6 DEF index, TypeOK, IndexType, CountBacked, ChecksSound
<1>7. CASE \E c \in Deployed : SaveRow(c)
  BY <1>2, <1>3, <1>4, <1>7 DEF SaveRow, TypeOK, IndexType, CountBacked, ChecksSound, Unmarked
<1>8. CASE \E c \in Deployed, v \in {"yes", "no"} :
             /\ v = "yes" => c \in published
             /\ checked' = [checked EXCEPT ![c] = v]
             /\ UNCHANGED <<rows, marker>>
  BY <1>1, <1>2, <1>3, <1>4, <1>8 DEF TypeOK, IndexType, CountBacked, ChecksSound
<1>9. CASE \E S \in SUBSET rows : SaveMarker(Cardinality(S))
  BY <1>2, <1>3, <1>4, <1>5, <1>9 DEF SaveMarker, TypeOK, IndexType, CountBacked, ChecksSound
<1>10. QED
  BY <1>2, <1>3, <1>6, <1>7, <1>8, <1>9 DEF IndexStep

(* One step of an analysis, and what it leaves its analysis with.          *)
LEMMA AnalysisStepSound ==
  ASSUME IndexInv, NEW a \in Analysis, AnalysisStep(a)
  PROVE  /\ IndexStep /\ UNCHANGED <<chain, indexer>>
         /\ AnalysisSound(analysis[a])'
<1> DEFINE t == analysis[a]
           c == First(t.todo)
<1>0. AnalysisSound(t) /\ t.list \subseteq Contract
  BY DEF IndexInv, TypeOK, AnalysisType, AnalysisState
<1>c. /\ t.pc \in {"lookup", "saveRow", "saveCheck"} => c \in t.todo /\ c \in Deployed
      /\ t.pc = "mark" => t.list \subseteq rows
  BY FirstIsMember DEF IndexInv, TypeOK, AnalysisType, AnalysisState, AnalysisSound, Looping
<1>t. /\ t \in AnalysisState
      /\ \A u : Goto(a, u) => analysis'[a] = u
  BY DEF Goto, IndexInv, TypeOK, AnalysisType
<1> HIDE DEF t
<1> USE DEF AnalysisState, AnalysisSound, chain
<1>1. CASE ReadMarker(a)
  <2>1. IndexStep /\ UNCHANGED <<chain, indexer>>
    BY <1>1 DEF ReadMarker, IndexStep
  <2>2. AnalysisSound(analysis[a])'
    <3>1. marker # Unmarked => marker <= Cardinality(rows)
      BY DEF IndexInv, CountBacked
    <3>2. QED
      BY <1>0, <1>t, <1>1, <3>1 DEF ReadMarker, index, t
  <2>3. QED
    BY <2>1, <2>2
<1>2. CASE ReadRows(a)
  <2>1. IndexStep /\ UNCHANGED <<chain, indexer>>
    BY <1>2 DEF ReadRows, IndexStep
  <2>2. AnalysisSound(analysis[a])'
    <3>1. CASE Fails /\ Goto(a, [t EXCEPT !.pc = "fetch"])
      <4>1. analysis'[a] = [t EXCEPT !.pc = "fetch"] /\ UNCHANGED <<index, chain>>
        BY <1>t, <1>2, <3>1 DEF ReadRows
      <4>2. t.pc = "rows"
        BY <1>2 DEF ReadRows, t
      <4>3. QED
        BY <1>0, <1>t, <4>1, <4>2 DEF index
    <3>2. CASE Goto(a, [t EXCEPT !.pc = IF rows = {} THEN "save" ELSE "checks",
                                 !.source = "indexed", !.list = rows])
      <4>1. /\ analysis'[a] = [t EXCEPT !.pc = IF rows = {} THEN "save" ELSE "checks",
                                        !.source = "indexed", !.list = rows]
            /\ UNCHANGED <<index, chain>>
        BY <1>t, <1>2, <3>2 DEF ReadRows
      <4>2. t.pc = "rows"
        BY <1>2 DEF ReadRows, t
      <4>3. QED
        BY <1>0, <1>t, <4>1, <4>2 DEF index
    <3>3. QED
      BY <1>2, <3>1, <3>2 DEF ReadRows, t
  <2>3. QED
    BY <2>1, <2>2
<1>3. CASE ReadChecks(a)
  <2>1. IndexStep /\ UNCHANGED <<chain, indexer>>
    BY <1>3 DEF ReadChecks, IndexStep
  <2>2. AnalysisSound(analysis[a])'
    <3>1. {d \in t.list : checked[d] = "yes"} \subseteq published
      BY <1>0 DEF IndexInv, ChecksSound
    <3>2. QED
      BY <1>0, <1>t, <1>3, <3>1 DEF ReadChecks, index, t
  <2>3. QED
    BY <2>1, <2>2
<1>4. CASE Fetch(a)
  <2>1. IndexStep /\ UNCHANGED <<chain, indexer>>
    BY <1>4 DEF Fetch, IndexStep
  <2>2. AnalysisSound(analysis[a])'
    BY <1>0, <1>t, <1>4 DEF Fetch, index, t
  <2>3. QED
    BY <2>1, <2>2
<1>5. CASE LookUp(a)
  <2>1. IndexStep /\ UNCHANGED <<chain, indexer>>
    BY <1>5 DEF LookUp, IndexStep
  <2>2. AnalysisSound(analysis[a])'
    <3>1. PICK flag \in BOOLEAN :
            /\ LooksVerified(c, flag)
            /\ Goto(a, [t EXCEPT
                  !.verified = IF flag THEN @ \union {c} ELSE @,
                  !.todo = IF t.todo \ {c} = {} THEN t.list ELSE t.todo \ {c},
                  !.pc = IF t.todo \ {c} # {} THEN "lookup"
                         ELSE IF t.source = "live" THEN "saveRow"
                         ELSE "saveCheck"])
      BY <1>5 DEF LookUp, t
    <3>2. PICK v : /\ v \subseteq published
                   /\ v = IF flag THEN t.verified \union {c} ELSE t.verified
      BY <1>0, <3>1, LooksVerifiedFact
    <3>3. CASE t.todo \ {c} = {}
      <4>1. PICK pc \in {"saveRow", "saveCheck"} :
              Goto(a, [t EXCEPT !.verified = v, !.todo = t.list, !.pc = pc])
        BY <3>1, <3>2, <3>3
      <4>2. CASE pc = "saveRow"
        <5>1. analysis'[a].todo = t.list /\ analysis'[a].list = t.list
          BY <1>t, <4>1
        <5>2. analysis'[a].list \ analysis'[a].todo \subseteq rows'
          BY <5>1
        <5>3. QED
          BY <1>0, <1>t, <1>5, <3>2, <4>1, <4>2, <5>2 DEF LookUp
      <4>3. CASE pc = "saveCheck"
        BY <1>0, <1>t, <1>5, <3>2, <4>1, <4>3 DEF LookUp
      <4>4. QED
        BY <4>2, <4>3
    <3>4. CASE t.todo \ {c} # {}
      <4>1. Goto(a, [t EXCEPT !.verified = v, !.todo = t.todo \ {c}, !.pc = "lookup"])
        BY <3>1, <3>2, <3>4
      <4>2. QED
        BY <1>0, <1>t, <1>5, <3>2, <4>1 DEF LookUp
    <3>5. QED
      BY <3>3, <3>4
  <2>3. QED
    BY <2>1, <2>2
<1>6. CASE UpsertDeployment(a)
  <2>1. IndexStep /\ UNCHANGED <<chain, indexer>>
    BY <1>c, <1>6 DEF UpsertDeployment, IndexStep, t
  <2>2. AnalysisSound(analysis[a])'
    <3>1. CASE /\ SaveRow(c)
               /\ Goto(a, [t EXCEPT !.todo = t.todo \ {c},
                     !.pc = IF t.todo \ {c} = {} THEN "mark" ELSE "saveRow"])
      <4>1. t.pc = "saveRow" /\ t.list \ (t.todo \ {c}) \subseteq rows'
        BY <1>0, <1>6, <3>1 DEF UpsertDeployment, SaveRow, t
      <4>2. QED
        BY <1>0, <1>t, <1>6, <3>1, <4>1 DEF UpsertDeployment, t
    <3>2. CASE Goto(a, [t EXCEPT !.pc = "saveCheck", !.todo = t.list])
      BY <1>0, <1>t, <1>6, <3>2 DEF UpsertDeployment, t
    <3>3. QED
      BY <1>6, <3>1, <3>2 DEF UpsertDeployment, t
  <2>3. QED
    BY <2>1, <2>2
<1>7. CASE MarkIndexed(a)
  <2>1. IndexStep /\ UNCHANGED <<chain, indexer>>
    BY <1>0, <1>7 DEF MarkIndexed, IndexStep, t
  <2>2. AnalysisSound(analysis[a])'
    BY <1>0, <1>t, <1>7 DEF MarkIndexed, SaveMarker, index, t
  <2>3. QED
    BY <2>1, <2>2
<1>8. CASE UpsertVerification(a)
  <2>1. IndexStep /\ UNCHANGED <<chain, indexer>>
    <3>1. c \in Deployed /\ t.verified \subseteq published
      BY <1>0, <1>c, <1>8 DEF UpsertVerification, t
    <3>2. CASE SaveCheck(c, c \in t.verified)
      BY <1>8, <3>1, <3>2 DEF UpsertVerification, SaveCheck, IndexStep
    <3>3. QED
      BY <1>8, <3>2 DEF UpsertVerification, IndexStep, t
  <2>2. AnalysisSound(analysis[a])'
    BY <1>0, <1>t, <1>8 DEF UpsertVerification, SaveCheck, index, t
  <2>3. QED
    BY <2>1, <2>2
<1>9. CASE SaveResult(a)
  <2>1. IndexStep /\ UNCHANGED <<chain, indexer>>
    BY <1>9 DEF SaveResult, IndexStep
  <2>2. AnalysisSound(analysis[a])'
    BY <1>0, <1>t, <1>9 DEF SaveResult, index, t
  <2>3. QED
    BY <2>1, <2>2
<1>20. QED
  BY <1>1, <1>2, <1>3, <1>4, <1>5, <1>6, <1>7, <1>8, <1>9 DEF AnalysisStep

(* The same of an indexer command.                                         *)
LEMMA IndexerStepSound ==
  ASSUME IndexInv, NEW x \in Indexer, IndexerStep(x) \/ Start(x)
  PROVE  /\ IndexStep /\ UNCHANGED <<chain, analysis, results, jobs>>
         /\ IndexerSound(indexer[x])'
<1> DEFINE t == indexer[x]
           c == First(t.todo)
<1>0. IndexerSound(t) /\ t.list \subseteq Contract
  BY DEF IndexInv, TypeOK, IndexerType, IndexerState
<1>c. t.pc \in Looping => c \in t.todo /\ c \in Deployed
  BY FirstIsMember DEF IndexInv, TypeOK, IndexerType, IndexerState
<1>t. /\ t \in IndexerState
      /\ \A u : Move(x, u) => indexer'[x] = u
  BY DEF Move, IndexInv, TypeOK, IndexerType
<1>r. /\ Resting.verified = {}
      /\ Resting.pc = "idle"
  BY DEF Resting
<1> HIDE DEF t
<1> USE DEF IndexerState, IndexerSound, chain
<1>1. CASE Begin(x)
  <2>1. IndexStep /\ UNCHANGED <<chain, analysis, results, jobs>>
    BY <1>1 DEF Begin, IndexStep
  <2>2. IndexerSound(indexer[x])'
    BY <1>0, <1>t, <1>1 DEF Begin, t
  <2>3. QED
    BY <2>1, <2>2
<1>2. CASE Refresh(x)
  <2>1. IndexStep /\ UNCHANGED <<chain, analysis, results, jobs>>
    BY <1>2 DEF Refresh, IndexStep
  <2>2. IndexerSound(indexer[x])'
    BY <1>0, <1>t, <1>r, <1>2 DEF Refresh, t
  <2>3. QED
    BY <2>1, <2>2
<1>3. CASE CheckSource(x)
  <2>1. IndexStep /\ UNCHANGED <<chain, analysis, results, jobs>>
    BY <1>3 DEF CheckSource, IndexStep
  <2>2. IndexerSound(indexer[x])'
    <3>1. CASE Move(x, Resting)
      BY <1>0, <1>t, <1>r, <1>3, <3>1 DEF CheckSource
    <3>2. CASE \E flag \in BOOLEAN :
            /\ LooksVerified(c, flag)
            /\ Move(x, [t EXCEPT
                  !.verified = IF flag THEN @ \union {c} ELSE @,
                  !.todo = IF t.todo \ {c} = {} THEN t.list ELSE t.todo \ {c},
                  !.pc = IF t.todo \ {c} = {} THEN "saveRow" ELSE "lookup"])
      <4>1. PICK flag \in BOOLEAN :
            /\ LooksVerified(c, flag)
            /\ Move(x, [t EXCEPT
                  !.verified = IF flag THEN @ \union {c} ELSE @,
                  !.todo = IF t.todo \ {c} = {} THEN t.list ELSE t.todo \ {c},
                  !.pc = IF t.todo \ {c} = {} THEN "saveRow" ELSE "lookup"])
        BY <3>2
      <4>2. PICK v : /\ v \subseteq published
                     /\ v = IF flag THEN t.verified \union {c} ELSE t.verified
        BY <1>0, <4>1, LooksVerifiedFact
      <4>3. CASE t.todo \ {c} = {}
        <5>1. Move(x, [t EXCEPT !.verified = v, !.todo = t.list, !.pc = "saveRow"])
          BY <4>1, <4>2, <4>3
        <5>2. t.list \ t.list \subseteq rows'
          OBVIOUS
        <5>3. QED
          BY <1>t, <1>3, <4>2, <5>1, <5>2 DEF CheckSource
      <4>4. CASE t.todo \ {c} # {}
        <5>1. Move(x, [t EXCEPT !.verified = v, !.todo = t.todo \ {c}, !.pc = "lookup"])
          BY <4>1, <4>2, <4>4
        <5>2. QED
          BY <1>t, <1>3, <4>2, <5>1 DEF CheckSource
      <4>5. QED
        BY <4>3, <4>4
    <3>3. QED
      BY <1>3, <3>1, <3>2 DEF CheckSource, t
  <2>3. QED
    BY <2>1, <2>2
<1>4. CASE BackfillRow(x)
  <2>1. IndexStep /\ UNCHANGED <<chain, analysis, results, jobs>>
    BY <1>c, <1>4 DEF BackfillRow, IndexStep, Looping, t
  <2>2. IndexerSound(indexer[x])'
    BY <1>0, <1>t, <1>r, <1>4 DEF BackfillRow, SaveRow, t
  <2>3. QED
    BY <2>1, <2>2
<1>5. CASE BackfillCheck(x)
  <2>1. IndexStep /\ UNCHANGED <<chain, analysis, results, jobs>>
    BY <1>0, <1>c, <1>5 DEF BackfillCheck, SaveCheck, IndexStep, Looping, t
  <2>2. IndexerSound(indexer[x])'
    <3>1. CASE Move(x, Resting)
      BY <1>0, <1>t, <1>r, <1>5, <3>1 DEF BackfillCheck
    <3>2. CASE /\ rows' = rows
               /\ Move(x, [t EXCEPT !.todo = t.todo \ {c},
                     !.pc = IF t.todo \ {c} = {} THEN "mark" ELSE "saveRow"])
      <4>1. t.list \ (t.todo \ {c}) \subseteq rows'
        BY <1>0, <1>5, <3>2 DEF BackfillCheck, t
      <4>2. QED
        BY <1>0, <1>t, <1>5, <3>2, <4>1 DEF BackfillCheck
    <3>3. QED
      BY <1>5, <3>1, <3>2 DEF BackfillCheck, SaveCheck, t
  <2>3. QED
    BY <2>1, <2>2
<1>6. CASE BackfillMark(x)
  <2>1. IndexStep /\ UNCHANGED <<chain, analysis, results, jobs>>
    BY <1>0, <1>6 DEF BackfillMark, IndexStep, t
  <2>2. IndexerSound(indexer[x])'
    BY <1>0, <1>t, <1>r, <1>6 DEF BackfillMark, t
  <2>3. QED
    BY <2>1, <2>2
<1>7. CASE ListStale(x)
  <2>1. IndexStep /\ UNCHANGED <<chain, analysis, results, jobs>>
    BY <1>7 DEF ListStale, IndexStep
  <2>2. IndexerSound(indexer[x])'
    BY <1>0, <1>t, <1>7 DEF ListStale, t
  <2>3. QED
    BY <2>1, <2>2
<1>8. CASE Recheck(x)
  <2>1. IndexStep /\ UNCHANGED <<chain, analysis, results, jobs>>
    BY <1>8 DEF Recheck, IndexStep
  <2>2. IndexerSound(indexer[x])'
    <3>1. \/ \E v \in SUBSET published : Move(x, [t EXCEPT !.pc = "update", !.verified = v])
          \/ Move(x, Resting)
          \/ Move(x, [t EXCEPT !.todo = t.todo \ {c}])
      <4>1. CASE \E flag \in BOOLEAN :
                   /\ LooksVerified(c, flag)
                   /\ Move(x, [t EXCEPT !.pc = "update",
                           !.verified = IF flag THEN {c} ELSE {}])
        <5>1. PICK flag \in BOOLEAN :
                   /\ LooksVerified(c, flag)
                   /\ Move(x, [t EXCEPT !.pc = "update",
                           !.verified = IF flag THEN {c} ELSE {}])
          BY <4>1
        <5>2. (IF flag THEN {c} ELSE {}) \in SUBSET published
          BY <5>1, LooksVerifiedFact
        <5>3. QED
          BY <5>1, <5>2
      <4>2. QED
        BY <1>8, <4>1 DEF Recheck, t
    <3>2. QED
      BY <1>0, <1>t, <1>r, <1>8, <3>1 DEF Recheck, t
  <2>3. QED
    BY <2>1, <2>2
<1>9. CASE UpdateVerification(x)
  <2>1. IndexStep /\ UNCHANGED <<chain, analysis, results, jobs>>
    BY <1>0, <1>c, <1>9 DEF UpdateVerification, SaveCheck, IndexStep, Looping, t
  <2>2. IndexerSound(indexer[x])'
    BY <1>0, <1>t, <1>r, <1>9 DEF UpdateVerification, t
  <2>3. QED
    BY <2>1, <2>2
<1>10. CASE Start(x)
  <2>1. IndexStep /\ UNCHANGED <<chain, analysis, results, jobs>>
    BY <1>10 DEF Start, IndexStep, index
  <2>2. IndexerSound(indexer[x])'
    BY <1>0, <1>t, <1>r, <1>10 DEF Start, t
  <2>3. QED
    BY <2>1, <2>2
<1>11. QED
  BY <1>1, <1>2, <1>3, <1>4, <1>5, <1>6, <1>7, <1>8, <1>9, <1>10 DEF IndexerStep

-----------------------------------------------------------------------------
(* Every step keeps the invariant.                                         *)

LEMMA OneFault ==
  ASSUME WorldType, Works \/ Fails
  PROVE  faults' \in 0 .. MaxFaults
  BY DEF WorldType, Works, Fails

LEMMA FaultsBounded ==
  ASSUME TypeOK, Next
  PROVE  faults' \in 0 .. MaxFaults
<1>1. ASSUME NEW a \in Analysis, AnalysisStep(a) \/ Crash(a) PROVE Works \/ Fails
  BY <1>1 DEF AnalysisStep, Crash, ReadMarker, ReadRows, ReadChecks, Fetch, LookUp,
     LooksVerified, UpsertDeployment, MarkIndexed, UpsertVerification, SaveResult
<1>2. ASSUME NEW job \in jobs, Enrich(job) PROVE Works \/ Fails
  BY <1>2 DEF Enrich
<1>3. ASSUME NEW x \in Indexer, IndexerStep(x) \/ Start(x) PROVE Works \/ Fails
  BY <1>3 DEF IndexerStep, Start, Begin, Refresh, CheckSource, LooksVerified,
     BackfillRow, BackfillCheck, BackfillMark, ListStale, Recheck, UpdateVerification, Works
<1>4. ASSUME Deploy \/ \E c \in Contract : Publish(c) PROVE Works
  BY <1>4 DEF Deploy, Publish, Works
<1>5. QED
  BY <1>1, <1>2, <1>3, <1>4, OneFault DEF Next, TypeOK

(* An analysis step other than the last one leaves the documents alone, and *)
(* the last one writes what it answers.                                    *)
LEMMA DocumentsKept ==
  ASSUME IndexInv, NEW a \in Analysis, AnalysisStep(a)
  PROVE  DocumentType' /\ CountsSound' /\ ResultsAreAnswers' /\ JobsAreAnswers'
<1>1. /\ analysis \in [Analysis -> AnalysisState] /\ analysis[a].verified \subseteq published
      /\ published' = published
  BY AnalysisStepSound DEF IndexInv, TypeOK, AnalysisType, AnalysisSound, chain
<1>2. \A b \in Analysis : b # a => analysis'[b] = analysis[b]
  BY <1>1, AnalysisMoves DEF IndexInv, Goto
<1>3. CASE SaveResult(a)
  <2>1. /\ analysis[a] \in AnalysisState
        /\ analysis' = [analysis EXCEPT ![a] = [analysis[a] EXCEPT !.pc = "done"]]
    BY <1>1, <1>3 DEF SaveResult, Goto
  <2>2. /\ analysis'[a].pc = "done" /\ analysis'[a].list = analysis[a].list
        /\ analysis'[a].verified = analysis[a].verified
    BY <1>1, <2>1 DEF AnalysisState
  <2>3. \A d \in results : d.by # a
    BY <1>3 DEF SaveResult, IndexInv, ResultsAreAnswers, JobsAreAnswers
  <2>4. results' = results \/ results' = {[by |-> a, contracts |-> analysis[a].list,
                verified |-> analysis[a].verified,
                interactors |-> UNION {d.interactors : d \in results}]}
    BY <1>3 DEF SaveResult
  <2>5. jobs' = jobs \/ jobs' = jobs \union {[of |-> a, contracts |-> analysis[a].verified]}
    BY <1>3 DEF SaveResult, EnqueueEnrichment
  <2>6. DocumentType'
    BY <2>1, <2>4, <2>5 DEF IndexInv, TypeOK, DocumentType, AnalysisState
  <2>7. CountsSound'
    BY <1>1, <2>4, <2>5 DEF IndexInv, CountsSound
  <2>8. ResultsAreAnswers'
    <3>1. /\ a \in Analysis /\ \A d \in results : d.by \in Analysis
      BY DEF IndexInv, TypeOK, DocumentType
    <3>2. \A b \in Analysis : analysis[b].pc = "done" => analysis'[b] = analysis[b]
      BY <1>2, <1>3 DEF SaveResult
    <3>3. \A d \in results : \A counted \in d.interactors : \E b \in Analysis :
            analysis'[b].pc = "done" /\ counted \subseteq analysis'[b].verified
      BY <3>2 DEF IndexInv, ResultsAreAnswers
    <3>4. \A d \in results : /\ analysis'[d.by].pc = "done"
                              /\ d.contracts = analysis'[d.by].list
                              /\ d.verified = analysis'[d.by].verified
      BY <3>1, <3>2 DEF IndexInv, ResultsAreAnswers
    <3>5. CASE results' = results
      BY <3>3, <3>4, <3>5 DEF ResultsAreAnswers
    <3>6. CASE results' = {[by |-> a, contracts |-> analysis[a].list,
                verified |-> analysis[a].verified,
                interactors |-> UNION {d.interactors : d \in results}]}
      BY <2>2, <3>3, <3>6 DEF ResultsAreAnswers
    <3>7. QED
      BY <2>4, <3>5, <3>6
  <2>j. JobsAreAnswers'
    <3>1. \A j \in jobs : j.of \in Analysis /\ j.of # a
      BY <1>3 DEF SaveResult, IndexInv, JobsAreAnswers, TypeOK, DocumentType
    <3>2. QED
      BY <1>2, <2>2, <2>5, <3>1 DEF IndexInv, JobsAreAnswers
  <2>9. QED
    BY <2>6, <2>7, <2>8, <2>j
<1>4. CASE UNCHANGED <<results, jobs>> /\ analysis[a].pc # "done"
  BY <1>1, <1>2, <1>4 DEF IndexInv, TypeOK, DocumentType, CountsSound, ResultsAreAnswers, JobsAreAnswers
<1>5. QED
  <2>1. UNCHANGED <<results, jobs>> \/ SaveResult(a)
    BY DEF AnalysisStep, ReadMarker, ReadRows, ReadChecks, Fetch, LookUp,
       UpsertDeployment, MarkIndexed, UpsertVerification
  <2>2. analysis[a].pc # "done"
    BY DEF AnalysisStep, ReadMarker, ReadRows, ReadChecks, Fetch, LookUp,
       UpsertDeployment, MarkIndexed, UpsertVerification, SaveResult
  <2>3. QED
    BY <1>3, <1>4, <2>1, <2>2

(* Enrichment adds counts of verified contracts and nothing else.          *)
LEMMA EnrichKeepsAnswers ==
  ASSUME IndexInv, NEW job \in jobs, Enrich(job)
  PROVE  DocumentType' /\ CountsSound' /\ ResultsAreAnswers' /\ JobsAreAnswers'
<1>1. PICK counted \in SUBSET job.contracts :
        results' = results \/ results' = {[d EXCEPT !.interactors = {counted}] : d \in results}
  BY DEF Enrich, FetchUniqueSenders, UpdateUniqueInteractors
<1>2. /\ counted \in SUBSET Contract /\ counted \subseteq published
      /\ results \subseteq [by : Analysis, contracts : SUBSET Contract,
           verified : SUBSET Contract, interactors : SUBSET SUBSET Contract]
  BY DEF IndexInv, TypeOK, DocumentType, CountsSound
<1>3. jobs' \subseteq jobs /\ UNCHANGED <<chain, analysis>>
  BY DEF Enrich
<1>4. \A e \in results' : \E d \in results :
        /\ e.by = d.by /\ e.contracts = d.contracts /\ e.verified = d.verified
        /\ e.interactors = d.interactors \/ e.interactors = {counted}
        /\ e \in [by : Analysis, contracts : SUBSET Contract,
             verified : SUBSET Contract, interactors : SUBSET SUBSET Contract]
  BY <1>1, <1>2
<1>5. DocumentType'
  BY <1>3, <1>4 DEF IndexInv, TypeOK, DocumentType
<1>6. CountsSound'
  BY <1>2, <1>3, <1>4 DEF IndexInv, CountsSound, chain
<1>7. ResultsAreAnswers' /\ JobsAreAnswers'
  <2>1. \E b \in Analysis : analysis[b].pc = "done" /\ counted \subseteq analysis[b].verified
    BY DEF IndexInv, JobsAreAnswers, TypeOK, DocumentType
  <2>2. \A e \in results' : \A c \in e.interactors : \E b \in Analysis :
          analysis[b].pc = "done" /\ c \subseteq analysis[b].verified
    BY <1>4, <2>1 DEF IndexInv, ResultsAreAnswers
  <2>3. QED
    BY <1>3, <1>4, <2>2 DEF IndexInv, ResultsAreAnswers, JobsAreAnswers
<1>8. QED
  BY <1>5, <1>6, <1>7

(* What others do keeps what a process knows: rows and published contracts *)
(* are never taken away.                                                   *)
LEMMA SoundKept ==
  ASSUME rows \subseteq rows', published \subseteq published',
         Cardinality(rows) <= Cardinality(rows'),
         TypeOK, rows' \subseteq Contract
  PROVE  /\ \A a \in Analysis : AnalysisSound(analysis[a]) /\ analysis'[a] = analysis[a]
                => AnalysisSound(analysis[a])'
         /\ \A x \in Indexer : IndexerSound(indexer[x]) /\ indexer'[x] = indexer[x]
                => IndexerSound(indexer[x])'
<1>1. /\ Cardinality(rows) \in Int /\ Cardinality(rows') \in Int
  BY RowsCount
<1>2. \A a \in Analysis : analysis[a] \in AnalysisState /\ analysis[a].seen \in Int
  BY DEF TypeOK, AnalysisType, AnalysisState, Unmarked
<1>3. QED
  BY <1>1, <1>2 DEF AnalysisSound, IndexerSound

LEMMA AnalysisStepInv ==
  ASSUME IndexInv, NEW a \in Analysis, AnalysisStep(a), faults' \in 0 .. MaxFaults
  PROVE  IndexInv'
<1>1. /\ IndexStep /\ UNCHANGED <<chain, indexer>>
      /\ AnalysisSound(analysis[a])'
  BY AnalysisStepSound
<1>2. PICK u : AnalysisLocal(u) /\ Goto(a, u)
  BY AnalysisMoves DEF IndexInv
<1>3. DocumentType' /\ CountsSound' /\ ResultsAreAnswers' /\ JobsAreAnswers'
  BY DocumentsKept
<1>4. /\ IndexType' /\ CountBacked' /\ ChecksSound'
      /\ rows \subseteq rows' /\ Cardinality(rows) <= Cardinality(rows')
  BY <1>1, IndexKept DEF IndexInv
<1>5. Deployed' = Deployed /\ WorldType' /\ published' = published
  BY <1>1 DEF IndexInv, TypeOK, WorldType, Deployed, chain
<1>6. AnalysisType'
  BY <1>2, <1>5 DEF IndexInv, TypeOK, AnalysisType, AnalysisLocal, Goto
<1>7. IndexerType'
  BY <1>1, <1>5 DEF IndexInv, TypeOK, IndexerType
<1>8. /\ \A b \in Analysis : b # a => analysis'[b] = analysis[b]
      /\ \A x \in Indexer : indexer'[x] = indexer[x]
  BY <1>1, <1>2 DEF Goto, IndexInv, TypeOK, AnalysisType
<1>9. rows' \subseteq Contract
  BY <1>4, <1>5 DEF IndexType, WorldType, Deployed, Contract
<1>10. /\ \A b \in Analysis : AnalysisSound(analysis[b])'
       /\ \A x \in Indexer : IndexerSound(indexer[x])'
  BY <1>1, <1>4, <1>5, <1>8, <1>9, SoundKept DEF IndexInv
<1>11. QED
  BY <1>3, <1>4, <1>5, <1>6, <1>7, <1>10 DEF IndexInv, TypeOK

LEMMA IndexerStepInv ==
  ASSUME IndexInv, NEW x \in Indexer, IndexerStep(x) \/ Start(x),
         faults' \in 0 .. MaxFaults
  PROVE  IndexInv'
<1>1. /\ IndexStep /\ UNCHANGED <<chain, analysis, results, jobs>>
      /\ IndexerSound(indexer[x])'
  BY IndexerStepSound
<1>2. PICK u : IndexerLocal(u) /\ Move(x, u)
  BY IndexerMoves DEF IndexInv
<1>4. /\ IndexType' /\ CountBacked' /\ ChecksSound'
      /\ rows \subseteq rows' /\ Cardinality(rows) <= Cardinality(rows')
  BY <1>1, IndexKept DEF IndexInv
<1>5. Deployed' = Deployed /\ WorldType' /\ published' = published
  BY <1>1 DEF IndexInv, TypeOK, WorldType, Deployed, chain
<1>6. AnalysisType' /\ DocumentType' /\ CountsSound' /\ ResultsAreAnswers' /\ JobsAreAnswers'
  BY <1>1, <1>5 DEF IndexInv, TypeOK, AnalysisType, DocumentType, CountsSound,
                    ResultsAreAnswers, JobsAreAnswers
<1>7. IndexerType'
  BY <1>2, <1>5 DEF IndexInv, TypeOK, IndexerType, IndexerLocal, Move
<1>8. /\ \A b \in Analysis : analysis'[b] = analysis[b]
      /\ \A y \in Indexer : y # x => indexer'[y] = indexer[y]
  BY <1>1, <1>2 DEF Move, IndexInv, TypeOK, IndexerType
<1>9. rows' \subseteq Contract
  BY <1>4, <1>5 DEF IndexType, WorldType, Deployed, Contract
<1>10. /\ \A b \in Analysis : AnalysisSound(analysis[b])'
       /\ \A y \in Indexer : IndexerSound(indexer[y])'
  BY <1>1, <1>4, <1>5, <1>8, <1>9, SoundKept DEF IndexInv
<1>11. QED
  BY <1>4, <1>5, <1>6, <1>7, <1>10 DEF IndexInv, TypeOK

(* Crashes, late counts and the world outside do not touch the index.      *)
LEMMA OtherStepInv ==
  ASSUME IndexInv, faults' \in 0 .. MaxFaults,
         \/ \E a \in Analysis : Crash(a)
         \/ \E job \in jobs : Enrich(job)
         \/ Deploy
         \/ \E c \in Contract : Publish(c)
  PROVE  IndexInv'
<1>0. TypeOK /\ rows \subseteq Contract /\ Deployed \subseteq Contract
  BY DEF IndexInv, TypeOK, WorldType, IndexType, Deployed, Contract
<1>i. /\ UNCHANGED index /\ indexer' = indexer
      /\ rows \subseteq rows' /\ rows' \subseteq Contract
      /\ Cardinality(rows) <= Cardinality(rows') /\ CountBacked'
  <2>1. UNCHANGED index /\ indexer' = indexer
    BY DEF Crash, Enrich, Deploy, Publish
  <2>2. QED
    BY <1>0, <2>1, RowsCount DEF index, IndexInv, CountBacked
<1>1. ASSUME NEW a \in Analysis, Crash(a) PROVE IndexInv'
  <2>1. /\ published' = published /\ Deployed' = Deployed /\ results' = results
        /\ jobs' \subseteq jobs
        /\ WorldType' /\ IndexType' /\ ChecksSound' /\ IndexerType'
    BY <1>1, <1>i DEF Crash, chain, index, Deployed, IndexInv, TypeOK, WorldType,
       IndexType, ChecksSound, IndexerType
  <2>2. \/ analysis' = analysis
        \/ /\ analysis[a].pc # "done"
           /\ Goto(a, [NotStarted EXCEPT !.pc = "lost"])
    BY <1>1 DEF Crash, Goto, IndexInv, TypeOK, AnalysisType
  <2>3. /\ \A b \in Analysis : b # a => analysis'[b] = analysis[b]
        /\ analysis[a].pc = "done" => analysis'[a] = analysis[a]
    BY <2>2 DEF Goto, IndexInv, TypeOK, AnalysisType
  <2>4. AnalysisType'
    BY <2>1, <2>2 DEF IndexInv, TypeOK, AnalysisType, Goto, NotStarted, AnalysisState,
       Looping, Unmarked
  <2>5. DocumentType' /\ CountsSound' /\ ResultsAreAnswers' /\ JobsAreAnswers'
    BY <2>1, <2>3 DEF IndexInv, TypeOK, DocumentType, CountsSound, ResultsAreAnswers, JobsAreAnswers
  <2>6. analysis'[a] = analysis[a] \/ AnalysisSound(analysis[a])'
    BY <2>2 DEF IndexInv, TypeOK, AnalysisType, Goto, NotStarted, AnalysisSound
  <2>7. /\ \A b \in Analysis : AnalysisSound(analysis[b])'
        /\ \A x \in Indexer : IndexerSound(indexer[x])'
    BY <1>0, <1>i, <2>1, <2>3, <2>6, SoundKept DEF IndexInv
  <2>8. QED
    BY <1>i, <2>1, <2>4, <2>5, <2>7 DEF IndexInv, TypeOK
<1>2. ASSUME NEW job \in jobs, Enrich(job) PROVE IndexInv'
  <2>1. DocumentType' /\ CountsSound' /\ ResultsAreAnswers' /\ JobsAreAnswers'
    BY <1>2, EnrichKeepsAnswers
  <2>2. published' = published /\ Deployed' = Deployed /\ analysis' = analysis
    BY <1>2 DEF Enrich, chain, Deployed
  <2>3. WorldType' /\ IndexType' /\ ChecksSound' /\ IndexerType' /\ AnalysisType'
    BY <1>i, <1>2, <2>2 DEF Enrich, chain, index, IndexInv, TypeOK, WorldType, IndexType,
       ChecksSound, IndexerType, AnalysisType
  <2>4. /\ \A b \in Analysis : AnalysisSound(analysis[b])'
        /\ \A x \in Indexer : IndexerSound(indexer[x])'
    BY <1>0, <1>i, <2>2, SoundKept DEF IndexInv
  <2>5. QED
    BY <1>i, <2>1, <2>3, <2>4 DEF IndexInv, TypeOK
<1>3. ASSUME Deploy \/ \E c \in Contract : Publish(c) PROVE IndexInv'
  <2>1. /\ published \subseteq published' /\ Deployed \subseteq Deployed'
        /\ UNCHANGED <<analysis, results, jobs>> /\ WorldType'
    <3>1. deployed \in 0 .. MaxContracts /\ published \subseteq Deployed
      BY DEF IndexInv, TypeOK, WorldType
    <3>2. CASE Deploy
      <4>1. deployed' \in 0 .. MaxContracts /\ Deployed \subseteq Deployed'
        BY <3>1, <3>2 DEF Deploy, Deployed
      <4>2. QED
        BY <3>1, <3>2, <4>1 DEF Deploy, WorldType
    <3>3. CASE \E c \in Contract : Publish(c)
      BY <3>1, <3>3 DEF Publish, WorldType, Deployed
    <3>4. QED
      BY <1>3, <3>2, <3>3
  <2>2. IndexType' /\ ChecksSound' /\ IndexerType' /\ AnalysisType'
    BY <1>i, <2>1 DEF index, IndexInv, TypeOK, IndexType, ChecksSound, IndexerType,
       AnalysisType
  <2>3. DocumentType' /\ CountsSound' /\ ResultsAreAnswers' /\ JobsAreAnswers'
    BY <2>1 DEF IndexInv, TypeOK, DocumentType, CountsSound, ResultsAreAnswers, JobsAreAnswers
  <2>4. /\ \A b \in Analysis : AnalysisSound(analysis[b])'
        /\ \A x \in Indexer : IndexerSound(indexer[x])'
    BY <1>0, <1>i, <2>1, SoundKept DEF IndexInv
  <2>5. QED
    BY <1>i, <2>1, <2>2, <2>3, <2>4 DEF IndexInv, TypeOK
<1>4. QED
  BY <1>1, <1>2, <1>3

LEMMA StepInv == IndexInv /\ [Next]_vars => IndexInv'
<1> SUFFICES ASSUME IndexInv, [Next]_vars PROVE IndexInv'
  OBVIOUS
<1>1. CASE Next
  <2>1. faults' \in 0 .. MaxFaults
    BY <1>1, FaultsBounded DEF IndexInv
  <2>2. QED
    BY <1>1, <2>1, AnalysisStepInv, IndexerStepInv, OtherStepInv DEF Next
<1>2. CASE UNCHANGED vars
  <2>1. /\ UNCHANGED <<deployed, published, rows, checked, marker>>
        /\ UNCHANGED <<analysis, indexer, results, jobs, faults>>
    BY <1>2 DEF vars, chain, index
  <2>2. QED
    BY <2>1 DEF IndexInv, TypeOK, WorldType, IndexType, AnalysisType, IndexerType,
       DocumentType, Deployed, CountBacked, ChecksSound, CountsSound, AnalysisSound,
       IndexerSound, ResultsAreAnswers, JobsAreAnswers
<1>3. QED
  BY <1>1, <1>2

LEMMA IndexInvAlways == Spec => []IndexInv
  BY InitInv, StepInv, PTL DEF Spec

-----------------------------------------------------------------------------
(* The index, the analyses and the commands are well typed: every loop of  *)
(* tasks.js, read.js and store.rs has a contract to go on with, and works  *)
(* on contracts the wallet deployed.                                       *)
THEOREM IndexTypeCorrect == Spec => []TypeOK
<1>1. IndexInv => TypeOK
  BY DEF IndexInv
<1>2. QED
  BY IndexInvAlways, <1>1, PTL

(* The marker of wallet_deployments never claims more contracts than there *)
(* are rows of contract_deployments.                                       *)
THEOREM CountAlwaysBacked == Spec => []CountBacked
<1>1. IndexInv => CountBacked
  BY DEF IndexInv
<1>2. QED
  BY IndexInvAlways, <1>1, PTL

(* An analysis that answers from the index answers no less than the marker *)
(* it started from, whoever writes between its three reads.                *)
THEOREM AnswersNeverTorn == Spec => []AnswerNotTorn
<1>1. IndexInv => AnswerNotTorn
  BY DEF IndexInv, AnswerNotTorn, AnalysisSound
<1>2. QED
  BY IndexInvAlways, <1>1, PTL

(* No contract is ever called verified whose source Etherscan has not      *)
(* verified, in the index, in an answer or in a document.                  *)
THEOREM NeverOverclaims == Spec => []NoOverclaim
<1>1. IndexInv => NoOverclaim
  BY DEF IndexInv, NoOverclaim, ChecksSound, CountsSound, AnalysisSound
<1>2. QED
  BY IndexInvAlways, <1>1, PTL

(* For any number of analyses, a document of analysis_results says of the  *)
(* contracts what one of them answered, and its count of interactors was   *)
(* made for verified contracts that one of them found, this one or another *)
(* (saveAnalysisResult and updateUniqueInteractors of db.js).              *)
THEOREM ResultsAlwaysAnswers == Spec => []ResultsAreAnswers
<1>1. IndexInv => ResultsAreAnswers
  BY DEF IndexInv
<1>2. QED
  BY IndexInvAlways, <1>1, PTL

=============================================================================
