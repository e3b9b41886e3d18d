-------------------------- MODULE AtomicWakerProofs --------------------------
(***************************************************************************)
(* Theorems about AtomicWaker, for any number of polls.                    *)
(***************************************************************************)
EXTENDS AtomicWakerProperties, TLAPS

\* The states that poll, finish and the cancellation write have the state's
\* type and the tag they are named for.
LEMMA StateFacts ==
  /\ \A s \in Nat : /\ Pending(s) \in WakerState /\ Pending(s).tag = "Pending" /\ Pending(s).seq = s
                    /\ Storing(s) \in WakerState /\ Storing(s).tag = "Storing" /\ Storing(s).seq = s
  /\ \A p \in BOOLEAN : Finished(p) \in WakerState /\ Over(Finished(p))
  /\ Cancelling \in WakerState /\ Cancelling.tag = "Cancelling"
  /\ Cancelled \in WakerState /\ Cancelled.tag = "Cancelled"
  /\ \A w \in WakerState : w.seq \in Nat /\ w.tag \in Tag
BY DEF WakerState, Tag, Pending, Storing, Finished, Cancelling, Cancelled, Over

\* A sequence number that counts polls does not wrap.
LEMMA NextSeqCounts ==
  /\ \A s \in Nat : NextSeq(s) \in Nat
  /\ \A s \in Nat : s < MaxPolls => NextSeq(s) = s + 1
BY WakerAssumption DEF NextSeq

\* Every step keeps the types.
LEMMA TypeOKStep == TypeOK /\ [Next]_vars => TypeOK'
<1> SUFFICES ASSUME TypeOK, [Next]_vars PROVE TypeOK'
  OBVIOUS
<1> USE DEF TypeOK, historyVars
<1> Null \in NoClone
  BY DEF NoClone
<1>1. CASE PollClaim
  <2>1. word' \in WordType
    BY <1>1, StateFacts DEF PollClaim, WordType, FutureType, ProducerType
  <2>2. future' \in FutureType
    BY <1>1, StateFacts DEF PollClaim, FutureType, WordType, ProducerType, FuturePC
  <2>3. QED
    BY <2>1, <2>2, <1>1 DEF PollClaim
<1>2. CASE FutureReload
  <2>1. future' \in FutureType
    BY <1>2, StateFacts DEF FutureReload, FutureType, WordType, ProducerType, FuturePC
  <2>2. QED
    BY <2>1, <1>2 DEF FutureReload
<1>3. CASE PollStoreData
  <2>1. word' \in WordType
    BY <1>3, StateFacts DEF PollStoreData, WordType, FutureType, ProducerType
  <2>2. future' \in FutureType
    BY <1>3, StateFacts DEF PollStoreData, FutureType, WordType, ProducerType, FuturePC
  <2>3. QED
    BY <2>1, <2>2, <1>3 DEF PollStoreData
<1>4. CASE PollStoreVtable
  <2>1. word' \in WordType
    BY <1>4, StateFacts
    DEF PollStoreVtable, FutureStep, Consume, WordType, FutureType, ProducerType
  <2>2. future' \in FutureType
    BY <1>4, StateFacts
    DEF PollStoreVtable, FutureStep, Consume, FutureType, WordType, ProducerType, FuturePC
  <2>3. QED
    BY <2>1, <2>2, <1>4 DEF PollStoreVtable, FutureStep, Consume, Clones
<1>5. CASE PollSeal
  <2>1. word' \in WordType
    BY <1>5, StateFacts, NextSeqCounts DEF PollSeal, WordType, FutureType, ProducerType
  <2>2. future' \in FutureType
    BY <1>5, StateFacts, NextSeqCounts DEF PollSeal, FutureType, WordType, ProducerType, FuturePC
  <2>3. QED
    BY <2>1, <2>2, <1>5 DEF PollSeal, FutureType
<1>6. CASE CancelExchange
  <2>1. word' \in WordType
    BY <1>6, StateFacts DEF CancelExchange, FutureStep, WordType, FutureType, ProducerType
  <2>2. future' \in FutureType
    BY <1>6, StateFacts
    DEF CancelExchange, FutureStep, FutureType, WordType, ProducerType, FuturePC
  <2>3. QED
    BY <2>1, <2>2, <1>6 DEF CancelExchange, FutureStep
<1>7. CASE Push
  <2>1. future' \in FutureType
    BY <1>7, StateFacts DEF Push, FutureType, WordType, ProducerType, FuturePC
  <2>2. QED
    BY <2>1, <1>7 DEF Push
<1>8. CASE WaitPark
  <2>1. future' \in FutureType
    BY <1>8, StateFacts DEF WaitPark, FutureStep, FutureType, WordType, ProducerType, FuturePC
  <2>2. QED
    BY <2>1, <1>8 DEF WaitPark, FutureStep
<1>9. CASE Park
  <2>1. future' \in FutureType
    BY <1>9, StateFacts DEF Park, FutureType, WordType, ProducerType, FuturePC
  <2>2. QED
    BY <2>1, <1>9 DEF Park
<1>10. CASE FutureEnds
  <2>1. future' \in FutureType
    BY <1>10, StateFacts
    DEF FutureEnds, FreeNode, Consume, FutureType, WordType, ProducerType, FuturePC
  <2>2. QED
    BY <2>1, <1>10 DEF FutureEnds, FreeNode, Consume, Clones
<1>11. CASE FinishReadData
  <2>1. producer' \in ProducerType
    BY <1>11, StateFacts DEF FinishReadData, ProducerType, WordType, FutureType, ProducerPC
  <2>2. QED
    BY <2>1, <1>11 DEF FinishReadData
<1>12. CASE FinishReadVtable
  <2>1. producer' \in ProducerType
    BY <1>12, StateFacts DEF FinishReadVtable, ProducerType, WordType, FutureType, ProducerPC
  <2>2. QED
    BY <2>1, <1>12 DEF FinishReadVtable
<1>13. CASE FinishExchange
  <2>1. word' \in WordType
    BY <1>13, StateFacts DEF FinishExchange, ProducerStep, WordType, FutureType, ProducerType
  <2>2. producer' \in ProducerType
    BY <1>13, StateFacts
    DEF FinishExchange, ProducerStep, ProducerType, WordType, FutureType, ProducerPC
  <2>3. QED
    BY <2>1, <2>2, <1>13 DEF FinishExchange, ProducerStep
<1>14. CASE FinishReload
  <2>1. producer' \in ProducerType
    BY <1>14, StateFacts DEF FinishReload, ProducerType, WordType, FutureType, ProducerPC
  <2>2. QED
    BY <2>1, <1>14 DEF FinishReload
<1>15. CASE FinishCancelling
  <2>1. producer' \in ProducerType
    BY <1>15, StateFacts
    DEF FinishCancelling, ProducerStep, ProducerType, WordType, FutureType, ProducerPC
  <2>2. QED
    BY <2>1, <1>15 DEF FinishCancelling, ProducerStep
<1>16. CASE Wake
  <2>1. producer' \in ProducerType
    BY <1>16, StateFacts
    DEF Wake, ProducerStep, Consume, ProducerType, WordType, FutureType, ProducerPC
  <2>2. QED
    BY <2>1, <1>16 DEF Wake, ProducerStep, Consume, ProducerType, Clones
<1>17. CASE AcceptExchange
  <2>1. word' \in WordType
    BY <1>17, StateFacts DEF AcceptExchange, ProducerStep, WordType, FutureType, ProducerType
  <2>2. producer' \in ProducerType
    BY <1>17, StateFacts
    DEF AcceptExchange, ProducerStep, ProducerType, WordType, FutureType, ProducerPC
  <2>3. QED
    BY <2>1, <2>2, <1>17 DEF AcceptExchange, ProducerStep
<1>18. CASE AcceptUnpark
  <2>1. producer' \in ProducerType
    BY <1>18, StateFacts
    DEF AcceptUnpark, ProducerStep, ProducerType, WordType, FutureType, ProducerPC
  <2>2. QED
    BY <2>1, <1>18 DEF AcceptUnpark, ProducerStep
<1>19. CASE PollBegin
  <2>1. polls + 1 \in NoClone
    BY <1>19, WakerAssumption DEF PollBegin, NoClone, Clones
  <2>2. future' \in FutureType
    BY <1>19, <2>1, StateFacts DEF PollBegin, FutureType, WordType, FuturePC
  <2>3. QED
    BY <2>2, <1>19, WakerAssumption DEF PollBegin
<1>20. CASE Enqueue
  BY <1>20 DEF Enqueue, Clones
<1>21. CASE EnterReady
  BY <1>21 DEF EnterReady, FreeNode, Consume, Clones
<1>22. CASE CancelBegin
  <2>1. word' \in WordType
    BY <1>22, StateFacts DEF CancelBegin, WordType, FutureType, ProducerType
  <2>2. future' \in FutureType
    BY <1>22, StateFacts DEF CancelBegin, FutureType, WordType, ProducerType, FuturePC
  <2>3. QED
    BY <2>1, <2>2, <1>22 DEF CancelBegin
<1>23. CASE ParkSpurious
  <2>1. future' \in FutureType
    BY <1>23, StateFacts
    DEF ParkSpurious, FutureStep, FutureType, WordType, ProducerType, FuturePC
  <2>2. QED
    BY <2>1, <1>23 DEF ParkSpurious, FutureStep
<1>24. ASSUME NEW p \in BOOLEAN, FinishBegin(p) PROVE TypeOK'
  <2>1. producer' \in ProducerType
    BY <1>24, StateFacts DEF FinishBegin, ProducerType, WordType, FutureType, ProducerPC
  <2>2. QED
    BY <2>1, <1>24 DEF FinishBegin
<1>25. CASE AcceptTake
  <2>1. word' \in WordType
    BY <1>25, StateFacts DEF AcceptTake, WordType, FutureType, ProducerType
  <2>2. producer' \in ProducerType
    BY <1>25, StateFacts DEF AcceptTake, ProducerType, WordType, FutureType, ProducerPC
  <2>3. QED
    BY <2>1, <2>2, <1>25 DEF AcceptTake
<1>26. CASE UNCHANGED vars
  BY <1>26 DEF vars
<1>27. QED
  BY <1>1, <1>2, <1>3, <1>4, <1>5, <1>6, <1>7, <1>8, <1>9, <1>10, <1>11,
     <1>12, <1>13, <1>14, <1>15, <1>16, <1>17, <1>18, <1>19, <1>20, <1>21,
     <1>22, <1>23, <1>24, <1>25, <1>26
  DEF Next, FutureContinue, ProducerContinue

\* Every step keeps the rest of the inductive invariant.
LEMMA WakerInvStep == WakerInv /\ [Next]_vars => WakerInv'
<1> SUFFICES ASSUME WakerInv, [Next]_vars PROVE WakerInv'
  OBVIOUS
<1> TypeOK'
  BY TypeOKStep DEF WakerInv
<1> USE StateFacts, NextSeqCounts
    DEF WakerInv, TypeOK, WordType, FutureType, ProducerType, Over, historyVars
<1>1. CASE PollClaim
  <2>1. FutureControl'
    BY <1>1 DEF PollClaim, FutureControl, InPoll, Reading, Sequence, ProducerControl
  <2>2. ProducerControl'
    BY <1>1 DEF PollClaim, ProducerControl, Reading, Sequence, FutureControl
  <2>3. Sequence'
    BY <1>1
    DEF PollClaim, Sequence, Reading, InPoll, Sequenced, FutureControl, ProducerControl, Words
  <2>4. Words'
    BY <1>1 DEF PollClaim, Words, FutureControl, ProducerControl, Sequence, Reading, InPoll
  <2>5. Fresh'
    BY <1>1 DEF PollClaim, Fresh, FutureControl, ProducerControl, Sequence, Reading, InPoll, Words
  <2>6. QED
    BY <2>1, <2>2, <2>3, <2>4, <2>5
<1>2. CASE FutureReload
  <2>1. FutureControl'
    BY <1>2 DEF FutureReload, FutureControl, InPoll, Reading, Sequence, ProducerControl
  <2>2. ProducerControl'
    BY <1>2 DEF FutureReload, ProducerControl, Reading, Sequence, FutureControl
  <2>3. Sequence'
    BY <1>2
    DEF FutureReload, Sequence, Reading, InPoll, Sequenced, FutureControl, ProducerControl,
        Words
  <2>4. Words'
    BY <1>2 DEF FutureReload, Words, FutureControl, ProducerControl, Sequence, Reading, InPoll
  <2>5. Fresh'
    BY <1>2
    DEF FutureReload, Fresh, FutureControl, ProducerControl, Sequence, Reading, InPoll, Words
  <2>6. QED
    BY <2>1, <2>2, <2>3, <2>4, <2>5
<1>3. CASE PollStoreData
  <2>1. FutureControl'
    BY <1>3 DEF PollStoreData, FutureControl, InPoll, Reading, Sequence, ProducerControl
  <2>2. ProducerControl'
    BY <1>3 DEF PollStoreData, ProducerControl, Reading, Sequence, FutureControl
  <2>3. Sequence'
    BY <1>3
    DEF PollStoreData, Sequence, Reading, InPoll, Sequenced, FutureControl, ProducerControl,
        Words
  <2>4. Words'
    BY <1>3 DEF PollStoreData, Words, FutureControl, ProducerControl, Sequence, Reading, InPoll
  <2>5. Fresh'
    BY <1>3
    DEF PollStoreData, Fresh, FutureControl, ProducerControl, Sequence, Reading, InPoll, Words
  <2>6. QED
    BY <2>1, <2>2, <2>3, <2>4, <2>5
<1>4. CASE PollStoreVtable
  <2>1. FutureControl'
    BY <1>4
    DEF PollStoreVtable, FutureStep, Consume, FutureControl, InPoll, Reading, Sequence,
        ProducerControl
  <2>2. ProducerControl'
    BY <1>4
    DEF PollStoreVtable, FutureStep, Consume, ProducerControl, Reading, Sequence,
        FutureControl
  <2>3. Sequence'
    BY <1>4
    DEF PollStoreVtable, FutureStep, Consume, Sequence, Reading, InPoll, Sequenced,
        FutureControl, ProducerControl, Words
  <2>4. Words'
    BY <1>4
    DEF PollStoreVtable, FutureStep, Consume, Words, FutureControl, ProducerControl, Sequence,
        Reading, InPoll
  <2>5. Fresh'
    BY <1>4
    DEF PollStoreVtable, FutureStep, Consume, Fresh, FutureControl, ProducerControl, Sequence,
        Reading, InPoll, Words
  <2>6. QED
    BY <2>1, <2>2, <2>3, <2>4, <2>5
<1>5. CASE PollSeal
  <2>1. FutureControl'
    BY <1>5 DEF PollSeal, FutureControl, InPoll, Reading, Sequence, ProducerControl
  <2>2. ProducerControl'
    BY <1>5 DEF PollSeal, ProducerControl, Reading, Sequence, FutureControl
  <2>3. Sequence'
    <3>1. word.state = future.current /\ word.state.seq < polls /\ word.state.seq \in Nat
      BY <1>5 DEF PollSeal, Sequence, InPoll, Sequenced
    <3>2. NextSeq(word.state.seq) = word.state.seq + 1
      BY <3>1, WakerAssumption
    <3>3. word'.state.seq = word.state.seq + 1 /\ word'.state.tag = "Pending"
      BY <1>5, <3>1, <3>2 DEF PollSeal
    <3>4. producer.current.seq \in Nat /\ polls \in Nat /\ future'.pc = "idle"
      BY <1>5, WakerAssumption DEF PollSeal
    <3>5. /\ producer' = producer /\ polls' = polls
          /\ word'.data = word.data /\ word'.vtable = word.vtable
      BY <1>5 DEF PollSeal
    <3>6. Sequenced(word.state)
      BY <1>5, <3>1 DEF PollSeal, Sequenced
    <3>7. QED
      BY <3>1, <3>3, <3>4, <3>5, <3>6 DEF Sequence, Reading, InPoll, Sequenced
  <2>4. Words'
    BY <1>5 DEF PollSeal, Words, FutureControl, ProducerControl, Sequence, Reading, InPoll
  <2>5. Fresh'
    BY <1>5 DEF PollSeal, Fresh, FutureControl, ProducerControl, Sequence, Reading, InPoll, Words
  <2>6. QED
    BY <2>1, <2>2, <2>3, <2>4, <2>5
<1>6. CASE CancelExchange
  <2>1. FutureControl'
    BY <1>6
    DEF CancelExchange, FutureStep, FutureControl, InPoll, Reading, Sequence, ProducerControl
  <2>2. ProducerControl'
    BY <1>6 DEF CancelExchange, FutureStep, ProducerControl, Reading, Sequence, FutureControl
  <2>3. Sequence'
    BY <1>6
    DEF CancelExchange, FutureStep, Sequence, Reading, InPoll, Sequenced, FutureControl,
        ProducerControl, Words
  <2>4. Words'
    BY <1>6
    DEF CancelExchange, FutureStep, Words, FutureControl, ProducerControl, Sequence, Reading,
        InPoll
  <2>5. Fresh'
    BY <1>6
    DEF CancelExchange, FutureStep, Fresh, FutureControl, ProducerControl, Sequence, Reading,
        InPoll, Words
  <2>6. QED
    BY <2>1, <2>2, <2>3, <2>4, <2>5
<1>7. CASE Push
  <2>1. FutureControl'
    BY <1>7 DEF Push, FutureControl, InPoll, Reading, Sequence, ProducerControl
  <2>2. ProducerControl'
    BY <1>7 DEF Push, ProducerControl, Reading, Sequence, FutureControl
  <2>3. Sequence'
    BY <1>7 DEF Push, Sequence, Reading, InPoll, Sequenced, FutureControl, ProducerControl, Words
  <2>4. Words'
    BY <1>7 DEF Push, Words, FutureControl, ProducerControl, Sequence, Reading, InPoll
  <2>5. Fresh'
    BY <1>7 DEF Push, Fresh, FutureControl, ProducerControl, Sequence, Reading, InPoll, Words
  <2>6. QED
    BY <2>1, <2>2, <2>3, <2>4, <2>5
<1>8. CASE WaitPark
  <2>1. FutureControl'
    BY <1>8 DEF WaitPark, FutureStep, FutureControl, InPoll, Reading, Sequence, ProducerControl
  <2>2. ProducerControl'
    BY <1>8 DEF WaitPark, FutureStep, ProducerControl, Reading, Sequence, FutureControl
  <2>3. Sequence'
    BY <1>8
    DEF WaitPark, FutureStep, Sequence, Reading, InPoll, Sequenced, FutureControl,
        ProducerControl, Words
  <2>4. Words'
    BY <1>8
    DEF WaitPark, FutureStep, Words, FutureControl, ProducerControl, Sequence, Reading, InPoll
  <2>5. Fresh'
    BY <1>8
    DEF WaitPark, FutureStep, Fresh, FutureControl, ProducerControl, Sequence, Reading,
        InPoll, Words
  <2>6. QED
    BY <2>1, <2>2, <2>3, <2>4, <2>5
<1>9. CASE Park
  <2>1. FutureControl'
    BY <1>9 DEF Park, FutureControl, InPoll, Reading, Sequence, ProducerControl
  <2>2. ProducerControl'
    BY <1>9 DEF Park, ProducerControl, Reading, Sequence, FutureControl
  <2>3. Sequence'
    BY <1>9 DEF Park, Sequence, Reading, InPoll, Sequenced, FutureControl, ProducerControl, Words
  <2>4. Words'
    BY <1>9 DEF Park, Words, FutureControl, ProducerControl, Sequence, Reading, InPoll
  <2>5. Fresh'
    BY <1>9 DEF Park, Fresh, FutureControl, ProducerControl, Sequence, Reading, InPoll, Words
  <2>6. QED
    BY <2>1, <2>2, <2>3, <2>4, <2>5
<1>10. CASE FutureEnds
  <2>1. FutureControl'
    BY <1>10
    DEF FutureEnds, FreeNode, Consume, FutureControl, InPoll, Reading, Sequence,
        ProducerControl
  <2>2. ProducerControl'
    BY <1>10 DEF FutureEnds, FreeNode, Consume, ProducerControl, Reading, Sequence, FutureControl
  <2>3. Sequence'
    BY <1>10
    DEF FutureEnds, FreeNode, Consume, Sequence, Reading, InPoll, Sequenced, FutureControl,
        ProducerControl, Words
  <2>4. Words'
    BY <1>10
    DEF FutureEnds, FreeNode, Consume, Words, FutureControl, ProducerControl, Sequence,
        Reading, InPoll
  <2>5. Fresh'
    BY <1>10
    DEF FutureEnds, FreeNode, Consume, Fresh, FutureControl, ProducerControl, Sequence,
        Reading, InPoll, Words
  <2>6. QED
    BY <2>1, <2>2, <2>3, <2>4, <2>5
<1>11. CASE FinishReadData
  <2>1. FutureControl'
    BY <1>11 DEF FinishReadData, FutureControl, InPoll, Reading, Sequence, ProducerControl
  <2>2. ProducerControl'
    BY <1>11 DEF FinishReadData, ProducerControl, Reading, Sequence, FutureControl
  <2>3. Sequence'
    BY <1>11
    DEF FinishReadData, Sequence, Reading, InPoll, Sequenced, FutureControl, ProducerControl,
        Words
  <2>4. Words'
    BY <1>11 DEF FinishReadData, Words, FutureControl, ProducerControl, Sequence, Reading, InPoll
  <2>5. Fresh'
    BY <1>11
    DEF FinishReadData, Fresh, FutureControl, ProducerControl, Sequence, Reading, InPoll,
        Words
  <2>6. QED
    BY <2>1, <2>2, <2>3, <2>4, <2>5
<1>12. CASE FinishReadVtable
  <2>1. FutureControl'
    BY <1>12 DEF FinishReadVtable, FutureControl, InPoll, Reading, Sequence, ProducerControl
  <2>2. ProducerControl'
    BY <1>12 DEF FinishReadVtable, ProducerControl, Reading, Sequence, FutureControl
  <2>3. Sequence'
    BY <1>12
    DEF FinishReadVtable, Sequence, Reading, InPoll, Sequenced, FutureControl,
        ProducerControl, Words
  <2>4. Words'
    BY <1>12
    DEF FinishReadVtable, Words, FutureControl, ProducerControl, Sequence, Reading, InPoll
  <2>5. Fresh'
    BY <1>12
    DEF FinishReadVtable, Fresh, FutureControl, ProducerControl, Sequence, Reading, InPoll,
        Words
  <2>6. QED
    BY <2>1, <2>2, <2>3, <2>4, <2>5
<1>13. CASE FinishExchange
  <2>1. FutureControl'
    BY <1>13
    DEF FinishExchange, ProducerStep, FutureControl, InPoll, Reading, Sequence,
        ProducerControl
  <2>2. ProducerControl'
    BY <1>13 DEF FinishExchange, ProducerStep, ProducerControl, Reading, Sequence, FutureControl
  <2>3. Sequence'
    BY <1>13
    DEF FinishExchange, ProducerStep, Sequence, Reading, InPoll, Sequenced, FutureControl,
        ProducerControl, Words
  <2>4. Words'
    <3>1. CASE producer.pc = "exchange"
      <4>1. word.state.tag = "Pending" /\ producer.data = word.data /\ producer.vtable = word.vtable
        BY <1>13, <3>1 DEF FinishExchange, Sequence, Reading
      <4>2. word.data = word.vtable /\ word.vtable = stored /\ stored # Null
        BY <3>1, <4>1 DEF Words, FutureControl, ProducerControl, Reading
      <4>3. QED
        BY <1>13, <3>1, <4>1, <4>2 DEF FinishExchange, ProducerStep, Words
    <3>2. CASE producer.pc = "finish"
      <4>1. future.pc \in {"data", "vtable", "seal"}
        BY <1>13, <3>2 DEF FinishExchange, ProducerStep, FutureControl, ProducerControl, FuturePC
      <4>2. QED
        BY <1>13, <3>2, <4>1 DEF FinishExchange, ProducerStep, Words
    <3>3. QED
      BY <1>13, <3>1, <3>2 DEF FinishExchange, ProducerStep
  <2>5. Fresh'
    BY <1>13
    DEF FinishExchange, ProducerStep, Fresh, FutureControl, ProducerControl, Sequence,
        Reading, InPoll, Words
  <2>6. QED
    BY <2>1, <2>2, <2>3, <2>4, <2>5
<1>14. CASE FinishReload
  <2>1. FutureControl'
    BY <1>14 DEF FinishReload, FutureControl, InPoll, Reading, Sequence, ProducerControl
  <2>2. ProducerControl'
    BY <1>14 DEF FinishReload, ProducerControl, Reading, Sequence, FutureControl
  <2>3. Sequence'
    BY <1>14
    DEF FinishReload, Tag, Sequence, Reading, InPoll, Sequenced, FutureControl,
        ProducerControl, Words
  <2>4. Words'
    BY <1>14 DEF FinishReload, Words, FutureControl, ProducerControl, Sequence, Reading, InPoll
  <2>5. Fresh'
    BY <1>14
    DEF FinishReload, Fresh, FutureControl, ProducerControl, Sequence, Reading, InPoll, Words
  <2>6. QED
    BY <2>1, <2>2, <2>3, <2>4, <2>5
<1>15. CASE FinishCancelling
  <2>1. FutureControl'
    BY <1>15
    DEF FinishCancelling, ProducerStep, FutureControl, InPoll, Reading, Sequence,
        ProducerControl
  <2>2. ProducerControl'
    BY <1>15 DEF FinishCancelling, ProducerStep, ProducerControl, Reading, Sequence, FutureControl
  <2>3. Sequence'
    BY <1>15
    DEF FinishCancelling, ProducerStep, Sequence, Reading, InPoll, Sequenced, FutureControl,
        ProducerControl, Words
  <2>4. Words'
    BY <1>15
    DEF FinishCancelling, ProducerStep, Words, FutureControl, ProducerControl, Sequence,
        Reading, InPoll
  <2>5. Fresh'
    BY <1>15
    DEF FinishCancelling, ProducerStep, Fresh, FutureControl, ProducerControl, Sequence,
        Reading, InPoll, Words
  <2>6. QED
    BY <2>1, <2>2, <2>3, <2>4, <2>5
<1>16. CASE Wake
  <2>1. FutureControl'
    BY <1>16
    DEF Wake, ProducerStep, Consume, FutureControl, InPoll, Reading, Sequence, ProducerControl
  <2>2. ProducerControl'
    BY <1>16 DEF Wake, ProducerStep, Consume, ProducerControl, Reading, Sequence, FutureControl
  <2>3. Sequence'
    BY <1>16
    DEF Wake, ProducerStep, Consume, Sequence, Reading, InPoll, Sequenced, FutureControl,
        ProducerControl, Words
  <2>4. Words'
    BY <1>16
    DEF Wake, ProducerStep, Consume, Words, FutureControl, ProducerControl, Sequence, Reading,
        InPoll
  <2>5. Fresh'
    BY <1>16
    DEF Wake, ProducerStep, Consume, Fresh, FutureControl, ProducerControl, Sequence, Reading,
        InPoll, Words
  <2>6. QED
    BY <2>1, <2>2, <2>3, <2>4, <2>5
<1>17. CASE AcceptExchange
  <2>1. FutureControl'
    BY <1>17
    DEF AcceptExchange, ProducerStep, FutureControl, InPoll, Reading, Sequence,
        ProducerControl
  <2>2. ProducerControl'
    BY <1>17 DEF AcceptExchange, ProducerStep, ProducerControl, Reading, Sequence, FutureControl
  <2>3. Sequence'
    BY <1>17
    DEF AcceptExchange, ProducerStep, Sequence, Reading, InPoll, Sequenced, FutureControl,
        ProducerControl, Words
  <2>4. Words'
    BY <1>17
    DEF AcceptExchange, ProducerStep, Words, FutureControl, ProducerControl, Sequence,
        Reading, InPoll
  <2>5. Fresh'
    BY <1>17
    DEF AcceptExchange, ProducerStep, Fresh, FutureControl, ProducerControl, Sequence,
        Reading, InPoll, Words
  <2>6. QED
    BY <2>1, <2>2, <2>3, <2>4, <2>5
<1>18. CASE AcceptUnpark
  <2>1. FutureControl'
    BY <1>18
    DEF AcceptUnpark, ProducerStep, FutureControl, InPoll, Reading, Sequence, ProducerControl
  <2>2. ProducerControl'
    BY <1>18 DEF AcceptUnpark, ProducerStep, ProducerControl, Reading, Sequence, FutureControl
  <2>3. Sequence'
    BY <1>18
    DEF AcceptUnpark, ProducerStep, Sequence, Reading, InPoll, Sequenced, FutureControl,
        ProducerControl, Words
  <2>4. Words'
    BY <1>18
    DEF AcceptUnpark, ProducerStep, Words, FutureControl, ProducerControl, Sequence, Reading,
        InPoll
  <2>5. Fresh'
    BY <1>18
    DEF AcceptUnpark, ProducerStep, Fresh, FutureControl, ProducerControl, Sequence, Reading,
        InPoll, Words
  <2>6. QED
    BY <2>1, <2>2, <2>3, <2>4, <2>5
<1>19. CASE PollBegin
  <2> polls + 1 # Null
    BY WakerAssumption
  <2>1. FutureControl'
    BY <1>19 DEF PollBegin, FutureControl, InPoll, Reading, Sequence, ProducerControl
  <2>2. ProducerControl'
    BY <1>19 DEF PollBegin, ProducerControl, Reading, Sequence, FutureControl
  <2>3. Sequence'
    BY <1>19
    DEF PollBegin, Sequence, Reading, InPoll, Sequenced, FutureControl, ProducerControl, Words
  <2>4. Words'
    BY <1>19 DEF PollBegin, Words, FutureControl, ProducerControl, Sequence, Reading, InPoll
  <2>5. Fresh'
    <3>1. polls \in Nat /\ (word.vtable = Null \/ word.vtable \in Int)
      BY WakerAssumption DEF NoClone, Clones
    <3>2. polls' = polls + 1 /\ future'.pc = "claim" /\ future'.clone = polls + 1
      BY <1>19 DEF PollBegin
    <3>3. word' = word /\ producer' = producer
      BY <1>19 DEF PollBegin
    <3>4. word.vtable # polls + 1 /\ (word.vtable # Null => word.vtable <= polls + 1)
      BY <3>1, WakerAssumption DEF Fresh
    <3>5. QED
      BY <3>1, <3>2, <3>3, <3>4 DEF Fresh, InPoll
  <2>6. QED
    BY <2>1, <2>2, <2>3, <2>4, <2>5
<1>20. CASE Enqueue
  <2>1. FutureControl'
    BY <1>20 DEF Enqueue, FutureControl, InPoll, Reading, Sequence, ProducerControl
  <2>2. ProducerControl'
    BY <1>20 DEF Enqueue, ProducerControl, Reading, Sequence, FutureControl
  <2>3. Sequence'
    BY <1>20
    DEF Enqueue, Sequence, Reading, InPoll, Sequenced, FutureControl, ProducerControl, Words
  <2>4. Words'
    BY <1>20 DEF Enqueue, Words, FutureControl, ProducerControl, Sequence, Reading, InPoll
  <2>5. Fresh'
    BY <1>20 DEF Enqueue, Fresh, FutureControl, ProducerControl, Sequence, Reading, InPoll, Words
  <2>6. QED
    BY <2>1, <2>2, <2>3, <2>4, <2>5
<1>21. CASE EnterReady
  <2>1. FutureControl'
    BY <1>21
    DEF EnterReady, FreeNode, Consume, FutureControl, InPoll, Reading, Sequence,
        ProducerControl
  <2>2. ProducerControl'
    BY <1>21 DEF EnterReady, FreeNode, Consume, ProducerControl, Reading, Sequence, FutureControl
  <2>3. Sequence'
    BY <1>21
    DEF EnterReady, FreeNode, Consume, Sequence, Reading, InPoll, Sequenced, FutureControl,
        ProducerControl, Words
  <2>4. Words'
    BY <1>21
    DEF EnterReady, FreeNode, Consume, Words, FutureControl, ProducerControl, Sequence,
        Reading, InPoll
  <2>5. Fresh'
    BY <1>21
    DEF EnterReady, FreeNode, Consume, Fresh, FutureControl, ProducerControl, Sequence,
        Reading, InPoll, Words
  <2>6. QED
    BY <2>1, <2>2, <2>3, <2>4, <2>5
<1>22. CASE CancelBegin
  <2>1. FutureControl'
    BY <1>22 DEF CancelBegin, FutureControl, InPoll, Reading, Sequence, ProducerControl
  <2>2. ProducerControl'
    BY <1>22 DEF CancelBegin, ProducerControl, Reading, Sequence, FutureControl
  <2>3. Sequence'
    BY <1>22
    DEF CancelBegin, Sequence, Reading, InPoll, Sequenced, FutureControl, ProducerControl,
        Words
  <2>4. Words'
    BY <1>22 DEF CancelBegin, Words, FutureControl, ProducerControl, Sequence, Reading, InPoll
  <2>5. Fresh'
    BY <1>22
    DEF CancelBegin, Fresh, FutureControl, ProducerControl, Sequence, Reading, InPoll, Words
  <2>6. QED
    BY <2>1, <2>2, <2>3, <2>4, <2>5
<1>23. CASE ParkSpurious
  <2>1. FutureControl'
    BY <1>23
    DEF ParkSpurious, FutureStep, FutureControl, InPoll, Reading, Sequence, ProducerControl
  <2>2. ProducerControl'
    BY <1>23 DEF ParkSpurious, FutureStep, ProducerControl, Reading, Sequence, FutureControl
  <2>3. Sequence'
    BY <1>23
    DEF ParkSpurious, FutureStep, Sequence, Reading, InPoll, Sequenced, FutureControl,
        ProducerControl, Words
  <2>4. Words'
    BY <1>23
    DEF ParkSpurious, FutureStep, Words, FutureControl, ProducerControl, Sequence, Reading,
        InPoll
  <2>5. Fresh'
    BY <1>23
    DEF ParkSpurious, FutureStep, Fresh, FutureControl, ProducerControl, Sequence, Reading,
        InPoll, Words
  <2>6. QED
    BY <2>1, <2>2, <2>3, <2>4, <2>5
<1>24. ASSUME NEW p \in BOOLEAN, FinishBegin(p) PROVE WakerInv'
  <2>1. FutureControl'
    BY <1>24 DEF FinishBegin, FutureControl, InPoll, Reading, Sequence, ProducerControl
  <2>2. ProducerControl'
    BY <1>24 DEF FinishBegin, ProducerControl, Reading, Sequence, FutureControl
  <2>3. Sequence'
    BY <1>24
    DEF FinishBegin, Tag, Sequence, Reading, InPoll, Sequenced, FutureControl,
        ProducerControl, Words
  <2>4. Words'
    BY <1>24 DEF FinishBegin, Words, FutureControl, ProducerControl, Sequence, Reading, InPoll
  <2>5. Fresh'
    BY <1>24
    DEF FinishBegin, Fresh, FutureControl, ProducerControl, Sequence, Reading, InPoll, Words
  <2>6. QED
    BY <2>1, <2>2, <2>3, <2>4, <2>5
<1>25. CASE AcceptTake
  <2>1. FutureControl'
    BY <1>25 DEF AcceptTake, FutureControl, InPoll, Reading, Sequence, ProducerControl
  <2>2. ProducerControl'
    BY <1>25 DEF AcceptTake, ProducerControl, Reading, Sequence, FutureControl
  <2>3. Sequence'
    BY <1>25
    DEF AcceptTake, Sequence, Reading, InPoll, Sequenced, FutureControl, ProducerControl,
        Words
  <2>4. Words'
    BY <1>25 DEF AcceptTake, Words, FutureControl, ProducerControl, Sequence, Reading, InPoll
  <2>5. Fresh'
    BY <1>25
    DEF AcceptTake, Fresh, FutureControl, ProducerControl, Sequence, Reading, InPoll, Words
  <2>6. QED
    BY <2>1, <2>2, <2>3, <2>4, <2>5
<1>26. CASE UNCHANGED vars
  BY <1>26 DEF vars, FutureControl, ProducerControl, Sequence, Words, Fresh,
         Reading, InPoll, Sequenced
<1>27. QED
  BY <1>1, <1>2, <1>3, <1>4, <1>5, <1>6, <1>7, <1>8, <1>9, <1>10, <1>11,
     <1>12, <1>13, <1>14, <1>15, <1>16, <1>17, <1>18, <1>19, <1>20, <1>21,
     <1>22, <1>23, <1>24, <1>25, <1>26
  DEF Next, FutureContinue, ProducerContinue

\* Every step accounts for the clones: it moves one to another owner, or takes
\* it from its only owner and consumes it.
LEMMA ConsumedOnceStep == WakerInv /\ ConsumedOnce /\ [Next]_vars => ConsumedOnce'
<1> SUFFICES ASSUME WakerInv, ConsumedOnce, [Next]_vars, NEW c \in Clones
             PROVE  consumed'[c] = IF c \in (1 .. polls') \ Owned' THEN 1 ELSE 0
  BY DEF ConsumedOnce, Clones
<1> USE StateFacts, WakerAssumption
    DEF WakerInv, TypeOK, WordType, FutureType, ProducerType, Over, historyVars
<1>0. /\ consumed[c] = IF c \in (1 .. polls) \ Owned THEN 1 ELSE 0
      /\ c # Null /\ c \in Int /\ 1 <= c /\ polls \in Int
  BY DEF ConsumedOnce, Clones
<1>1. CASE PollClaim
  BY <1>0, <1>1
  DEF PollClaim, Owned, Fresh, Words, FutureControl, ProducerControl, Sequence, Reading,
      InPoll
<1>2. CASE FutureReload
  BY <1>0, <1>2
  DEF FutureReload, Owned, Fresh, Words, FutureControl, ProducerControl, Sequence, Reading,
      InPoll
<1>3. CASE PollStoreData
  BY <1>0, <1>3
  DEF PollStoreData, Owned, Fresh, Words, FutureControl, ProducerControl, Sequence, Reading,
      InPoll
<1>4. CASE PollStoreVtable
  <2> USE <1>0, <1>4 DEF PollStoreVtable, FutureStep
  <2>1. /\ future.old = word.vtable /\ future.clone = polls /\ word.vtable # polls
        /\ node # "freed" /\ producer.pc # "wake" /\ (word.vtable # Null => word.vtable <= polls)
    BY DEF Fresh, Words, FutureControl, ProducerControl, Sequence, Reading, InPoll
  <2>2. c \in Owned <=> c = polls \/ c = word.vtable
    BY <2>1 DEF Owned
  <2>3. /\ word'.vtable = polls /\ future'.clone = polls /\ future'.pc = "seal"
        /\ producer' = producer /\ polls' = polls
    BY <2>1
  <2>4. c \in Owned' <=> c = polls
    BY <2>1, <2>3 DEF Owned
  <2>5. consumed'[c] = IF c = word.vtable THEN consumed[c] + 1 ELSE consumed[c]
    BY <2>1 DEF Consume
  <2>6. QED
    BY <2>1, <2>2, <2>3, <2>4, <2>5
<1>5. CASE PollSeal
  <2> USE <1>0, <1>5 DEF PollSeal
  <2>1. future.clone = polls /\ word.vtable = polls /\ producer.pc # "wake" /\ node # "freed"
    BY DEF Fresh, Words, FutureControl, ProducerControl, Sequence, Reading, InPoll
  <2>2. c \in Owned <=> c = polls
    BY <2>1 DEF Owned
  <2>3. /\ word'.vtable = polls /\ future'.clone = Null /\ future'.pc = "idle" /\ ~Over(word'.state)
        /\ producer' = producer /\ polls' = polls /\ node' = node /\ consumed' = consumed
    BY <2>1, NextSeqCounts
  <2>4. c \in Owned' <=> c = polls
    BY <2>1, <2>3 DEF Owned
  <2>5. QED
    BY <2>1, <2>2, <2>3, <2>4
<1>6. CASE CancelExchange
  BY <1>0, <1>6
  DEF CancelExchange, FutureStep, Owned, Fresh, Words, FutureControl, ProducerControl,
      Sequence, Reading, InPoll
<1>7. CASE Push
  BY <1>0, <1>7
  DEF Push, Owned, Fresh, Words, FutureControl, ProducerControl, Sequence, Reading, InPoll
<1>8. CASE WaitPark
  BY <1>0, <1>8
  DEF WaitPark, FutureStep, Owned, Fresh, Words, FutureControl, ProducerControl, Sequence,
      Reading, InPoll
<1>9. CASE Park
  BY <1>0, <1>9
  DEF Park, Owned, Fresh, Words, FutureControl, ProducerControl, Sequence, Reading, InPoll
<1>10. CASE FutureEnds
  <2> USE <1>0, <1>10 DEF FutureEnds
  <2>1. /\ future'.clone = Null /\ future'.pc = "idle" /\ node' = "freed"
        /\ producer' = producer /\ word' = word /\ polls' = polls
    BY DEF FreeNode
  <2>2. consumed'[c] = IF c \in ({future.clone} \ {Null}) \cup StoredWaker
                       THEN consumed[c] + 1 ELSE consumed[c]
    BY DEF FreeNode, Consume
  <2>3. c \in Owned' <=> producer.pc = "wake" /\ c = producer.vtable
    BY <2>1 DEF Owned
  <2>4. CASE Over(word.state)
    <3>1. /\ future.pc \in {"claim", "seal", "cancel"} /\ node # "freed"
          /\ producer.pc = "wake" => producer.vtable # future.clone /\ producer.vtable # Null
          /\ future.clone = polls \/ future.clone = Null
      BY <2>4 DEF Fresh, Words, FutureControl, ProducerControl, Sequence, Reading, InPoll
    <3>2. c \in Owned <=> c = future.clone \/ (producer.pc = "wake" /\ c = producer.vtable)
      BY <2>4, <3>1 DEF Owned
    <3>3. StoredWaker = {}
      BY <2>4 DEF StoredWaker
    <3>4. QED
      BY <2>1, <2>2, <2>3, <3>1, <3>2, <3>3
  <2>5. CASE ~Over(word.state)
    <3>1. /\ future.pc = "wait" /\ word.state.tag = "Cancelled" /\ future.clone = Null
          /\ node # "freed" /\ producer.pc # "wake" /\ (word.vtable # Null => word.vtable <= polls)
      BY <2>5 DEF Fresh, Words, FutureControl, ProducerControl, Sequence, Reading, InPoll
    <3>2. c \in Owned <=> c = word.vtable
      BY <2>5, <3>1 DEF Owned
    <3>3. StoredWaker = {word.vtable} \ {Null}
      BY <3>1 DEF StoredWaker
    <3>4. QED
      BY <2>1, <2>2, <2>3, <3>1, <3>2, <3>3
  <2>6. QED
    BY <2>1, <2>2, <2>3, <2>4, <2>5
<1>11. CASE FinishReadData
  BY <1>0, <1>11
  DEF FinishReadData, Owned, Fresh, Words, FutureControl, ProducerControl, Sequence, Reading,
      InPoll
<1>12. CASE FinishReadVtable
  BY <1>0, <1>12
  DEF FinishReadVtable, Owned, Fresh, Words, FutureControl, ProducerControl, Sequence,
      Reading, InPoll
<1>13. CASE FinishExchange
  <2> USE <1>0, <1>13 DEF FinishExchange, ProducerStep
  <2>1. /\ future' = future /\ node' = node /\ polls' = polls /\ consumed' = consumed
        /\ word'.vtable = word.vtable /\ Over(word'.state) /\ ~Over(word.state)
        /\ producer.pc # "wake" /\ producer'.vtable = producer.vtable /\ node # "freed"
    BY DEF Sequence, Reading, ProducerControl, FutureControl
  <2>2. c \in Owned <=> c = future.clone \/ c = word.vtable
    BY <2>1 DEF Owned
  <2>3. CASE producer.pc = "exchange"
    <3>1. /\ producer.vtable = word.vtable /\ producer'.pc = "wake"
          /\ future.pc \notin {"data", "vtable", "seal"}
      BY <2>3 DEF FutureControl, Sequence, Reading
    <3>2. QED
      BY <2>1, <2>2, <3>1 DEF Owned
  <2>4. CASE producer.pc = "finish"
    <3>1. /\ producer'.pc = "done"
          /\ future.pc \in {"data", "vtable", "seal"}
      BY <2>4 DEF FutureControl, ProducerControl, FuturePC
    <3>2. future.pc = "seal" => word.vtable = future.clone
      BY DEF Words
    <3>3. QED
      BY <2>1, <2>2, <3>1, <3>2 DEF Owned
  <2>5. QED
    BY <2>1, <2>2, <2>3, <2>4
<1>14. CASE FinishReload
  BY <1>0, <1>14
  DEF FinishReload, Owned, Fresh, Words, FutureControl, ProducerControl, Sequence, Reading,
      InPoll
<1>15. CASE FinishCancelling
  BY <1>0, <1>15
  DEF FinishCancelling, ProducerStep, Owned, Fresh, Words, FutureControl, ProducerControl,
      Sequence, Reading, InPoll
<1>16. CASE Wake
  <2> USE <1>0, <1>16 DEF Wake, ProducerStep
  <2>1. /\ Over(word.state) /\ producer.vtable = word.vtable /\ producer.vtable # Null
        /\ producer.vtable <= polls /\ producer.vtable # future.clone
        /\ future.pc \notin {"data", "vtable"}
    BY DEF Fresh, Words, FutureControl, ProducerControl, Sequence, Reading, InPoll
  <2>2. c \in Owned <=> c = future.clone \/ c = producer.vtable
    BY <2>1 DEF Owned
  <2>3. /\ producer'.pc = "done" /\ future' = future /\ word' = word /\ polls' = polls
        /\ consumed'[c] = IF c = producer.vtable THEN consumed[c] + 1 ELSE consumed[c]
    BY DEF Consume
  <2>4. c \in Owned' <=> c = future.clone
    BY <2>1, <2>3 DEF Owned
  <2>5. QED
    BY <2>1, <2>2, <2>3, <2>4
<1>17. CASE AcceptExchange
  BY <1>0, <1>17
  DEF AcceptExchange, ProducerStep, Owned, Fresh, Words, FutureControl, ProducerControl,
      Sequence, Reading, InPoll
<1>18. CASE AcceptUnpark
  BY <1>0, <1>18
  DEF AcceptUnpark, ProducerStep, Owned, Fresh, Words, FutureControl, ProducerControl,
      Sequence, Reading, InPoll
<1>19. CASE PollBegin
  BY <1>0, <1>19
  DEF PollBegin, Owned, Fresh, Words, FutureControl, ProducerControl, Sequence, Reading,
      InPoll
<1>20. CASE Enqueue
  BY <1>0, <1>20
  DEF Enqueue, Owned, Fresh, Words, FutureControl, ProducerControl, Sequence, Reading, InPoll
<1>21. CASE EnterReady
  <2> USE <1>0, <1>21 DEF EnterReady
  <2>1. /\ future.clone = Null /\ word.state.tag = "Pending" /\ producer.pc = "idle"
        /\ word.vtable # Null => word.vtable <= polls
    BY DEF Fresh, Words, FutureControl, ProducerControl, Sequence, Reading, InPoll
  <2>2. c \in Owned <=> c = word.vtable
    BY <2>1 DEF Owned
  <2>3. /\ node' = "freed" /\ future' = future /\ producer' = producer /\ polls' = polls
        /\ consumed'[c] = IF c = word.vtable THEN consumed[c] + 1 ELSE consumed[c]
    BY <2>1 DEF FreeNode, Consume, StoredWaker
  <2>4. c \notin Owned'
    BY <2>1, <2>3 DEF Owned
  <2>5. QED
    BY <2>1, <2>2, <2>3, <2>4
<1>22. CASE CancelBegin
  BY <1>0, <1>22
  DEF CancelBegin, Owned, Fresh, Words, FutureControl, ProducerControl, Sequence, Reading,
      InPoll
<1>23. CASE ParkSpurious
  BY <1>0, <1>23
  DEF ParkSpurious, FutureStep, Owned, Fresh, Words, FutureControl, ProducerControl, Sequence,
      Reading, InPoll
<1>24. ASSUME NEW p \in BOOLEAN, FinishBegin(p)
       PROVE  consumed'[c] = IF c \in (1 .. polls') \ Owned' THEN 1 ELSE 0
  BY <1>0, <1>24
  DEF FinishBegin, Owned, Fresh, Words, FutureControl, ProducerControl, Sequence, Reading,
      InPoll
<1>25. CASE AcceptTake
  BY <1>0, <1>25
  DEF AcceptTake, Owned, Fresh, Words, FutureControl, ProducerControl, Sequence, Reading,
      InPoll
<1>26. CASE UNCHANGED vars
  BY <1>0, <1>26 DEF vars, Owned
<1>27. QED
  BY <1>1, <1>2, <1>3, <1>4, <1>5, <1>6, <1>7, <1>8, <1>9, <1>10, <1>11,
     <1>12, <1>13, <1>14, <1>15, <1>16, <1>17, <1>18, <1>19, <1>20, <1>21,
     <1>22, <1>23, <1>24, <1>25, <1>26
  DEF Next, FutureContinue, ProducerContinue

\* The inductive invariant holds: the two threads agree on who may touch the
\* words, and the sequence number tells the producer when they have changed.
THEOREM WakerInvariant == Spec => []WakerInv
<1>1. ASSUME Init PROVE WakerInv
  <2> USE <1>1, StateFacts, WakerAssumption DEF Init
  <2>1. word.state = Pending(0) /\ word.state.tag = "Pending" /\ word.state.seq = 0
    OBVIOUS
  <2>2. TypeOK
    <3>1. Null \in NoClone /\ 0 \in Nat
      BY DEF NoClone
    <3>2. word \in WordType
      BY <3>1 DEF WordType
    <3>3. future \in FutureType
      BY <3>1 DEF FutureType, FuturePC
    <3>4. producer \in ProducerType
      BY <3>1 DEF ProducerType, ProducerPC
    <3>5. polls \in 0 .. MaxPolls
      OBVIOUS
    <3>6. consumed \in [Clones -> Nat]
      OBVIOUS
    <3>7. QED
      BY <3>1, <3>2, <3>3, <3>4, <3>5, <3>6 DEF TypeOK
  <2>3. FutureControl /\ ProducerControl
    BY <2>1 DEF FutureControl, ProducerControl, InPoll, Reading, Over
  <2>4. Sequence /\ Words /\ Fresh
    BY <2>1 DEF Sequence, Words, Fresh, InPoll, Reading
  <2>5. QED
    BY <2>2, <2>3, <2>4 DEF WakerInv
<1>2. QED
  BY <1>1, WakerInvStep, PTL DEF Spec

\* finish() never wakes a torn waker, and poll() never drops one.
THEOREM WholeWaker == Spec => []NoTornWaker
<1>1. WakerInv => NoTornWaker
  BY DEF WakerInv, Words, NoTornWaker
<1>2. QED
  BY <1>1, WakerInvariant, PTL

\* A pending future whose finish is over had its latest waker woken.
THEOREM LatestWakerWoken == Spec => []LatestWoken
<1>1. WakerInv => LatestWoken
  BY DEF WakerInv, Words, FutureControl, ProducerControl, LatestWoken, Over
<1>2. QED
  BY <1>1, WakerInvariant, PTL

\* The producer does not touch a node that may be gone.
THEOREM FreedNodeUntouched == Spec => []NodeNotTouched
<1>1. WakerInv => NodeNotTouched
  BY DEF WakerInv, ProducerControl, Reading, NodeNotTouched
<1>2. QED
  BY <1>1, WakerInvariant, PTL

\* Neither thread reaches a panic of waker.rs.
THEOREM PanicsUnreachable == Spec => []NoUnreachable
<1>1. WakerInv => NoUnreachable
  BY DEF WakerInv, FutureControl, ProducerControl, Sequence, Reading, NoUnreachable, Over
<1>2. QED
  BY <1>1, WakerInvariant, PTL

\* Each clone of a waker is dropped or woken exactly once.
THEOREM EachWakerConsumedOnce == Spec => []ConsumedOnce
<1>1. Init => ConsumedOnce
  BY WakerAssumption DEF Init, ConsumedOnce, Clones
<1>2. QED
  BY <1>1, ConsumedOnceStep, WakerInvariant, PTL DEF Spec

\* Every step keeps the order of clones.
LEMMA StoredOlderStep == WakerInv /\ StoredOlder /\ [Next]_vars => StoredOlder'
<1> SUFFICES ASSUME WakerInv, StoredOlder, [Next]_vars PROVE StoredOlder'
  OBVIOUS
<1> USE DEF StoredOlder, InPoll, historyVars
<1>1. /\ polls \in Nat /\ (stored # Null => stored \in Nat)
      /\ future.pc = "seal" => future.clone = polls
      /\ future \in [pc: FuturePC, current: WakerState, clone: NoClone, old: NoClone]
  BY DEF WakerInv, TypeOK, Fresh, NoClone, Clones, FutureType
<1>2. CASE PollBegin
  BY <1>1, <1>2 DEF PollBegin
<1>3. CASE PollSeal
  BY <1>1, <1>3 DEF PollSeal
<1>4. CASE PollClaim \/ FutureReload \/ PollStoreData \/ PollStoreVtable
  BY <1>1, <1>4 DEF PollClaim, FutureReload, PollStoreData, PollStoreVtable, FutureStep
<1>5. CASE CancelExchange \/ Push \/ WaitPark \/ Park \/ ParkSpurious \/ CancelBegin
  BY <1>1, <1>5 DEF CancelExchange, Push, WaitPark, Park, ParkSpurious, CancelBegin, FutureStep
<1>6. CASE FutureEnds \/ EnterReady \/ Enqueue
  BY <1>1, <1>6 DEF FutureEnds, EnterReady, Enqueue, FreeNode
<1>7. CASE AcceptTake \/ \E p \in BOOLEAN : FinishBegin(p)
  BY <1>1, <1>7 DEF AcceptTake, FinishBegin
<1>8. CASE ProducerContinue
  BY <1>1, <1>8
  DEF ProducerContinue, FinishReadData, FinishReadVtable, FinishExchange, FinishReload,
      FinishCancelling, Wake, AcceptExchange, AcceptUnpark, ProducerStep
<1>9. CASE UNCHANGED vars
  BY <1>1, <1>9 DEF vars
<1>10. QED
  BY <1>2, <1>3, <1>4, <1>5, <1>6, <1>7, <1>8, <1>9 DEF Next, FutureContinue

\* Each step of the waker is a step of the tag or leaves it as it is: the exchanges
\* are the steps, and all other accesses stutter.
LEMMA WakerStep ==
  WakerInv /\ StoredOlder /\ [Next]_vars => [Tagged!Next]_(Tagged!vars)
<1> SUFFICES ASSUME WakerInv, StoredOlder, [Next]_vars PROVE [Tagged!Next]_(Tagged!vars)
  OBVIOUS
<1> USE DEF historyVars, TagSeen
<1>t. /\ word.state.tag \in Tag
      /\ word = [state |-> word.state, data |-> word.data, vtable |-> word.vtable,
                 thread |-> word.thread]
      /\ future \in [pc: FuturePC, current: WakerState, clone: NoClone, old: NoClone]
      /\ producer \in [pc: ProducerPC, current: WakerState, data: NoClone, vtable: NoClone,
                       poisoned: BOOLEAN, thread: BOOLEAN]
      /\ node \in {"private", "queued", "cancelling", "freed"}
      /\ stored \in NoClone /\ polls \in Nat
  BY StateFacts DEF WakerInv, TypeOK, WordType, FutureType, ProducerType
<1>s. ASSUME TagSeen' = TagSeen, (producer'.pc = "wake") <=> (producer.pc = "wake"),
             stored' = stored, woken' = woken
      PROVE  UNCHANGED Tagged!vars
  BY <1>s DEF Tagged!vars
<1>1. CASE PollClaim
  <2>1. future.pc = "claim" /\ word.state.tag = "Pending" /\ node \in {"private", "queued"}
    BY <1>1 DEF PollClaim, WakerInv, FutureControl, InPoll
  <2>2. word'.state.tag = "Storing" /\ UNCHANGED <<producer, node, stored, woken>>
    BY <1>1, <1>t DEF PollClaim, Storing
  <2>3. CASE node = "private"
    BY <2>2, <2>3, <1>s
  <2>4. CASE node = "queued"
    BY <2>1, <2>2, <2>4 DEF Tagged!Next, Tagged!Store, Tagged!Become
  <2>5. QED
    BY <2>1, <2>3, <2>4
<1>2. CASE PollSeal
  <2>1. /\ word.state.tag = "Storing" /\ node \in {"private", "queued"}
        /\ future.clone \in Clones \ {stored}
    BY <1>2, <1>t DEF PollSeal, WakerInv, FutureControl, InPoll, Fresh, NoClone, StoredOlder, Clones
  <2>2. /\ word'.state.tag = "Pending" /\ stored' = future.clone
        /\ UNCHANGED <<producer, node, woken>>
    BY <1>2, <1>t DEF PollSeal, Pending
  <2>3. CASE node = "private"
    BY <2>1, <2>2, <2>3 DEF Tagged!Next, Tagged!Enter
  <2>4. CASE node = "queued"
    BY <2>1, <2>2, <2>4 DEF Tagged!Next, Tagged!Stored, Tagged!Become
  <2>5. QED
    BY <2>1, <2>3, <2>4
<1>3. CASE FutureReload \/ PollStoreData \/ PollStoreVtable \/ PollBegin \/ CancelBegin
           \/ WaitPark \/ Park \/ ParkSpurious
  <2>1. word'.state = word.state /\ UNCHANGED <<producer, node, stored, woken>>
    BY <1>3, <1>t
    DEF FutureReload, PollStoreData, PollStoreVtable, PollBegin, CancelBegin, WaitPark, Park,
        ParkSpurious, FutureStep
  <2>2. QED
    BY <2>1, <1>s
<1>4. CASE Enqueue
  <2>1. word.state.tag = "Pending" /\ producer.pc = "idle"
    BY <1>4, <1>t DEF Enqueue, WakerInv, FutureControl, ProducerControl, Over
  <2>2. QED
    BY <1>4, <2>1 DEF Enqueue, Tagged!Next, Tagged!Enter, Tagged!Become
<1>5. CASE EnterReady
  BY <1>5 DEF EnterReady, FreeNode, Tagged!Next, Tagged!Enter, Tagged!Become
<1>6. CASE CancelExchange
  <2>1. node = "queued" /\ word.state.tag = "Pending"
    BY <1>6 DEF CancelExchange, FutureStep, WakerInv, FutureControl
  <2>2. word'.state.tag = "Cancelling" /\ UNCHANGED <<producer, node, stored, woken>>
    BY <1>6, <1>t DEF CancelExchange, FutureStep, Cancelling
  <2>3. QED
    BY <2>1, <2>2 DEF Tagged!Next, Tagged!StartCancel, Tagged!Become
<1>7. CASE Push
  <2>1. node = "queued" /\ node' = "cancelling" /\ UNCHANGED <<word, producer, stored, woken>>
    BY <1>7 DEF Push, WakerInv, FutureControl
  <2>2. QED
    BY <2>1, <1>s
<1>8. CASE FutureEnds
  <2>1. /\ node \in {"queued", "cancelling"}
        /\ word.state.tag \in {"Finished", "Poisoned", "Cancelled"}
    <3>1. CASE future.pc = "wait" /\ word.state.tag = "Cancelled"
      BY <3>1 DEF WakerInv, FutureControl
    <3>2. CASE future.pc \in {"claim", "seal", "cancel"} /\ Over(future.current)
      BY <3>2, <1>t DEF WakerInv, FutureControl, ProducerControl, InPoll, Over
    <3>3. QED
      BY <1>8, <3>1, <3>2 DEF FutureEnds
  <2>2. node' = "freed" /\ UNCHANGED <<word, producer, stored, woken>>
    BY <1>8 DEF FutureEnds, FreeNode
  <2>3. QED
    BY <2>1, <2>2 DEF Tagged!Next, Tagged!End, Tagged!Become
<1>9. CASE FinishReadData \/ FinishReadVtable \/ FinishReload \/ FinishCancelling
           \/ AcceptTake \/ AcceptUnpark \/ \E p \in BOOLEAN : FinishBegin(p)
  <2>1. /\ word'.state = word.state /\ UNCHANGED <<node, stored, woken>>
        /\ producer.pc # "wake" /\ producer'.pc # "wake"
    BY <1>9, <1>t
    DEF FinishReadData, FinishReadVtable, FinishReload, FinishCancelling, AcceptTake,
        AcceptUnpark, FinishBegin, ProducerStep
  <2>2. QED
    BY <2>1, <1>s
<1>10. CASE FinishExchange
  <2>1. /\ word'.state.tag \in {"Finished", "Poisoned"}
        /\ UNCHANGED <<node, stored, woken>> /\ producer.pc # "wake"
    BY <1>10, <1>t, StateFacts DEF FinishExchange, ProducerStep, Finished
  <2>2. node = "queued"
    BY <1>10 DEF FinishExchange, ProducerStep, WakerInv, ProducerControl, FutureControl, Sequence,
                 Reading
  <2>3. CASE producer.pc = "exchange"
    <3>1. word.state.tag = "Pending" /\ producer'.pc = "wake"
      BY <1>10, <1>t, <2>3 DEF FinishExchange, ProducerStep, WakerInv, Sequence, Reading
    <3>2. QED
      BY <2>1, <2>2, <3>1 DEF Tagged!Next, Tagged!Finish
  <2>4. CASE producer.pc = "finish"
    <3>1. word.state.tag = "Storing" /\ producer'.pc = "done"
      BY <1>10, <1>t, <2>4 DEF FinishExchange, ProducerStep
    <3>2. QED
      BY <2>1, <2>2, <3>1 DEF Tagged!Next, Tagged!Finish
  <2>5. QED
    BY <1>10, <2>3, <2>4 DEF FinishExchange, ProducerStep
<1>11. CASE Wake
  <2>1. /\ producer.pc = "wake" /\ producer'.pc = "done" /\ woken' = stored
        /\ UNCHANGED <<word, node, stored>>
    BY <1>11, <1>t DEF Wake, ProducerStep, WakerInv, Words
  <2>2. QED
    BY <2>1 DEF Tagged!Next, Tagged!Wake
<1>12. CASE AcceptExchange
  <2>1. /\ node = "cancelling" /\ word.state.tag = "Cancelling" /\ word'.state.tag = "Cancelled"
        /\ producer.pc # "wake" /\ producer'.pc # "wake" /\ UNCHANGED <<node, stored, woken>>
    BY <1>12, <1>t DEF AcceptExchange, ProducerStep, WakerInv, ProducerControl, Cancelled
  <2>2. QED
    BY <2>1 DEF Tagged!Next, Tagged!AcceptCancel, Tagged!Become
<1>13. CASE UNCHANGED vars
  BY <1>13, <1>s DEF vars
<1>14. QED
  BY <1>1, <1>2, <1>3, <1>4, <1>5, <1>6, <1>7, <1>8, <1>9, <1>10, <1>11, <1>12, <1>13
  DEF Next, FutureContinue, ProducerContinue

\* From outside the two words and the sequence number are a tag: the accesses of poll,
\* finish, start_cancel and accept_cancel are the steps that Semaphore takes them for.
THEOREM WakerImplemented == Spec => ImplementsWaker
<1>1. Init => Tagged!Init
  BY DEF Init, Tagged!Init, TagSeen
<1>2. Init => StoredOlder
  BY DEF Init, StoredOlder
<1>3. QED
  BY <1>1, <1>2, WakerStep, StoredOlderStep, WakerInvariant, PTL
  DEF Spec, ImplementsWaker, Tagged!Spec

=============================================================================
