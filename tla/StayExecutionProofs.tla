------------------------ MODULE StayExecutionProofs ------------------------
(***************************************************************************)
(* Theorems about the hotel stays of a selected plan, for any processes,   *)
(* any plan and any bound on trouble.  The parts of the inductive          *)
(* invariant are proved one after the other from lemmas that say, for one  *)
(* group of variables each, in which ways a step can change them.          *)
(***************************************************************************)
EXTENDS StayExecution, TLAPS

\* TypeOK in three parts.
RowsType ==
  /\ status \in [Intents -> WrittenStatuses]
  /\ holder \in [Intents -> Workers \cup {None}]
  /\ leaseLive \in [Intents -> BOOLEAN]
  /\ ref \in [Intents -> BOOLEAN]

WorldType ==
  /\ request \in [Intents -> {"NONE", "SENT", "DONE", "REFUSED"}]
  /\ asked \in [Intents -> Nat]
  /\ booking \in [Intents -> {"NONE", "CONFIRMED", "MISMATCH", "CANCELLED"}]
  /\ journey \in Seq(Intents \cup {Foreign})
  /\ connection \in Nat
  /\ recorded \in [Intents -> Nat]
  /\ checkpoint \in [Intents -> Nat \cup {None}]
  /\ based \in [Intents -> Nat \cup {None}]
  /\ lock \in Workers \cup {None}
  /\ trouble \in 0..MaxTrouble

CyclesType ==
  /\ pc \in [Workers -> NoItemPcs \cup PassPcs \cup ApplyPcs \cup LookupPcs]
  /\ todo \in [Workers -> SUBSET Intents]
  /\ item \in [Workers -> Intents \cup {None}]
  /\ \A w \in Workers : item[w] = None <=> pc[w] \in NoItemPcs
  /\ verdict \in [Workers -> {"NONE", "SUCCESS", "FAILURE", "LOST", "THROWN"}]
  /\ heads \in [Workers -> [journey : Nat, connection : Nat]]
  /\ again \in [Workers -> BOOLEAN]

LEMMA TypeParts == TypeOK <=> RowsType /\ WorldType /\ CyclesType
BY DEF TypeOK, RowsType, WorldType, CyclesType

\* Helpers of the actions keep the type of the cycles.
LEMMA MoveType ==
  ASSUME CyclesType, NEW w \in Workers, NEW label \in PassPcs \cup ApplyPcs \cup LookupPcs,
         pc[w] \notin NoItemPcs, Move(w, label)
  PROVE  CyclesType'
BY DEF CyclesType, Move, Goto, NoItemPcs, PassPcs, ApplyPcs, LookupPcs

LEMMA ReturnType ==
  ASSUME CyclesType, NEW w \in Workers, NEW label \in PassPcs \cup ApplyPcs \cup LookupPcs,
         NEW v \in {"SUCCESS", "FAILURE", "LOST", "THROWN"},
         pc[w] \notin NoItemPcs, Return(w, v, label)
  PROVE  CyclesType'
BY DEF CyclesType, Return, Goto, NoItemPcs, PassPcs, ApplyPcs, LookupPcs

LEMMA NextItemType ==
  ASSUME CyclesType, NEW w \in Workers, NEW loop \in NoItemPcs, NextItem(w, loop)
  PROVE  CyclesType'
BY DEF CyclesType, NextItem, Goto, NoHeads, NoItemPcs, PassPcs, ApplyPcs, LookupPcs

LEMMA TakeType ==
  ASSUME CyclesType, NEW w \in Workers, NEW i \in todo[w],
         NEW label \in PassPcs \cup ApplyPcs \cup LookupPcs, Take(w, i, label)
  PROVE  CyclesType'
BY StayValuesDiffer DEF CyclesType, Take, Goto, NoItemPcs, PassPcs, ApplyPcs, LookupPcs

\* A change of the journey keeps its type.
LEMMA JourneyType ==
  ASSUME WorldType, NEW e \in Intents \cup {Foreign}
  PROVE  Append(journey, e) \in Seq(Intents \cup {Foreign})
BY DEF WorldType

LEMMA LookupVerdictsType ==
  ASSUME NEW i \in Intents
  PROVE  LookupVerdicts(i) \subseteq {"SUCCESS", "FAILURE", "NONE"}
BY DEF LookupVerdicts

LEMMA OutcomeType == ASSUME NEW v PROVE OutcomeOf(v) \in WrittenStatuses
BY DEF OutcomeOf, WrittenStatuses

LEMMA TypeInit == Init => TypeOK
BY StayTrouble DEF Init, TypeOK, WrittenStatuses, NoItemPcs, NoHeads

\* A step keeps the types.
LEMMA TypeStep == TypeOK /\ [Next]_vars => TypeOK'
<1>. SUFFICES ASSUME TypeOK, [Next]_vars PROVE TypeOK'
  OBVIOUS
<1>a. RowsType /\ WorldType /\ CyclesType
  BY TypeParts
<1>b. SUFFICES RowsType' /\ WorldType' /\ CyclesType'
  BY TypeParts DEF TypeOK, RowsType, WorldType, CyclesType
<1>. USE StayTrouble DEF rows, provider, canonical, cycles
<1>0. CASE UNCHANGED vars
  BY <1>a, <1>0 DEF vars, RowsType, WorldType, CyclesType
<1>1. ASSUME NEW w \in Workers, StartCycle(w) PROVE RowsType' /\ WorldType' /\ CyclesType'
  <2>1. CyclesType'
    BY <1>a, <1>1, StayValuesDiffer DEF StartCycle, Goto, loadCandidates,
        NoRow, CyclesType, NoItemPcs, PassPcs, ApplyPcs, LookupPcs
  <2>2. RowsType'
    BY <1>1, <1>a DEF StartCycle, Goto, loadCandidates, NoRow, RowsType,
        WrittenStatuses
  <2>3. WorldType'
    BY <1>1, <1>a DEF StartCycle, Goto, loadCandidates, NoRow, WorldType
  <2>. QED  BY <2>1, <2>2, <2>3
<1>2. ASSUME NEW w \in Workers, SkipCandidate(w) PROVE RowsType' /\ WorldType' /\ CyclesType'
  <2>1. CyclesType'
    BY <1>a, <1>2, StayValuesDiffer DEF SkipCandidate, CyclesType, NoItemPcs,
        PassPcs, ApplyPcs, LookupPcs
  <2>2. RowsType'
    BY <1>2, <1>a DEF SkipCandidate, RowsType, WrittenStatuses
  <2>3. WorldType'
    BY <1>2, <1>a DEF SkipCandidate, WorldType
  <2>. QED  BY <2>1, <2>2, <2>3
<1>3. ASSUME NEW w \in Workers, LeftoverPrepared(w) PROVE RowsType' /\ WorldType' /\ CyclesType'
  <2>1. CyclesType'
    BY <1>a, <1>3, TakeType DEF LeftoverPrepared, CyclesType, NoItemPcs,
        PassPcs, ApplyPcs, LookupPcs
  <2>2. RowsType'
    BY <1>3, <1>a DEF LeftoverPrepared, Take, Goto, RowsType,
        WrittenStatuses, CyclesType
  <2>3. WorldType'
    BY <1>3, <1>a DEF LeftoverPrepared, Take, Goto, WorldType
  <2>. QED  BY <2>1, <2>2, <2>3
<1>4. ASSUME NEW w \in Workers, createPreparedExecutionAttempt(w) PROVE RowsType' /\ WorldType' /\ CyclesType'
  <2>1. CyclesType'
    BY <1>a, <1>4, TakeType DEF createPreparedExecutionAttempt, NoRow,
        CyclesType, NoItemPcs, PassPcs, ApplyPcs, LookupPcs
  <2>2. RowsType'
    BY <1>4, <1>a DEF createPreparedExecutionAttempt, NoRow, Take, Goto,
        RowsType, WrittenStatuses, CyclesType
  <2>3. WorldType'
    BY <1>4, <1>a DEF createPreparedExecutionAttempt, NoRow, Take, Goto,
        WorldType
  <2>. QED  BY <2>1, <2>2, <2>3
<1>5. ASSUME NEW w \in Workers, claimPrepared(w) PROVE RowsType' /\ WorldType' /\ CyclesType'
  <2>0. item[w] \in Intents
    BY <1>a, <1>5 DEF claimPrepared, CyclesType, NoItemPcs
  <2>1. CyclesType'
    BY <1>a, <1>5, MoveType, NextItemType DEF claimPrepared, CyclesType,
        NoItemPcs, PassPcs, ApplyPcs, LookupPcs
  <2>2. RowsType'
    BY <1>5, <1>a, <2>0 DEF claimPrepared, Move, NextItem, Goto, NoHeads,
        RowsType, WrittenStatuses
  <2>3. WorldType'
    BY <1>5, <1>a, <2>0 DEF claimPrepared, Move, NextItem, Goto, NoHeads,
        WorldType
  <2>. QED  BY <2>1, <2>2, <2>3
<1>6. ASSUME NEW w \in Workers, GateDenies(w) PROVE RowsType' /\ WorldType' /\ CyclesType'
  <2>0. item[w] \in Intents
    BY <1>a, <1>6 DEF GateDenies, CyclesType, NoItemPcs
  <2>1. CyclesType'
    BY <1>a, <1>6, NextItemType DEF GateDenies, CyclesType, NoItemPcs,
        PassPcs, ApplyPcs, LookupPcs
  <2>2. RowsType'
    BY <1>6, <1>a, <2>0 DEF GateDenies, transitionExecutionAttempt, NextItem,
        Applies, Goto, NoHeads, RowsType, WrittenStatuses
  <2>3. WorldType'
    BY <1>6, <1>a, <2>0 DEF GateDenies, transitionExecutionAttempt, NextItem,
        Applies, Goto, NoHeads, WorldType
  <2>. QED  BY <2>1, <2>2, <2>3
<1>7. ASSUME NEW w \in Workers, GateAllows(w) PROVE RowsType' /\ WorldType' /\ CyclesType'
  <2>0. item[w] \in Intents
    BY <1>a, <1>7 DEF GateAllows, CyclesType, NoItemPcs
  <2>1. CyclesType'
    BY <1>a, <1>7, MoveType DEF GateAllows, CyclesType, NoItemPcs, PassPcs,
        ApplyPcs, LookupPcs
  <2>2. RowsType'
    BY <1>7, <1>a, <2>0 DEF GateAllows, Revision, Move, Goto, RowsType,
        WrittenStatuses
  <2>3. WorldType'
    BY <1>7, <1>a, <2>0 DEF GateAllows, Revision, Move, Goto, WorldType
  <2>. QED  BY <2>1, <2>2, <2>3
<1>8. ASSUME NEW w \in Workers, EnterDispatching(w) PROVE RowsType' /\ WorldType' /\ CyclesType'
  <2>0. item[w] \in Intents
    BY <1>a, <1>8 DEF EnterDispatching, CyclesType, NoItemPcs
  <2>1. CyclesType'
    BY <1>a, <1>8, MoveType, NextItemType DEF EnterDispatching, CyclesType,
        NoItemPcs, PassPcs, ApplyPcs, LookupPcs
  <2>2. RowsType'
    BY <1>8, <1>a, <2>0 DEF EnterDispatching, transitionExecutionAttempt,
        Applies, Move, NextItem, Goto, NoHeads, RowsType, WrittenStatuses
  <2>3. WorldType'
    BY <1>8, <1>a, <2>0 DEF EnterDispatching, transitionExecutionAttempt,
        Applies, Move, NextItem, Goto, NoHeads, WorldType
  <2>. QED  BY <2>1, <2>2, <2>3
<1>9. ASSUME NEW w \in Workers, QuoteRefused(w) PROVE RowsType' /\ WorldType' /\ CyclesType'
  <2>1. CyclesType'
    BY <1>a, <1>9, ReturnType DEF QuoteRefused, CyclesType, NoItemPcs,
        PassPcs, ApplyPcs, LookupPcs
  <2>2. RowsType'
    BY <1>9, <1>a DEF QuoteRefused, Return, Goto, RowsType, WrittenStatuses
  <2>3. WorldType'
    BY <1>9, <1>a DEF QuoteRefused, Return, Goto, WorldType
  <2>. QED  BY <2>1, <2>2, <2>3
<1>10. ASSUME NEW w \in Workers, checkpointRequestRef(w) PROVE RowsType' /\ WorldType' /\ CyclesType'
  <2>1. CyclesType'
    BY <1>a, <1>10, MoveType DEF checkpointRequestRef, CyclesType, NoItemPcs,
        PassPcs, ApplyPcs, LookupPcs
  <2>2. RowsType'
    BY <1>10, <1>a DEF checkpointRequestRef, CheckpointApplies,
        WriteReference, Move, Goto, RowsType, WrittenStatuses
  <2>3. WorldType'
    BY <1>10, <1>a DEF checkpointRequestRef, CheckpointApplies,
        WriteReference, Move, Goto, WorldType
  <2>. QED  BY <2>1, <2>2, <2>3
<1>11. ASSUME NEW w \in Workers, CheckpointFails(w) PROVE RowsType' /\ WorldType' /\ CyclesType'
  <2>1. CyclesType'
    BY <1>a, <1>11, ReturnType DEF CheckpointFails, CyclesType, NoItemPcs,
        PassPcs, ApplyPcs, LookupPcs
  <2>2. RowsType'
    BY <1>11, <1>a DEF CheckpointFails, CheckpointApplies, WriteReference,
        Return, Goto, RowsType, WrittenStatuses
  <2>3. WorldType'
    BY <1>11, <1>a DEF CheckpointFails, CheckpointApplies, WriteReference,
        Return, Goto, WorldType
  <2>. QED  BY <2>1, <2>2, <2>3
<1>12. ASSUME NEW w \in Workers, Send(w) PROVE RowsType' /\ WorldType' /\ CyclesType'
  <2>0. item[w] \in Intents
    BY <1>a, <1>12 DEF Send, CyclesType, NoItemPcs
  <2>1. CyclesType'
    BY <1>a, <1>12, MoveType DEF Send, CyclesType, NoItemPcs, PassPcs,
        ApplyPcs, LookupPcs
  <2>2. RowsType'
    BY <1>12, <1>a, <2>0 DEF Send, Move, Goto, RowsType, WrittenStatuses
  <2>3. WorldType'
    BY <1>12, <1>a, <2>0 DEF Send, Move, Goto, WorldType
  <2>. QED  BY <2>1, <2>2, <2>3
<1>13. ASSUME NEW w \in Workers, Answered(w) PROVE RowsType' /\ WorldType' /\ CyclesType'
  <2>0. item[w] \in Intents
    BY <1>a, <1>13 DEF Answered, CyclesType, NoItemPcs
  <2>1. CyclesType'
    BY <1>a, <1>13, MoveType, ReturnType DEF Answered, CyclesType, NoItemPcs,
        PassPcs, ApplyPcs, LookupPcs
  <2>2. RowsType'
    BY <1>13, <1>a, <2>0 DEF Answered, Move, Return, Goto, RowsType,
        WrittenStatuses
  <2>3. WorldType'
    BY <1>13, <1>a, <2>0 DEF Answered, Move, Return, Goto, WorldType
  <2>. QED  BY <2>1, <2>2, <2>3
<1>14. ASSUME NEW w \in Workers, AnswerLost(w) PROVE RowsType' /\ WorldType' /\ CyclesType'
  <2>1. CyclesType'
    BY <1>a, <1>14, ReturnType DEF AnswerLost, CyclesType, NoItemPcs,
        PassPcs, ApplyPcs, LookupPcs
  <2>2. RowsType'
    BY <1>14, <1>a DEF AnswerLost, Return, Goto, RowsType, WrittenStatuses
  <2>3. WorldType'
    BY <1>14, <1>a DEF AnswerLost, Return, Goto, WorldType
  <2>. QED  BY <2>1, <2>2, <2>3
<1>15. ASSUME NEW w \in Workers, Retrieve(w) PROVE RowsType' /\ WorldType' /\ CyclesType'
  <2>0. item[w] \in Intents
    BY <1>a, <1>15 DEF Retrieve, CyclesType, NoItemPcs
  <2>1. CyclesType'
    BY <1>a, <1>15, ReturnType DEF Retrieve, CyclesType, NoItemPcs, PassPcs,
        ApplyPcs, LookupPcs
  <2>2. RowsType'
    BY <1>15, <1>a, <2>0 DEF Retrieve, Return, Goto, RowsType,
        WrittenStatuses
  <2>3. WorldType'
    BY <1>15, <1>a, <2>0 DEF Retrieve, Return, Goto, WorldType
  <2>. QED  BY <2>1, <2>2, <2>3
<1>16. ASSUME NEW w \in Workers, DispatcherThrows(w) PROVE RowsType' /\ WorldType' /\ CyclesType'
  <2>1. CyclesType'
    BY <1>a, <1>16, ReturnType DEF DispatcherThrows, CyclesType, NoItemPcs,
        PassPcs, ApplyPcs, LookupPcs
  <2>2. RowsType'
    BY <1>16, <1>a DEF DispatcherThrows, Return, Goto, RowsType,
        WrittenStatuses
  <2>3. WorldType'
    BY <1>16, <1>a DEF DispatcherThrows, Return, Goto, WorldType
  <2>. QED  BY <2>1, <2>2, <2>3
<1>17. ASSUME NEW w \in Workers, Record(w) PROVE RowsType' /\ WorldType' /\ CyclesType'
  <2>0. item[w] \in Intents
    BY <1>a, <1>17 DEF Record, CyclesType, NoItemPcs
  <2>1. CyclesType'
    BY <1>a, <1>17, NextItemType DEF Record, CyclesType, NoItemPcs, PassPcs,
        ApplyPcs, LookupPcs
  <2>2. RowsType'
    BY <1>17, <1>a, <2>0 DEF Record, OutcomeOf, transitionExecutionAttempt,
        Applies, NextItem, Goto, NoHeads, RowsType, WrittenStatuses
  <2>3. WorldType'
    BY <1>17, <1>a, <2>0 DEF Record, OutcomeOf, transitionExecutionAttempt,
        Applies, NextItem, Goto, NoHeads, WorldType
  <2>. QED  BY <2>1, <2>2, <2>3
<1>18. ASSUME NEW w \in Workers, StartApplying(w) PROVE RowsType' /\ WorldType' /\ CyclesType'
  <2>1. CyclesType'
    BY <1>a, <1>18, StayValuesDiffer DEF StartApplying, Goto, CyclesType,
        NoItemPcs, PassPcs, ApplyPcs, LookupPcs
  <2>2. RowsType'
    BY <1>18, <1>a DEF StartApplying, Goto, RowsType, WrittenStatuses
  <2>3. WorldType'
    BY <1>18, <1>a DEF StartApplying, Goto, WorldType
  <2>. QED  BY <2>1, <2>2, <2>3
<1>19. ASSUME NEW w \in Workers, AlreadyApplied(w) PROVE RowsType' /\ WorldType' /\ CyclesType'
  <2>1. CyclesType'
    BY <1>a, <1>19, StayValuesDiffer DEF AlreadyApplied, CyclesType,
        NoItemPcs, PassPcs, ApplyPcs, LookupPcs
  <2>2. RowsType'
    BY <1>19, <1>a DEF AlreadyApplied, RowsType, WrittenStatuses
  <2>3. WorldType'
    BY <1>19, <1>a DEF AlreadyApplied, WorldType
  <2>. QED  BY <2>1, <2>2, <2>3
<1>20. ASSUME NEW w \in Workers, TakeObserved(w) PROVE RowsType' /\ WorldType' /\ CyclesType'
  <2>1. CyclesType'
    BY <1>a, <1>20, TakeType DEF TakeObserved, CyclesType, NoItemPcs,
        PassPcs, ApplyPcs, LookupPcs
  <2>2. RowsType'
    BY <1>20, <1>a DEF TakeObserved, Take, Goto, RowsType, WrittenStatuses,
        CyclesType
  <2>3. WorldType'
    BY <1>20, <1>a DEF TakeObserved, Take, Goto, WorldType
  <2>. QED  BY <2>1, <2>2, <2>3
<1>21. ASSUME NEW w \in Workers, ItemExists(w) PROVE RowsType' /\ WorldType' /\ CyclesType'
  <2>0. item[w] \in Intents
    BY <1>a, <1>21 DEF ItemExists, CyclesType, NoItemPcs
  <2>1. CyclesType'
    BY <1>a, <1>21, MoveType DEF ItemExists, CyclesType, NoItemPcs, PassPcs,
        ApplyPcs, LookupPcs
  <2>2. RowsType'
    BY <1>21, <1>a, <2>0 DEF ItemExists, Move, Goto, RowsType,
        WrittenStatuses
  <2>3. WorldType'
    BY <1>21, <1>a, <2>0 DEF ItemExists, Move, Goto, WorldType
  <2>. QED  BY <2>1, <2>2, <2>3
<1>22. ASSUME NEW w \in Workers, loadHeads(w) PROVE RowsType' /\ WorldType' /\ CyclesType'
  <2>0. item[w] \in Intents
    BY <1>a, <1>22 DEF loadHeads, CyclesType, NoItemPcs
  <2>1. CyclesType'
    BY <1>a, <1>22, StayValuesDiffer DEF loadHeads, Revision, Goto,
        WorldType, CyclesType, NoItemPcs, PassPcs, ApplyPcs, LookupPcs
  <2>2. RowsType'
    BY <1>22, <1>a, <2>0 DEF loadHeads, Revision, Goto, RowsType,
        WrittenStatuses
  <2>3. WorldType'
    BY <1>22, <1>a, <2>0 DEF loadHeads, Revision, Goto, WorldType
  <2>. QED  BY <2>1, <2>2, <2>3
<1>23. ASSUME NEW w \in Workers, observeExternalRecord(w) PROVE RowsType' /\ WorldType' /\ CyclesType'
  <2>0. item[w] \in Intents
    BY <1>a, <1>23 DEF observeExternalRecord, CyclesType, NoItemPcs
  <2>1. CyclesType'
    BY <1>a, <1>23, MoveType, NextItemType DEF observeExternalRecord,
        CyclesType, NoItemPcs, PassPcs, ApplyPcs, LookupPcs
  <2>2. RowsType'
    BY <1>23, <1>a, <2>0 DEF observeExternalRecord, Move, NextItem, Goto,
        NoHeads, RowsType, WrittenStatuses
  <2>3. WorldType'
    BY <1>23, <1>a, <2>0 DEF observeExternalRecord, Move, NextItem, Goto,
        NoHeads, WorldType
  <2>. QED  BY <2>1, <2>2, <2>3
<1>24. ASSUME NEW w \in Workers, attachObservedStay(w) PROVE RowsType' /\ WorldType' /\ CyclesType'
  <2>0. item[w] \in Intents
    BY <1>a, <1>24 DEF attachObservedStay, CyclesType, NoItemPcs
  <2>1. CyclesType'
    BY <1>a, <1>24, MoveType, NextItemType DEF attachObservedStay,
        CyclesType, NoItemPcs, PassPcs, ApplyPcs, LookupPcs
  <2>2. RowsType'
    BY <1>24, <1>a, <2>0 DEF attachObservedStay, Revision, Move, NextItem,
        Goto, NoHeads, RowsType, WrittenStatuses
  <2>j. journey' = journey \/ \E e \in Intents \cup {Foreign} : journey' = Append(journey, e)
    BY <1>24, <2>0 DEF attachObservedStay
  <2>k. journey' \in Seq(Intents \cup {Foreign})
    BY <1>a, <2>j, JourneyType DEF WorldType
  <2>3. WorldType'
    BY <1>24, <1>a, <2>0, <2>k DEF attachObservedStay, WorldType
  <2>. QED  BY <2>1, <2>2, <2>3
<1>25. ASSUME NEW w \in Workers, applyObservedStayCancellation(w) PROVE RowsType' /\ WorldType' /\ CyclesType'
  <2>0. item[w] \in Intents
    BY <1>a, <1>25 DEF applyObservedStayCancellation, CyclesType, NoItemPcs
  <2>1. CyclesType'
    BY <1>a, <1>25, MoveType, NextItemType DEF applyObservedStayCancellation,
        CyclesType, NoItemPcs, PassPcs, ApplyPcs, LookupPcs
  <2>2. RowsType'
    BY <1>25, <1>a, <2>0 DEF applyObservedStayCancellation, Move, NextItem,
        Revision, Goto, NoHeads, RowsType, WrittenStatuses
  <2>j. journey' = journey \/ \E e \in Intents \cup {Foreign} : journey' = Append(journey, e)
    BY <1>25, <2>0 DEF applyObservedStayCancellation
  <2>k. journey' \in Seq(Intents \cup {Foreign})
    BY <1>a, <2>j, JourneyType DEF WorldType
  <2>3. WorldType'
    BY <1>25, <1>a, <2>0, <2>k DEF applyObservedStayCancellation, WorldType
  <2>. QED  BY <2>1, <2>2, <2>3
<1>26. ASSUME NEW w \in Workers, ApplyRefused(w) PROVE RowsType' /\ WorldType' /\ CyclesType'
  <2>1. CyclesType'
    BY <1>a, <1>26, NextItemType DEF ApplyRefused, CyclesType, NoItemPcs,
        PassPcs, ApplyPcs, LookupPcs
  <2>2. RowsType'
    BY <1>26, <1>a DEF ApplyRefused, Trouble, NextItem, Goto, NoHeads,
        RowsType, WrittenStatuses
  <2>3. WorldType'
    BY <1>26, <1>a DEF ApplyRefused, Trouble, NextItem, Goto, NoHeads,
        WorldType
  <2>. QED  BY <2>1, <2>2, <2>3
<1>27. ASSUME NEW w \in Workers, mintContinuationCheckpoints(w) PROVE RowsType' /\ WorldType' /\ CyclesType'
  <2>0. item[w] \in Intents
    BY <1>a, <1>27 DEF mintContinuationCheckpoints, CyclesType, NoItemPcs
  <2>1. CyclesType'
    BY <1>a, <1>27, NextItemType DEF mintContinuationCheckpoints, CyclesType,
        NoItemPcs, PassPcs, ApplyPcs, LookupPcs
  <2>2. RowsType'
    BY <1>27, <1>a, <2>0 DEF mintContinuationCheckpoints, Revision, NextItem,
        Goto, NoHeads, RowsType, WrittenStatuses
  <2>3. WorldType'
    BY <1>27, <1>a, <2>0 DEF mintContinuationCheckpoints, Revision, NextItem,
        Goto, NoHeads, WorldType
  <2>. QED  BY <2>1, <2>2, <2>3
<1>28. ASSUME NEW w \in Workers, EndCycle(w) PROVE RowsType' /\ WorldType' /\ CyclesType'
  <2>1. CyclesType'
    BY <1>a, <1>28, StayValuesDiffer DEF EndCycle, ReleaseLock, Move, Goto,
        CyclesType, NoItemPcs, PassPcs, ApplyPcs, LookupPcs
  <2>2. RowsType'
    BY <1>28, <1>a DEF EndCycle, ReleaseLock, Move, Goto, RowsType,
        WrittenStatuses
  <2>3. WorldType'
    BY <1>28, <1>a DEF EndCycle, ReleaseLock, Move, Goto, WorldType
  <2>. QED  BY <2>1, <2>2, <2>3
<1>29. ASSUME NEW w \in Workers, StartReconciliation(w) PROVE RowsType' /\ WorldType' /\ CyclesType'
  <2>1. CyclesType'
    BY <1>a, <1>29, StayValuesDiffer DEF StartReconciliation, Goto,
        CyclesType, NoItemPcs, PassPcs, ApplyPcs, LookupPcs
  <2>2. RowsType'
    BY <1>29, <1>a DEF StartReconciliation, Goto, RowsType, WrittenStatuses
  <2>3. WorldType'
    BY <1>29, <1>a DEF StartReconciliation, Goto, WorldType
  <2>. QED  BY <2>1, <2>2, <2>3
<1>30. ASSUME NEW w \in Workers, claimForReconciliation(w) PROVE RowsType' /\ WorldType' /\ CyclesType'
  <2>1. CyclesType'
    BY <1>a, <1>30, TakeType DEF claimForReconciliation, CyclesType,
        NoItemPcs, PassPcs, ApplyPcs, LookupPcs
  <2>2. PICK i \in Intents :
           \/ /\ status' = [status EXCEPT ![i] = "RECONCILIATION_REQUIRED"]
              /\ holder' = [holder EXCEPT ![i] = w]
              /\ leaseLive' = [leaseLive EXCEPT ![i] = TRUE]
           \/ UNCHANGED <<status, holder, leaseLive>>
    BY <1>a, <1>30 DEF claimForReconciliation, CyclesType
  <2>5. ref' = ref
    BY <1>30 DEF claimForReconciliation
  <2>4. RowsType'
    BY <1>a, <2>2, <2>5 DEF RowsType, WrittenStatuses
  <2>3. WorldType'
    BY <1>30, <1>a DEF claimForReconciliation, Take, Goto, WorldType
  <2>. QED  BY <2>1, <2>2, <2>3, <2>4
<1>31. ASSUME NEW w \in Workers, LookupAnswered(w) PROVE RowsType' /\ WorldType' /\ CyclesType'
  <2>0. item[w] \in Intents
    BY <1>a, <1>31 DEF LookupAnswered, CyclesType, NoItemPcs
  <2>1. CyclesType'
    BY <1>a, <1>31, <2>0, LookupVerdictsType, ReturnType, NextItemType DEF
        LookupAnswered, CyclesType, NoItemPcs, PassPcs, ApplyPcs, LookupPcs
  <2>2. RowsType'
    BY <1>31, <1>a, <2>0 DEF LookupAnswered, NextItem, Return, Goto, NoHeads,
        RowsType, WrittenStatuses
  <2>3. WorldType'
    BY <1>31, <1>a, <2>0 DEF LookupAnswered, NextItem, Return, Goto, NoHeads,
        WorldType
  <2>. QED  BY <2>1, <2>2, <2>3
<1>32. ASSUME NEW w \in Workers, LookupUnknown(w) PROVE RowsType' /\ WorldType' /\ CyclesType'
  <2>1. CyclesType'
    BY <1>a, <1>32, NextItemType DEF LookupUnknown, CyclesType, NoItemPcs,
        PassPcs, ApplyPcs, LookupPcs
  <2>2. RowsType'
    BY <1>32, <1>a DEF LookupUnknown, NextItem, Goto, NoHeads, RowsType,
        WrittenStatuses
  <2>3. WorldType'
    BY <1>32, <1>a DEF LookupUnknown, NextItem, Goto, NoHeads, WorldType
  <2>. QED  BY <2>1, <2>2, <2>3
<1>33. ASSUME NEW w \in Workers, Settle(w) PROVE RowsType' /\ WorldType' /\ CyclesType'
  <2>0. item[w] \in Intents
    BY <1>a, <1>33 DEF Settle, CyclesType, NoItemPcs
  <2>1. CyclesType'
    BY <1>a, <1>33, NextItemType DEF Settle, CyclesType, NoItemPcs, PassPcs,
        ApplyPcs, LookupPcs
  <2>2. RowsType'
    BY <1>33, <1>a, <2>0 DEF Settle, transitionExecutionAttempt, OutcomeOf,
        NextItem, Applies, Goto, NoHeads, RowsType, WrittenStatuses
  <2>3. WorldType'
    BY <1>33, <1>a, <2>0 DEF Settle, transitionExecutionAttempt, OutcomeOf,
        NextItem, Applies, Goto, NoHeads, WorldType
  <2>. QED  BY <2>1, <2>2, <2>3
<1>34. ASSUME NEW w \in Workers, Stop(w) PROVE RowsType' /\ WorldType' /\ CyclesType'
  <2>1. CyclesType'
    BY <1>a, <1>34, NextItemType DEF Stop, CyclesType, NoItemPcs, PassPcs,
        ApplyPcs, LookupPcs
  <2>2. RowsType'
    BY <1>34, <1>a DEF Stop, Trouble, ReleaseLock, NextItem, Goto, NoHeads,
        RowsType, WrittenStatuses
  <2>3. WorldType'
    BY <1>34, <1>a DEF Stop, Trouble, ReleaseLock, NextItem, Goto, NoHeads,
        WorldType
  <2>. QED  BY <2>1, <2>2, <2>3
<1>35. ASSUME NEW w \in Workers, LoseSession(w) PROVE RowsType' /\ WorldType' /\ CyclesType'
  <2>1. CyclesType'
    BY <1>a, <1>35, StayValuesDiffer DEF LoseSession, Trouble, CyclesType,
        NoItemPcs, PassPcs, ApplyPcs, LookupPcs
  <2>2. RowsType'
    BY <1>35, <1>a DEF LoseSession, Trouble, RowsType, WrittenStatuses
  <2>3. WorldType'
    BY <1>35, <1>a DEF LoseSession, Trouble, WorldType
  <2>. QED  BY <2>1, <2>2, <2>3
<1>36. ASSUME NEW i \in Intents, LeaseLapses(i) PROVE RowsType' /\ WorldType' /\ CyclesType'
  <2>1. CyclesType'
    BY <1>a, <1>36 DEF LeaseLapses, CyclesType, NoItemPcs, PassPcs, ApplyPcs,
        LookupPcs
  <2>2. RowsType'
    BY <1>36, <1>a DEF LeaseLapses, RowsType, WrittenStatuses
  <2>3. WorldType'
    BY <1>36, <1>a DEF LeaseLapses, WorldType
  <2>. QED  BY <2>1, <2>2, <2>3
<1>37. ASSUME NEW i \in Intents, CheckpointExpires(i) PROVE RowsType' /\ WorldType' /\ CyclesType'
  <2>1. CyclesType'
    BY <1>a, <1>37 DEF CheckpointExpires, CyclesType, NoItemPcs, PassPcs,
        ApplyPcs, LookupPcs
  <2>2. RowsType'
    BY <1>37, <1>a DEF CheckpointExpires, RowsType, WrittenStatuses
  <2>3. WorldType'
    BY <1>37, <1>a DEF CheckpointExpires, WorldType
  <2>. QED  BY <2>1, <2>2, <2>3
<1>38. ASSUME NEW i \in Intents, ProviderActs(i) PROVE RowsType' /\ WorldType' /\ CyclesType'
  <2>1. CyclesType'
    BY <1>a, <1>38 DEF ProviderActs, CyclesType, NoItemPcs, PassPcs,
        ApplyPcs, LookupPcs
  <2>2. RowsType'
    BY <1>38, <1>a DEF ProviderActs, RowsType, WrittenStatuses
  <2>3. WorldType'
    BY <1>38, <1>a DEF ProviderActs, WorldType
  <2>. QED  BY <2>1, <2>2, <2>3
<1>39. ASSUME NEW i \in Intents, SupplierCancels(i) PROVE RowsType' /\ WorldType' /\ CyclesType'
  <2>1. CyclesType'
    BY <1>a, <1>39 DEF SupplierCancels, Trouble, CyclesType, NoItemPcs,
        PassPcs, ApplyPcs, LookupPcs
  <2>2. RowsType'
    BY <1>39, <1>a DEF SupplierCancels, Trouble, RowsType, WrittenStatuses
  <2>3. WorldType'
    BY <1>39, <1>a DEF SupplierCancels, Trouble, WorldType
  <2>. QED  BY <2>1, <2>2, <2>3
<1>40. CASE ForeignChange
  <2>1. CyclesType'
    BY <1>a, <1>40 DEF ForeignChange, Trouble, CyclesType, NoItemPcs,
        PassPcs, ApplyPcs, LookupPcs
  <2>2. RowsType'
    BY <1>40, <1>a DEF ForeignChange, Trouble, RowsType, WrittenStatuses
  <2>j. journey' = journey \/ \E e \in Intents \cup {Foreign} : journey' = Append(journey, e)
    BY <1>40 DEF ForeignChange
  <2>k. journey' \in Seq(Intents \cup {Foreign})
    BY <1>a, <2>j, JourneyType DEF WorldType
  <2>3. WorldType'
    BY <1>40, <1>a, <2>k DEF ForeignChange, Trouble, WorldType
  <2>. QED  BY <2>1, <2>2, <2>3
<1>. QED
  BY <1>0, <1>1, <1>2, <1>3, <1>4, <1>5, <1>6, <1>7, <1>8, <1>9, <1>10,
      <1>11, <1>12, <1>13, <1>14, <1>15, <1>16, <1>17, <1>18, <1>19, <1>20,
      <1>21, <1>22, <1>23, <1>24, <1>25, <1>26, <1>27, <1>28, <1>29, <1>30,
      <1>31, <1>32, <1>33, <1>34, <1>35, <1>36, <1>37, <1>38, <1>39, <1>40
      DEF Next, Step

\* The types after a step.
LEMMA NextTypes == TypeOK /\ [Next]_vars => RowsType' /\ WorldType' /\ CyclesType'
BY TypeStep DEF TypeOK, RowsType, WorldType, CyclesType

-----------------------------------------------------------------------------
(* Cycles and rows, one step at a time *)

\* What a step of w leaves alone in every other cycle.
Others(w) ==
  \A v \in Workers \ {w} :
    /\ pc'[v] = pc[v] /\ item'[v] = item[v] /\ verdict'[v] = verdict[v]
    /\ heads'[v] = heads[v] /\ todo'[v] = todo[v]

\* What the helpers of a cycle do to each of its variables.
LEMMA MoveAt ==
  ASSUME CyclesType, NEW w \in Workers, NEW label, Move(w, label)
  PROVE  /\ Others(w)
         /\ pc'[w] = label /\ item'[w] = item[w] /\ verdict'[w] = verdict[w]
         /\ heads'[w] = heads[w] /\ todo'[w] = todo[w]
BY DEF CyclesType, Others, Move, Goto

LEMMA ReturnAt ==
  ASSUME CyclesType, NEW w \in Workers, NEW v, NEW label, Return(w, v, label)
  PROVE  /\ Others(w)
         /\ pc'[w] = label /\ item'[w] = item[w] /\ verdict'[w] = v
         /\ heads'[w] = heads[w] /\ todo'[w] = todo[w]
BY DEF CyclesType, Others, Return, Goto

LEMMA NextItemAt ==
  ASSUME CyclesType, NEW w \in Workers, NEW loop, NextItem(w, loop)
  PROVE  /\ Others(w)
         /\ pc'[w] = loop /\ item'[w] = None /\ todo'[w] = todo[w]
BY DEF CyclesType, Others, NextItem, Goto

LEMMA TakeAt ==
  ASSUME CyclesType, NEW w \in Workers, NEW i, NEW label, Take(w, i, label)
  PROVE  /\ Others(w)
         /\ pc'[w] = label /\ item'[w] = i /\ verdict'[w] = verdict[w]
         /\ heads'[w] = heads[w] /\ todo'[w] = todo[w] \ {i}
BY DEF CyclesType, Others, Take, Goto

LEMMA OutcomeCases ==
  ASSUME NEW v
  PROVE  OutcomeOf(v) \in {"OBSERVED_SUCCESS", "OBSERVED_FAILURE", "OUTCOME_UNKNOWN"}
BY DEF OutcomeOf

\* A row that has left PREPARED does not come back to it.
LeftPrepared == {i \in Intents : status[i] \notin {NoRow, "PREPARED"}}

\* A compare-and-set to a later status.
LEMMA TransitionLeaves ==
  ASSUME RowsType, NEW w \in Workers, NEW i \in Intents, NEW from, NEW to,
         to \notin {NoRow, "PREPARED"}, transitionExecutionAttempt(i, w, from, to)
  PROVE  LeftPrepared \subseteq LeftPrepared'
BY DEF transitionExecutionAttempt, RowsType, LeftPrepared

\* From the claim to the outcome, and before the request goes out.
DispatchPcs == {"claimed", "gated", "quote", "send", "sent", "retrieve", "record"}
BeforeSend == {"claimed", "gated", "quote", "send"}

\* Only one cycle at a time dispatches an attempt, and its row was claimed.
OneDispatcher ==
  /\ \A w \in Workers : pc[w] \in DispatchPcs => status[item[w]] \notin {NoRow, "PREPARED"}
  /\ \A v, w \in Workers :
       pc[v] \in DispatchPcs /\ pc[w] \in DispatchPcs /\ item[v] = item[w] => v = w

\* A request goes out once, and a stay stands only by a request.
Requests ==
  /\ \A i \in Intents : asked[i] <= 1 /\ (asked[i] = 0 <=> request[i] = "NONE")
  /\ \A i \in Intents : asked[i] # 0 => status[i] \notin {NoRow, "PREPARED"}
  /\ \A w \in Workers : pc[w] \in BeforeSend => asked[item[w]] = 0
  /\ \A i \in Intents \ Cancels : booking[i] # "NONE" => request[i] = "DONE"

\* The rows that have left PREPARED, step by step.
LEMMA RowsStay == TypeOK /\ [Next]_vars => LeftPrepared \subseteq LeftPrepared'
<1>. SUFFICES ASSUME TypeOK, [Next]_vars PROVE LeftPrepared \subseteq LeftPrepared'
  OBVIOUS
<1>t. RowsType /\ CyclesType
  BY TypeParts
<1>1. ASSUME NEW w \in Workers, createPreparedExecutionAttempt(w) PROVE LeftPrepared \subseteq LeftPrepared'
  BY <1>1, <1>t DEF createPreparedExecutionAttempt, CyclesType, NoItemPcs,
      NoRow, LeftPrepared, RowsType
<1>2. ASSUME NEW w \in Workers, claimPrepared(w) PROVE LeftPrepared \subseteq LeftPrepared'
  BY <1>2, <1>t DEF claimPrepared, CyclesType, NoItemPcs, NoRow,
      LeftPrepared, RowsType
<1>3. ASSUME NEW w \in Workers, GateDenies(w) PROVE LeftPrepared \subseteq LeftPrepared'
  <2>1. item[w] \in Intents
    BY <1>3, <1>t DEF GateDenies, CyclesType, NoItemPcs
  <2>. QED
    BY <1>3, <1>t, <2>1, TransitionLeaves DEF GateDenies, NoRow
<1>4. ASSUME NEW w \in Workers, EnterDispatching(w) PROVE LeftPrepared \subseteq LeftPrepared'
  <2>1. item[w] \in Intents
    BY <1>4, <1>t DEF EnterDispatching, CyclesType, NoItemPcs
  <2>. QED
    BY <1>4, <1>t, <2>1, TransitionLeaves DEF EnterDispatching, NoRow
<1>5. ASSUME NEW w \in Workers, Record(w) PROVE LeftPrepared \subseteq LeftPrepared'
  BY <1>5, <1>t, TransitionLeaves, OutcomeCases DEF Record, CyclesType,
      NoItemPcs, NoRow
<1>6. ASSUME NEW w \in Workers, claimForReconciliation(w) PROVE LeftPrepared \subseteq LeftPrepared'
  BY <1>6, <1>t DEF claimForReconciliation, CyclesType, NoItemPcs, NoRow,
      LeftPrepared, RowsType
<1>7. ASSUME NEW w \in Workers, Settle(w) PROVE LeftPrepared \subseteq LeftPrepared'
  BY <1>7, <1>t, TransitionLeaves, OutcomeCases DEF Settle, CyclesType,
      NoItemPcs, NoRow
<1>8. CASE UNCHANGED status
  BY <1>8 DEF LeftPrepared
<1>. QED
  BY <1>1, <1>2, <1>3, <1>4, <1>5, <1>6, <1>7, <1>8 DEF Next, Step,
      StartCycle, SkipCandidate, LeftoverPrepared, GateAllows, QuoteRefused,
      checkpointRequestRef, CheckpointFails, Send, Answered, AnswerLost,
      Retrieve, DispatcherThrows, StartApplying, AlreadyApplied,
      TakeObserved, ItemExists, loadHeads, observeExternalRecord,
      attachObservedStay, applyObservedStayCancellation, ApplyRefused,
      mintContinuationCheckpoints, EndCycle, StartReconciliation,
      LookupAnswered, LookupUnknown, Stop, LoseSession, LeaseLapses,
      CheckpointExpires, ProviderActs, SupplierCancels, ForeignChange, vars,
      rows

\* How a cycle comes to be dispatching an attempt: by the claim of a prepared row.
Claims(w) == pc[w] = "prepared" /\ status[item[w]] = "PREPARED" /\ claimPrepared(w)

OnPath(w) ==
  pc'[w] \in DispatchPcs =>
    \/ /\ pc[w] \in DispatchPcs
       /\ item'[w] = item[w]
       /\ pc'[w] \in BeforeSend => pc[w] \in BeforeSend
       /\ pc[w] = "claimed" /\ pc'[w] # "claimed" => GateAllows(w)
    \/ Claims(w)

\* Every cycle that dispatches is on its path, step by step.
LEMMA DispatchPath == TypeOK /\ [Next]_vars => \A v \in Workers : OnPath(v)
<1>. SUFFICES ASSUME TypeOK, [Next]_vars PROVE \A v \in Workers : OnPath(v)
  OBVIOUS
<1>t. CyclesType
  BY TypeParts
<1>1. ASSUME NEW w \in Workers, StartCycle(w) PROVE \A v \in Workers : OnPath(v)
  BY <1>1, <1>t DEF StartCycle, OnPath, DispatchPcs, BeforeSend, Others,
      CyclesType, Goto
<1>2. ASSUME NEW w \in Workers, SkipCandidate(w) PROVE \A v \in Workers : OnPath(v)
  BY <1>2, <1>t DEF SkipCandidate, OnPath, DispatchPcs, BeforeSend, Others,
      CyclesType, Goto
<1>3. ASSUME NEW w \in Workers, LeftoverPrepared(w) PROVE \A v \in Workers : OnPath(v)
  BY <1>3, <1>t, TakeAt DEF LeftoverPrepared, OnPath, DispatchPcs,
      BeforeSend, Others
<1>4. ASSUME NEW w \in Workers, createPreparedExecutionAttempt(w) PROVE \A v \in Workers : OnPath(v)
  BY <1>4, <1>t, TakeAt DEF createPreparedExecutionAttempt, OnPath,
      DispatchPcs, BeforeSend, Others
<1>5. ASSUME NEW w \in Workers, claimPrepared(w) PROVE \A v \in Workers : OnPath(v)
  <2>1. CASE status[item[w]] = "PREPARED"
    BY <1>5, <1>t, <2>1, MoveAt DEF claimPrepared, Claims, OnPath, Others
  <2>2. CASE status[item[w]] # "PREPARED"
    BY <1>5, <1>t, <2>2, NextItemAt DEF claimPrepared, OnPath, DispatchPcs, BeforeSend, Others
  <2>. QED
    BY <2>1, <2>2
<1>6. ASSUME NEW w \in Workers, GateDenies(w) PROVE \A v \in Workers : OnPath(v)
  BY <1>6, <1>t, NextItemAt DEF GateDenies, OnPath, DispatchPcs, BeforeSend,
      Others
<1>7. ASSUME NEW w \in Workers, GateAllows(w) PROVE \A v \in Workers : OnPath(v)
  BY <1>7, <1>t, MoveAt DEF GateAllows, OnPath, DispatchPcs, BeforeSend,
      Others
<1>8. ASSUME NEW w \in Workers, EnterDispatching(w) PROVE \A v \in Workers : OnPath(v)
  BY <1>8, <1>t, MoveAt, NextItemAt DEF EnterDispatching, OnPath,
      DispatchPcs, BeforeSend, Others
<1>9. ASSUME NEW w \in Workers, QuoteRefused(w) PROVE \A v \in Workers : OnPath(v)
  BY <1>9, <1>t, ReturnAt DEF QuoteRefused, OnPath, DispatchPcs, BeforeSend,
      Others
<1>10. ASSUME NEW w \in Workers, checkpointRequestRef(w) PROVE \A v \in Workers : OnPath(v)
  BY <1>10, <1>t, MoveAt DEF checkpointRequestRef, OnPath, DispatchPcs,
      BeforeSend, Others
<1>11. ASSUME NEW w \in Workers, CheckpointFails(w) PROVE \A v \in Workers : OnPath(v)
  BY <1>11, <1>t, ReturnAt DEF CheckpointFails, OnPath, DispatchPcs,
      BeforeSend, Others
<1>12. ASSUME NEW w \in Workers, Send(w) PROVE \A v \in Workers : OnPath(v)
  BY <1>12, <1>t, MoveAt DEF Send, OnPath, DispatchPcs, BeforeSend, Others
<1>13. ASSUME NEW w \in Workers, Answered(w) PROVE \A v \in Workers : OnPath(v)
  BY <1>13, <1>t, MoveAt, ReturnAt DEF Answered, OnPath, DispatchPcs,
      BeforeSend, Others
<1>14. ASSUME NEW w \in Workers, AnswerLost(w) PROVE \A v \in Workers : OnPath(v)
  BY <1>14, <1>t, ReturnAt DEF AnswerLost, OnPath, DispatchPcs, BeforeSend,
      Others
<1>15. ASSUME NEW w \in Workers, Retrieve(w) PROVE \A v \in Workers : OnPath(v)
  BY <1>15, <1>t, ReturnAt DEF Retrieve, OnPath, DispatchPcs, BeforeSend,
      Others
<1>16. ASSUME NEW w \in Workers, DispatcherThrows(w) PROVE \A v \in Workers : OnPath(v)
  BY <1>16, <1>t, ReturnAt DEF DispatcherThrows, OnPath, DispatchPcs,
      BeforeSend, Others
<1>17. ASSUME NEW w \in Workers, Record(w) PROVE \A v \in Workers : OnPath(v)
  BY <1>17, <1>t, NextItemAt DEF Record, OnPath, DispatchPcs, BeforeSend,
      Others
<1>18. ASSUME NEW w \in Workers, StartApplying(w) PROVE \A v \in Workers : OnPath(v)
  BY <1>18, <1>t DEF StartApplying, OnPath, DispatchPcs, BeforeSend, Others,
      CyclesType, Goto
<1>19. ASSUME NEW w \in Workers, AlreadyApplied(w) PROVE \A v \in Workers : OnPath(v)
  BY <1>19, <1>t DEF AlreadyApplied, OnPath, DispatchPcs, BeforeSend, Others,
      CyclesType, Goto
<1>20. ASSUME NEW w \in Workers, TakeObserved(w) PROVE \A v \in Workers : OnPath(v)
  BY <1>20, <1>t, TakeAt DEF TakeObserved, OnPath, DispatchPcs, BeforeSend,
      Others
<1>21. ASSUME NEW w \in Workers, ItemExists(w) PROVE \A v \in Workers : OnPath(v)
  BY <1>21, <1>t, MoveAt DEF ItemExists, OnPath, DispatchPcs, BeforeSend,
      Others
<1>22. ASSUME NEW w \in Workers, loadHeads(w) PROVE \A v \in Workers : OnPath(v)
  BY <1>22, <1>t DEF loadHeads, OnPath, DispatchPcs, BeforeSend, Others,
      CyclesType, Goto
<1>23. ASSUME NEW w \in Workers, observeExternalRecord(w) PROVE \A v \in Workers : OnPath(v)
  BY <1>23, <1>t, MoveAt, NextItemAt DEF observeExternalRecord, OnPath,
      DispatchPcs, BeforeSend, Others
<1>24. ASSUME NEW w \in Workers, attachObservedStay(w) PROVE \A v \in Workers : OnPath(v)
  BY <1>24, <1>t, MoveAt, NextItemAt DEF attachObservedStay, OnPath,
      DispatchPcs, BeforeSend, Others
<1>25. ASSUME NEW w \in Workers, applyObservedStayCancellation(w) PROVE \A v \in Workers : OnPath(v)
  BY <1>25, <1>t, MoveAt, NextItemAt DEF applyObservedStayCancellation,
      OnPath, DispatchPcs, BeforeSend, Others
<1>26. ASSUME NEW w \in Workers, ApplyRefused(w) PROVE \A v \in Workers : OnPath(v)
  BY <1>26, <1>t, NextItemAt DEF ApplyRefused, OnPath, DispatchPcs,
      BeforeSend, Others
<1>27. ASSUME NEW w \in Workers, mintContinuationCheckpoints(w) PROVE \A v \in Workers : OnPath(v)
  BY <1>27, <1>t, NextItemAt DEF mintContinuationCheckpoints, OnPath,
      DispatchPcs, BeforeSend, Others
<1>28. ASSUME NEW w \in Workers, EndCycle(w) PROVE \A v \in Workers : OnPath(v)
  BY <1>28, <1>t, MoveAt DEF EndCycle, OnPath, DispatchPcs, BeforeSend,
      Others
<1>29. ASSUME NEW w \in Workers, StartReconciliation(w) PROVE \A v \in Workers : OnPath(v)
  BY <1>29, <1>t DEF StartReconciliation, OnPath, DispatchPcs, BeforeSend,
      Others, CyclesType, Goto
<1>30. ASSUME NEW w \in Workers, claimForReconciliation(w) PROVE \A v \in Workers : OnPath(v)
  BY <1>30, <1>t, TakeAt DEF claimForReconciliation, OnPath, DispatchPcs,
      BeforeSend, Others, CyclesType, Goto
<1>31. ASSUME NEW w \in Workers, LookupAnswered(w) PROVE \A v \in Workers : OnPath(v)
  BY <1>31, <1>t, NextItemAt, ReturnAt DEF LookupAnswered, OnPath,
      DispatchPcs, BeforeSend, Others
<1>32. ASSUME NEW w \in Workers, LookupUnknown(w) PROVE \A v \in Workers : OnPath(v)
  BY <1>32, <1>t, NextItemAt DEF LookupUnknown, OnPath, DispatchPcs,
      BeforeSend, Others
<1>33. ASSUME NEW w \in Workers, Settle(w) PROVE \A v \in Workers : OnPath(v)
  BY <1>33, <1>t, NextItemAt DEF Settle, OnPath, DispatchPcs, BeforeSend,
      Others
<1>34. ASSUME NEW w \in Workers, Stop(w) PROVE \A v \in Workers : OnPath(v)
  BY <1>34, <1>t, NextItemAt DEF Stop, OnPath, DispatchPcs, BeforeSend,
      Others
<1>35. CASE UNCHANGED cycles
  BY <1>35 DEF OnPath, DispatchPcs, BeforeSend, Others, cycles
<1>. QED
  BY <1>1, <1>2, <1>3, <1>4, <1>5, <1>6, <1>7, <1>8, <1>9, <1>10, <1>11,
      <1>12, <1>13, <1>14, <1>15, <1>16, <1>17, <1>18, <1>19, <1>20, <1>21,
      <1>22, <1>23, <1>24, <1>25, <1>26, <1>27, <1>28, <1>29, <1>30, <1>31,
      <1>32, <1>33, <1>34, <1>35 DEF Next, Step, LoseSession, LeaseLapses,
      CheckpointExpires, ProviderActs, SupplierCancels, ForeignChange, vars

-----------------------------------------------------------------------------
(* One dispatcher, one request *)

\* A step keeps the one dispatcher of a row.
LEMMA OneDispatcherStep == TypeOK /\ OneDispatcher /\ [Next]_vars => OneDispatcher'
<1>. SUFFICES ASSUME TypeOK, OneDispatcher, [Next]_vars PROVE OneDispatcher'
  OBVIOUS
<1>1. \A v \in Workers : OnPath(v)
  BY DispatchPath
<1>2. LeftPrepared \subseteq LeftPrepared'
  BY RowsStay
<1>3. \A v \in Workers : pc[v] \in DispatchPcs => item[v] \in LeftPrepared
  BY TypeParts DEF CyclesType, DispatchPcs, NoItemPcs, LeftPrepared, OneDispatcher
<1>4. CASE \E w \in Workers : Claims(w)
  <2>1. PICK w \in Workers : Claims(w)
    BY <1>4
  <2>2. Others(w) /\ item'[w] = item[w]
    BY <2>1, TypeParts, MoveAt DEF Claims, claimPrepared
  <2>3. item[w] \in LeftPrepared' /\ item[w] \notin LeftPrepared
    <3>1. item[w] \in Intents
      BY <2>1, TypeParts DEF Claims, CyclesType, NoItemPcs
    <3>. QED
      BY <2>1, <3>1, TypeParts DEF Claims, claimPrepared, LeftPrepared, RowsType, NoRow
  <2>4. \A v \in Workers \ {w} :
          pc'[v] \in DispatchPcs => pc[v] \in DispatchPcs /\ item'[v] = item[v]
    BY <2>2 DEF Others
  <2>. QED
    BY <1>2, <1>3, <2>2, <2>3, <2>4 DEF OneDispatcher, LeftPrepared
<1>5. CASE \A w \in Workers : ~Claims(w)
  BY <1>1, <1>2, <1>3, <1>5 DEF OneDispatcher, OnPath, LeftPrepared
<1>. QED
  BY <1>4, <1>5

\* The steps that change what the provider was asked or what it holds.
LEMMA ProviderSteps ==
  ASSUME [Next]_vars, ~UNCHANGED provider
  PROVE  (\E w \in Workers : Send(w)) \/ (\E i \in Intents : ProviderActs(i) \/ SupplierCancels(i))
BY DEF Next, Step, StartCycle, SkipCandidate, LeftoverPrepared,
    createPreparedExecutionAttempt, claimPrepared, GateDenies, GateAllows,
    EnterDispatching, QuoteRefused, checkpointRequestRef, CheckpointFails,
    Answered, AnswerLost, Retrieve, DispatcherThrows, Record, StartApplying,
    AlreadyApplied, TakeObserved, ItemExists, loadHeads,
    observeExternalRecord, attachObservedStay, applyObservedStayCancellation,
    ApplyRefused, mintContinuationCheckpoints, EndCycle, StartReconciliation,
    claimForReconciliation, LookupAnswered, LookupUnknown, Settle, Stop,
    LoseSession, LeaseLapses, CheckpointExpires, ForeignChange, vars,
    provider

\* A step keeps the count of the requests.
LEMMA RequestsStep == TypeOK /\ OneDispatcher /\ Requests /\ [Next]_vars => Requests'
<1>. SUFFICES ASSUME TypeOK, OneDispatcher, Requests, [Next]_vars PROVE Requests'
  OBVIOUS
<1>t. CyclesType /\ WorldType
  BY TypeParts
<1>1. \A v \in Workers : OnPath(v)
  BY DispatchPath
<1>2. LeftPrepared \subseteq LeftPrepared'
  BY RowsStay
<1>3. \A v \in Workers :
        pc'[v] \in BeforeSend /\ ~Claims(v) =>
          pc[v] \in BeforeSend /\ item'[v] = item[v] /\ item[v] \in Intents
  BY <1>1, <1>t DEF OnPath, BeforeSend, DispatchPcs, CyclesType, NoItemPcs
<1>4. \A v \in Workers :
        Claims(v) => item[v] \in Intents /\ item'[v] = item[v] /\ asked[item[v]] = 0 /\ UNCHANGED provider
  BY <1>t, MoveAt DEF Claims, claimPrepared, CyclesType, NoItemPcs, Requests
<1>5. CASE UNCHANGED provider
  BY <1>2, <1>3, <1>4, <1>5 DEF Requests, provider, LeftPrepared
<1>6. ASSUME NEW w \in Workers, Send(w) PROVE Requests'
  <2>1. item[w] \in Intents /\ pc'[w] = "sent" /\ UNCHANGED <<status, booking>>
    BY <1>6, <1>t, MoveAt DEF Send, CyclesType, NoItemPcs, rows
  <2>2. asked[item[w]] = 0 /\ status[item[w]] \notin {NoRow, "PREPARED"}
    BY <1>6 DEF Send, Requests, BeforeSend, OneDispatcher, DispatchPcs
  <2>0. asked' = [asked EXCEPT ![item[w]] = 1] /\ request' = [request EXCEPT ![item[w]] = "SENT"]
    BY <1>6, <2>2 DEF Send
  <2>3. \A v \in Workers : ~Claims(v)
    BY <2>0, <2>1, <2>2, <1>4, <1>t DEF provider, WorldType
  <2>4. \A v \in Workers : pc'[v] \in BeforeSend => v # w /\ item[v] # item[w]
    BY <1>3, <1>6, <2>1, <2>3 DEF OneDispatcher, BeforeSend, DispatchPcs, Send
  <2>5. \A i \in Intents : asked'[i] <= 1 /\ (asked'[i] = 0 <=> request'[i] = "NONE")
    BY <1>t, <2>0, <2>1 DEF Requests, WorldType
  <2>6. \A i \in Intents : asked'[i] # 0 => status'[i] \notin {NoRow, "PREPARED"}
    BY <1>t, <2>0, <2>1, <2>2 DEF Requests, WorldType
  <2>7. \A v \in Workers : pc'[v] \in BeforeSend => asked'[item'[v]] = 0
    BY <1>3, <1>t, <2>0, <2>3, <2>4 DEF Requests, WorldType
  <2>8. \A i \in Intents \ Cancels : booking'[i] # "NONE" => request'[i] = "DONE"
    <3>1. request[item[w]] = "NONE"
      BY <2>1, <2>2 DEF Requests
    <3>. QED
      BY <1>t, <2>0, <2>1, <3>1 DEF Requests, WorldType
  <2>. QED
    BY <2>5, <2>6, <2>7, <2>8 DEF Requests
<1>7. ASSUME NEW i \in Intents, ProviderActs(i) \/ SupplierCancels(i) PROVE Requests'
  <2>1. UNCHANGED <<status, asked, pc, item>>
    BY <1>7 DEF ProviderActs, SupplierCancels, rows, cycles
  <2>2. \A v \in Workers : ~Claims(v)
    BY <2>1, <1>t, TypeParts, MoveAt DEF Claims, claimPrepared
  <2>3. \A j \in Intents :
          request'[j] = request[j] \/ (request[j] # "NONE" /\ request'[j] # "NONE")
    BY <1>7, <1>t DEF ProviderActs, SupplierCancels, Requests, WorldType
  <2>4. \A j \in Intents \ Cancels : booking'[j] # "NONE" => request'[j] = "DONE"
    BY <1>7, <1>t DEF ProviderActs, SupplierCancels, Requests, WorldType
  <2>. QED
    BY <1>3, <2>1, <2>2, <2>3, <2>4 DEF Requests
<1>. QED
  BY <1>5, <1>6, <1>7, ProviderSteps

-----------------------------------------------------------------------------
(* Outcomes *)

Unmoved == UNCHANGED <<status, provider>>

\* How a cycle comes to hold a verdict that it is about to write.
VerdictPath(v) ==
  pc'[v] \in {"record", "settle"} =>
    /\ item'[v] = item[v]
    /\ \/ pc[v] = pc'[v] /\ verdict'[v] = verdict[v]
       \/ Unmoved /\ verdict'[v] \in {"LOST", "THROWN"}
       \/ Unmoved /\ verdict'[v] = "SUCCESS" /\ ShowsSuccess(item[v])
       \/ Unmoved /\ verdict'[v] = "FAILURE" /\ pc[v] = "quote" /\ pc'[v] = "record"
       \/ /\ Unmoved /\ verdict'[v] = "FAILURE" /\ pc[v] = "sent" /\ pc'[v] = "record"
          /\ request[item[v]] = "REFUSED" \/ ~(LostAs \subseteq {"TIMEOUT"})
       \/ /\ Unmoved /\ verdict'[v] = "FAILURE" /\ pc[v] = "lookup" /\ pc'[v] = "settle"
          /\ item[v] \in Cancels \/ booking[item[v]] \in {"MISMATCH", "CANCELLED"}

\* Every verdict is on its path, step by step.
LEMMA VerdictPaths == TypeOK /\ [Next]_vars => \A v \in Workers : VerdictPath(v)
<1>. SUFFICES ASSUME TypeOK, [Next]_vars PROVE \A v \in Workers : VerdictPath(v)
  OBVIOUS
<1>t. CyclesType
  BY TypeParts
<1>1. ASSUME NEW w \in Workers, StartCycle(w) PROVE \A v \in Workers : VerdictPath(v)
  BY <1>1, <1>t DEF StartCycle, VerdictPath, Others, CyclesType, Goto
<1>2. ASSUME NEW w \in Workers, SkipCandidate(w) PROVE \A v \in Workers : VerdictPath(v)
  BY <1>2, <1>t DEF SkipCandidate, VerdictPath, Others, CyclesType, Goto
<1>3. ASSUME NEW w \in Workers, LeftoverPrepared(w) PROVE \A v \in Workers : VerdictPath(v)
  BY <1>3, <1>t, TakeAt DEF LeftoverPrepared, VerdictPath, Others
<1>4. ASSUME NEW w \in Workers, createPreparedExecutionAttempt(w) PROVE \A v \in Workers : VerdictPath(v)
  BY <1>4, <1>t, TakeAt DEF createPreparedExecutionAttempt, VerdictPath,
      Others
<1>5. ASSUME NEW w \in Workers, claimPrepared(w) PROVE \A v \in Workers : VerdictPath(v)
  BY <1>5, <1>t, MoveAt, NextItemAt DEF claimPrepared, VerdictPath, Others
<1>6. ASSUME NEW w \in Workers, GateDenies(w) PROVE \A v \in Workers : VerdictPath(v)
  BY <1>6, <1>t, NextItemAt DEF GateDenies, VerdictPath, Others
<1>7. ASSUME NEW w \in Workers, GateAllows(w) PROVE \A v \in Workers : VerdictPath(v)
  BY <1>7, <1>t, MoveAt DEF GateAllows, VerdictPath, Others
<1>8. ASSUME NEW w \in Workers, EnterDispatching(w) PROVE \A v \in Workers : VerdictPath(v)
  BY <1>8, <1>t, MoveAt, NextItemAt DEF EnterDispatching, VerdictPath, Others
<1>9. ASSUME NEW w \in Workers, QuoteRefused(w) PROVE \A v \in Workers : VerdictPath(v)
  BY <1>9, <1>t, ReturnAt DEF QuoteRefused, VerdictPath, Others, Unmoved,
      rows
<1>10. ASSUME NEW w \in Workers, checkpointRequestRef(w) PROVE \A v \in Workers : VerdictPath(v)
  BY <1>10, <1>t, MoveAt DEF checkpointRequestRef, VerdictPath, Others
<1>11. ASSUME NEW w \in Workers, CheckpointFails(w) PROVE \A v \in Workers : VerdictPath(v)
  BY <1>11, <1>t, ReturnAt DEF CheckpointFails, VerdictPath, Others, Unmoved,
      rows
<1>12. ASSUME NEW w \in Workers, Send(w) PROVE \A v \in Workers : VerdictPath(v)
  BY <1>12, <1>t, MoveAt DEF Send, VerdictPath, Others
<1>13. ASSUME NEW w \in Workers, Answered(w) PROVE \A v \in Workers : VerdictPath(v)
  BY <1>13, <1>t, MoveAt, ReturnAt DEF Answered, VerdictPath, Others,
      Unmoved, rows
<1>14. ASSUME NEW w \in Workers, AnswerLost(w) PROVE \A v \in Workers : VerdictPath(v)
  BY <1>14, <1>t, ReturnAt DEF AnswerLost, VerdictPath, Others, Unmoved, rows
<1>15. ASSUME NEW w \in Workers, Retrieve(w) PROVE \A v \in Workers : VerdictPath(v)
  BY <1>15, <1>t, ReturnAt DEF Retrieve, VerdictPath, Others, Unmoved, rows
<1>16. ASSUME NEW w \in Workers, DispatcherThrows(w) PROVE \A v \in Workers : VerdictPath(v)
  BY <1>16, <1>t, ReturnAt DEF DispatcherThrows, VerdictPath, Others,
      Unmoved, rows
<1>17. ASSUME NEW w \in Workers, Record(w) PROVE \A v \in Workers : VerdictPath(v)
  BY <1>17, <1>t, NextItemAt DEF Record, VerdictPath, Others
<1>18. ASSUME NEW w \in Workers, StartApplying(w) PROVE \A v \in Workers : VerdictPath(v)
  BY <1>18, <1>t DEF StartApplying, VerdictPath, Others, CyclesType, Goto
<1>19. ASSUME NEW w \in Workers, AlreadyApplied(w) PROVE \A v \in Workers : VerdictPath(v)
  BY <1>19, <1>t DEF AlreadyApplied, VerdictPath, Others, CyclesType, Goto
<1>20. ASSUME NEW w \in Workers, TakeObserved(w) PROVE \A v \in Workers : VerdictPath(v)
  BY <1>20, <1>t, TakeAt DEF TakeObserved, VerdictPath, Others
<1>21. ASSUME NEW w \in Workers, ItemExists(w) PROVE \A v \in Workers : VerdictPath(v)
  BY <1>21, <1>t, MoveAt DEF ItemExists, VerdictPath, Others
<1>22. ASSUME NEW w \in Workers, loadHeads(w) PROVE \A v \in Workers : VerdictPath(v)
  BY <1>22, <1>t DEF loadHeads, VerdictPath, Others, CyclesType, Goto
<1>23. ASSUME NEW w \in Workers, observeExternalRecord(w) PROVE \A v \in Workers : VerdictPath(v)
  BY <1>23, <1>t, MoveAt, NextItemAt DEF observeExternalRecord, VerdictPath,
      Others
<1>24. ASSUME NEW w \in Workers, attachObservedStay(w) PROVE \A v \in Workers : VerdictPath(v)
  BY <1>24, <1>t, MoveAt, NextItemAt DEF attachObservedStay, VerdictPath,
      Others
<1>25. ASSUME NEW w \in Workers, applyObservedStayCancellation(w) PROVE \A v \in Workers : VerdictPath(v)
  BY <1>25, <1>t, MoveAt, NextItemAt DEF applyObservedStayCancellation,
      VerdictPath, Others
<1>26. ASSUME NEW w \in Workers, ApplyRefused(w) PROVE \A v \in Workers : VerdictPath(v)
  BY <1>26, <1>t, NextItemAt DEF ApplyRefused, VerdictPath, Others
<1>27. ASSUME NEW w \in Workers, mintContinuationCheckpoints(w) PROVE \A v \in Workers : VerdictPath(v)
  BY <1>27, <1>t, NextItemAt DEF mintContinuationCheckpoints, VerdictPath,
      Others
<1>28. ASSUME NEW w \in Workers, EndCycle(w) PROVE \A v \in Workers : VerdictPath(v)
  BY <1>28, <1>t, MoveAt DEF EndCycle, VerdictPath, Others
<1>29. ASSUME NEW w \in Workers, StartReconciliation(w) PROVE \A v \in Workers : VerdictPath(v)
  BY <1>29, <1>t DEF StartReconciliation, VerdictPath, Others, CyclesType,
      Goto
<1>30. ASSUME NEW w \in Workers, claimForReconciliation(w) PROVE \A v \in Workers : VerdictPath(v)
  BY <1>30, <1>t, TakeAt DEF claimForReconciliation, VerdictPath, Others, CyclesType
<1>31. ASSUME NEW w \in Workers, LookupAnswered(w) PROVE \A v \in Workers : VerdictPath(v)
  <2>1. PICK u \in LookupVerdicts(item[w]) :
          IF u = "NONE" THEN NextItem(w, "reconcile") ELSE Return(w, u, "settle")
    BY <1>31 DEF LookupAnswered
  <2>2. UNCHANGED <<status, provider>> /\ pc[w] = "lookup"
    BY <1>31 DEF LookupAnswered, rows
  <2>3. CASE u = "NONE"
    BY <1>t, <2>1, <2>3, NextItemAt DEF VerdictPath, Others
  <2>4. CASE u # "NONE"
    <3>1. Others(w) /\ item'[w] = item[w] /\ verdict'[w] = u /\ pc'[w] = "settle"
      BY <1>t, <2>1, <2>4, ReturnAt
    <3>2. \/ u = "SUCCESS" /\ ShowsSuccess(item[w])
          \/ /\ u = "FAILURE"
             /\ item[w] \in Cancels \/ booking[item[w]] \in {"MISMATCH", "CANCELLED"}
      BY <2>1, <2>4 DEF LookupVerdicts, ShowsSuccess, Wanted
    <3>. QED
      BY <2>2, <3>1, <3>2 DEF VerdictPath, Unmoved, Others
  <2>. QED
    BY <2>3, <2>4
<1>32. ASSUME NEW w \in Workers, LookupUnknown(w) PROVE \A v \in Workers : VerdictPath(v)
  BY <1>32, <1>t, NextItemAt DEF LookupUnknown, VerdictPath, Others
<1>33. ASSUME NEW w \in Workers, Settle(w) PROVE \A v \in Workers : VerdictPath(v)
  BY <1>33, <1>t, NextItemAt DEF Settle, VerdictPath, Others
<1>34. ASSUME NEW w \in Workers, Stop(w) PROVE \A v \in Workers : VerdictPath(v)
  BY <1>34, <1>t, NextItemAt DEF Stop, VerdictPath, Others
<1>35. CASE UNCHANGED cycles
  BY <1>35 DEF cycles, VerdictPath
<1>. QED
  BY <1>1, <1>2, <1>3, <1>4, <1>5, <1>6, <1>7, <1>8, <1>9, <1>10, <1>11,
      <1>12, <1>13, <1>14, <1>15, <1>16, <1>17, <1>18, <1>19, <1>20, <1>21,
      <1>22, <1>23, <1>24, <1>25, <1>26, <1>27, <1>28, <1>29, <1>30, <1>31,
      <1>32, <1>33, <1>34, <1>35 DEF Next, Step, LoseSession, LeaseLapses,
      CheckpointExpires, ProviderActs, SupplierCancels, ForeignChange, vars

Failures == {"OBSERVED_FAILURE", "FAILED"}

\* The statuses of an attempt whose dispatch has begun.
Underway ==
  {"DISPATCHING", "OUTCOME_UNKNOWN", "RECONCILIATION_REQUIRED", "OBSERVED_SUCCESS", "OBSERVED_FAILURE"}

\* How the status of an attempt changes.
StatusPath(i) ==
  status'[i] # status[i] =>
    /\ ~Succeeded(i) /\ status[i] \notin Failures
    /\ status'[i] \in Underway =>
         status[i] \in Underway \/ \E w \in Workers : pc[w] = "gated" /\ item[w] = i
    /\ status[i] = NoRow => Ready(i) /\ UNCHANGED journey
    /\ \/ status'[i] \notin SUCCESS_STATUSES \cup Failures
       \/ /\ UNCHANGED provider
          /\ \E w \in Workers :
               /\ pc[w] \in {"record", "settle"} /\ item[w] = i
               /\ status'[i] = OutcomeOf(verdict[w])
       \/ /\ UNCHANGED provider
          /\ status'[i] = "FAILED"
          /\ \E w \in Workers : pc[w] = "claimed" /\ item[w] = i

\* What a compare-and-set changes.
LEMMA TransitionPath ==
  ASSUME RowsType, NEW w \in Workers, NEW i \in Intents, NEW from, NEW to,
         transitionExecutionAttempt(i, w, from, to)
  PROVE  \A j \in Intents :
           status'[j] # status[j] => j = i /\ status[j] = from /\ status'[j] = to
BY DEF transitionExecutionAttempt, Applies, RowsType

\* Every status is on its path, step by step.
LEMMA StatusPaths == TypeOK /\ [Next]_vars => \A j \in Intents : StatusPath(j)
<1>. SUFFICES ASSUME TypeOK, [Next]_vars PROVE \A j \in Intents : StatusPath(j)
  OBVIOUS
<1>t. RowsType /\ CyclesType
  BY TypeParts
<1>1. ASSUME NEW w \in Workers, createPreparedExecutionAttempt(w) PROVE \A j \in Intents : StatusPath(j)
  BY <1>1, <1>t DEF createPreparedExecutionAttempt, StatusPath, RowsType,
      CyclesType, NoItemPcs, NoRow, Succeeded, SUCCESS_STATUSES, Failures, Underway,
      canonical
<1>2. ASSUME NEW w \in Workers, claimPrepared(w) PROVE \A j \in Intents : StatusPath(j)
  BY <1>2, <1>t DEF claimPrepared, StatusPath, RowsType, CyclesType,
      NoItemPcs, NoRow, Succeeded, SUCCESS_STATUSES, Failures, Underway
<1>3. ASSUME NEW w \in Workers, GateDenies(w) PROVE \A j \in Intents : StatusPath(j)
  <2>1. item[w] \in Intents
    BY <1>3, <1>t DEF GateDenies, CyclesType, NoItemPcs
  <2>. QED
    BY <1>3, <1>t, <2>1, TransitionPath DEF GateDenies, StatusPath, Succeeded,
        SUCCESS_STATUSES, NoRow, Failures, Underway
<1>4. ASSUME NEW w \in Workers, EnterDispatching(w) PROVE \A j \in Intents : StatusPath(j)
  <2>1. item[w] \in Intents
    BY <1>4, <1>t DEF EnterDispatching, CyclesType, NoItemPcs
  <2>. QED
    BY <1>4, <1>t, <2>1, TransitionPath DEF EnterDispatching, StatusPath, Succeeded,
        SUCCESS_STATUSES, NoRow, Failures, Underway
<1>5. ASSUME NEW w \in Workers, Record(w) PROVE \A j \in Intents : StatusPath(j)
  <2>1. item[w] \in Intents
    BY <1>5, <1>t DEF Record, CyclesType, NoItemPcs
  <2>. QED
    BY <1>5, <1>t, <2>1, TransitionPath, OutcomeCases DEF Record, StatusPath, Succeeded,
        SUCCESS_STATUSES, NoRow, Failures, Underway
<1>6. ASSUME NEW w \in Workers, claimForReconciliation(w) PROVE \A j \in Intents : StatusPath(j)
  BY <1>6, <1>t DEF claimForReconciliation, StatusPath, RowsType, CyclesType,
      NoItemPcs, NoRow, Succeeded, SUCCESS_STATUSES, Failures, Underway, Reconcilable,
      WrittenStatuses
<1>7. ASSUME NEW w \in Workers, Settle(w) PROVE \A j \in Intents : StatusPath(j)
  <2>1. item[w] \in Intents
    BY <1>7, <1>t DEF Settle, CyclesType, NoItemPcs
  <2>. QED
    BY <1>7, <1>t, <2>1, TransitionPath, OutcomeCases DEF Settle, StatusPath, Succeeded,
        SUCCESS_STATUSES, NoRow, Failures, Underway
<1>8. CASE UNCHANGED status
  BY <1>8 DEF StatusPath
<1>. QED
  BY <1>1, <1>2, <1>3, <1>4, <1>5, <1>6, <1>7, <1>8 DEF Next, Step,
      StartCycle, SkipCandidate, LeftoverPrepared, GateAllows, QuoteRefused,
      checkpointRequestRef, CheckpointFails, Send, Answered, AnswerLost,
      Retrieve, DispatcherThrows, StartApplying, AlreadyApplied,
      TakeObserved, ItemExists, loadHeads, observeExternalRecord,
      attachObservedStay, applyObservedStayCancellation, ApplyRefused,
      mintContinuationCheckpoints, EndCycle, StartReconciliation,
      LookupAnswered, LookupUnknown, Stop, LoseSession, LeaseLapses,
      CheckpointExpires, ProviderActs, SupplierCancels, ForeignChange, vars, rows

\* The booking has shown that the action succeeded.
Shown(i) == booking[i] \in {Wanted(i), "CANCELLED"}

\* A success is written only by who has seen it.
Successes ==
  /\ SuccessIsObserved
  /\ \A w \in Workers :
       pc[w] \in {"record", "settle"} /\ verdict[w] = "SUCCESS" => Shown(item[w])

\* What the provider has shown stays shown.
LEMMA ShownStays == TypeOK /\ Requests /\ [Next]_vars => \A i \in Intents : Shown(i) => Shown(i)'
<1>. SUFFICES ASSUME TypeOK, Requests, [Next]_vars, NEW i \in Intents, Shown(i) PROVE Shown(i)'
  OBVIOUS
<1>1. CASE UNCHANGED provider
  BY <1>1 DEF Shown, provider, Wanted
<1>2. ASSUME NEW w \in Workers, Send(w) PROVE Shown(i)'
  BY <1>2 DEF Send, Shown, Wanted
<1>3. ASSUME NEW j \in Intents, ProviderActs(j) PROVE Shown(i)'
  BY <1>3, TypeParts DEF ProviderActs, Shown, Requests, WorldType, Wanted
<1>4. ASSUME NEW j \in Intents, SupplierCancels(j) PROVE Shown(i)'
  BY <1>4, TypeParts DEF SupplierCancels, Shown, WorldType, Wanted
<1>. QED
  BY <1>1, <1>2, <1>3, <1>4, ProviderSteps

\* A step keeps successes observed.
LEMMA SuccessStep == TypeOK /\ Requests /\ Successes /\ [Next]_vars => Successes'
<1>. SUFFICES ASSUME TypeOK, Requests, Successes, [Next]_vars PROVE Successes'
  OBVIOUS
<1>1. \A i \in Intents : Shown(i) => Shown(i)'
  BY ShownStays
<1>2. ASSUME NEW i \in Intents, Succeeded(i)' PROVE Shown(i)'
  <2>1. CASE status'[i] = status[i]
    BY <1>1, <1>2, <2>1 DEF Succeeded, Successes, SuccessIsObserved, Shown
  <2>2. CASE status'[i] # status[i]
    <3>1. PICK w \in Workers :
            pc[w] \in {"record", "settle"} /\ item[w] = i /\ status'[i] = OutcomeOf(verdict[w])
      BY <1>2, <2>2, StatusPaths DEF StatusPath, Succeeded, SUCCESS_STATUSES
    <3>2. verdict[w] = "SUCCESS"
      BY <1>2, <3>1 DEF OutcomeOf, Succeeded, SUCCESS_STATUSES
    <3>. QED
      BY <1>1, <3>1, <3>2 DEF Successes
  <2>. QED
    BY <2>1, <2>2
<1>3. ASSUME NEW w \in Workers, pc'[w] \in {"record", "settle"}, verdict'[w] = "SUCCESS"
      PROVE  Shown(item[w])' /\ item'[w] = item[w]
  <2>1. VerdictPath(w)
    BY VerdictPaths
  <2>2. item'[w] = item[w] /\ Shown(item[w])
    BY <1>3, <2>1 DEF VerdictPath, Successes, Shown, ShowsSuccess
  <2>3. item[w] \in Intents
    BY <1>3, <2>2, NextTypes DEF CyclesType, NoItemPcs
  <2>. QED
    BY <1>1, <2>2, <2>3 DEF Shown
<1>. QED
  BY <1>2, <1>3 DEF Successes, SuccessIsObserved, Shown

\* How a cycle comes to stand before a request.
QuotePath(w) ==
  pc'[w] \in {"quote", "send"} =>
    /\ item'[w] = item[w]
    /\ \/ pc[w] = "gated" /\ status'[item[w]] = "DISPATCHING"
       \/ pc[w] \in {"quote", "send"}

\* Every cycle before a request is on its path, step by step.
LEMMA QuotePaths == TypeOK /\ [Next]_vars => \A v \in Workers : QuotePath(v)
<1>. SUFFICES ASSUME TypeOK, [Next]_vars PROVE \A v \in Workers : QuotePath(v)
  OBVIOUS
<1>t. RowsType /\ CyclesType
  BY TypeParts
<1>1. ASSUME NEW w \in Workers, StartCycle(w) PROVE \A v \in Workers : QuotePath(v)
  BY <1>1, <1>t DEF StartCycle, QuotePath, Others, CyclesType, Goto
<1>2. ASSUME NEW w \in Workers, SkipCandidate(w) PROVE \A v \in Workers : QuotePath(v)
  BY <1>2, <1>t DEF SkipCandidate, QuotePath, Others, CyclesType, Goto
<1>3. ASSUME NEW w \in Workers, LeftoverPrepared(w) PROVE \A v \in Workers : QuotePath(v)
  BY <1>3, <1>t, TakeAt DEF LeftoverPrepared, QuotePath, Others
<1>4. ASSUME NEW w \in Workers, createPreparedExecutionAttempt(w) PROVE \A v \in Workers : QuotePath(v)
  BY <1>4, <1>t, TakeAt DEF createPreparedExecutionAttempt, QuotePath, Others
<1>5. ASSUME NEW w \in Workers, claimPrepared(w) PROVE \A v \in Workers : QuotePath(v)
  BY <1>5, <1>t, MoveAt, NextItemAt DEF claimPrepared, QuotePath, Others
<1>6. ASSUME NEW w \in Workers, GateDenies(w) PROVE \A v \in Workers : QuotePath(v)
  BY <1>6, <1>t, NextItemAt DEF GateDenies, QuotePath, Others
<1>7. ASSUME NEW w \in Workers, GateAllows(w) PROVE \A v \in Workers : QuotePath(v)
  BY <1>7, <1>t, MoveAt DEF GateAllows, QuotePath, Others
<1>8. ASSUME NEW w \in Workers, EnterDispatching(w) PROVE \A v \in Workers : QuotePath(v)
  <2>1. item[w] \in Intents /\ pc[w] = "gated"
    BY <1>8, <1>t DEF EnterDispatching, CyclesType, NoItemPcs
  <2>2. CASE Applies(item[w], w, "CLAIMED", "DISPATCHING")
    BY <1>8, <1>t, <2>1, <2>2, MoveAt DEF EnterDispatching, transitionExecutionAttempt, QuotePath, Others, RowsType
  <2>3. CASE ~Applies(item[w], w, "CLAIMED", "DISPATCHING")
    BY <1>8, <1>t, <2>3, NextItemAt DEF EnterDispatching, QuotePath, Others
  <2>. QED
    BY <2>2, <2>3
<1>9. ASSUME NEW w \in Workers, QuoteRefused(w) PROVE \A v \in Workers : QuotePath(v)
  BY <1>9, <1>t, ReturnAt DEF QuoteRefused, QuotePath, Others
<1>10. ASSUME NEW w \in Workers, checkpointRequestRef(w) PROVE \A v \in Workers : QuotePath(v)
  BY <1>10, <1>t, MoveAt DEF checkpointRequestRef, QuotePath, Others
<1>11. ASSUME NEW w \in Workers, CheckpointFails(w) PROVE \A v \in Workers : QuotePath(v)
  BY <1>11, <1>t, ReturnAt DEF CheckpointFails, QuotePath, Others
<1>12. ASSUME NEW w \in Workers, Send(w) PROVE \A v \in Workers : QuotePath(v)
  BY <1>12, <1>t, MoveAt DEF Send, QuotePath, Others
<1>13. ASSUME NEW w \in Workers, Answered(w) PROVE \A v \in Workers : QuotePath(v)
  BY <1>13, <1>t, MoveAt, ReturnAt DEF Answered, QuotePath, Others
<1>14. ASSUME NEW w \in Workers, AnswerLost(w) PROVE \A v \in Workers : QuotePath(v)
  BY <1>14, <1>t, ReturnAt DEF AnswerLost, QuotePath, Others
<1>15. ASSUME NEW w \in Workers, Retrieve(w) PROVE \A v \in Workers : QuotePath(v)
  BY <1>15, <1>t, ReturnAt DEF Retrieve, QuotePath, Others
<1>16. ASSUME NEW w \in Workers, DispatcherThrows(w) PROVE \A v \in Workers : QuotePath(v)
  BY <1>16, <1>t, ReturnAt DEF DispatcherThrows, QuotePath, Others
<1>17. ASSUME NEW w \in Workers, Record(w) PROVE \A v \in Workers : QuotePath(v)
  BY <1>17, <1>t, NextItemAt DEF Record, QuotePath, Others
<1>18. ASSUME NEW w \in Workers, StartApplying(w) PROVE \A v \in Workers : QuotePath(v)
  BY <1>18, <1>t DEF StartApplying, QuotePath, Others, CyclesType, Goto
<1>19. ASSUME NEW w \in Workers, AlreadyApplied(w) PROVE \A v \in Workers : QuotePath(v)
  BY <1>19, <1>t DEF AlreadyApplied, QuotePath, Others, CyclesType, Goto
<1>20. ASSUME NEW w \in Workers, TakeObserved(w) PROVE \A v \in Workers : QuotePath(v)
  BY <1>20, <1>t, TakeAt DEF TakeObserved, QuotePath, Others
<1>21. ASSUME NEW w \in Workers, ItemExists(w) PROVE \A v \in Workers : QuotePath(v)
  BY <1>21, <1>t, MoveAt DEF ItemExists, QuotePath, Others
<1>22. ASSUME NEW w \in Workers, loadHeads(w) PROVE \A v \in Workers : QuotePath(v)
  BY <1>22, <1>t DEF loadHeads, QuotePath, Others, CyclesType, Goto
<1>23. ASSUME NEW w \in Workers, observeExternalRecord(w) PROVE \A v \in Workers : QuotePath(v)
  BY <1>23, <1>t, MoveAt, NextItemAt DEF observeExternalRecord, QuotePath,
      Others
<1>24. ASSUME NEW w \in Workers, attachObservedStay(w) PROVE \A v \in Workers : QuotePath(v)
  BY <1>24, <1>t, MoveAt, NextItemAt DEF attachObservedStay, QuotePath,
      Others
<1>25. ASSUME NEW w \in Workers, applyObservedStayCancellation(w) PROVE \A v \in Workers : QuotePath(v)
  BY <1>25, <1>t, MoveAt, NextItemAt DEF applyObservedStayCancellation,
      QuotePath, Others
<1>26. ASSUME NEW w \in Workers, ApplyRefused(w) PROVE \A v \in Workers : QuotePath(v)
  BY <1>26, <1>t, NextItemAt DEF ApplyRefused, QuotePath, Others
<1>27. ASSUME NEW w \in Workers, mintContinuationCheckpoints(w) PROVE \A v \in Workers : QuotePath(v)
  BY <1>27, <1>t, NextItemAt DEF mintContinuationCheckpoints, QuotePath,
      Others
<1>28. ASSUME NEW w \in Workers, EndCycle(w) PROVE \A v \in Workers : QuotePath(v)
  BY <1>28, <1>t, MoveAt DEF EndCycle, QuotePath, Others
<1>29. ASSUME NEW w \in Workers, StartReconciliation(w) PROVE \A v \in Workers : QuotePath(v)
  BY <1>29, <1>t DEF StartReconciliation, QuotePath, Others, CyclesType, Goto
<1>30. ASSUME NEW w \in Workers, claimForReconciliation(w) PROVE \A v \in Workers : QuotePath(v)
  BY <1>30, <1>t, TakeAt DEF claimForReconciliation, QuotePath, Others,
      CyclesType, Goto
<1>31. ASSUME NEW w \in Workers, LookupAnswered(w) PROVE \A v \in Workers : QuotePath(v)
  BY <1>31, <1>t, NextItemAt, ReturnAt DEF LookupAnswered, QuotePath, Others
<1>32. ASSUME NEW w \in Workers, LookupUnknown(w) PROVE \A v \in Workers : QuotePath(v)
  BY <1>32, <1>t, NextItemAt DEF LookupUnknown, QuotePath, Others
<1>33. ASSUME NEW w \in Workers, Settle(w) PROVE \A v \in Workers : QuotePath(v)
  BY <1>33, <1>t, NextItemAt DEF Settle, QuotePath, Others
<1>34. ASSUME NEW w \in Workers, Stop(w) PROVE \A v \in Workers : QuotePath(v)
  BY <1>34, <1>t, NextItemAt DEF Stop, QuotePath, Others
<1>35. CASE UNCHANGED cycles
  BY <1>35 DEF cycles, QuotePath
<1>. QED
  BY <1>1, <1>2, <1>3, <1>4, <1>5, <1>6, <1>7, <1>8, <1>9, <1>10, <1>11,
      <1>12, <1>13, <1>14, <1>15, <1>16, <1>17, <1>18, <1>19, <1>20, <1>21,
      <1>22, <1>23, <1>24, <1>25, <1>26, <1>27, <1>28, <1>29, <1>30, <1>31,
      <1>32, <1>33, <1>34, <1>35 DEF Next, Step, LoseSession, LeaseLapses,
      CheckpointExpires, ProviderActs, SupplierCancels, ForeignChange, vars

\* No booking of i is on its way or stands with the approved terms.
NotStanding(i) == request[i] # "SENT" /\ booking[i] # "CONFIRMED"

\* A failure is written only by who knows that no booking stands.
FailsTruly ==
  /\ FailedBookingStandsNowhere
  /\ \A w \in Workers :
       pc[w] \in {"record", "settle"} /\ verdict[w] = "FAILURE" /\ item[w] \notin Cancels =>
         NotStanding(item[w])
  /\ \A w \in Workers :
       pc[w] = "settle" /\ verdict[w] = "FAILURE" /\ item[w] \notin Cancels =>
         request[item[w]] = "DONE"
  /\ \A w \in Workers :
       pc[w] \in {"quote", "send"} /\ item[w] \notin Cancels => status[item[w]] \notin Failures

\* A booking stands again only by a request that has not been sent yet.
LEMMA NotStandingStays ==
  ASSUME TypeOK, Requests, [Next]_vars, NEW i \in Intents \ Cancels, NotStanding(i),
         \A w \in Workers : pc[w] = "send" => item[w] # i
  PROVE  NotStanding(i)'
<1>1. CASE UNCHANGED provider
  BY <1>1 DEF NotStanding, provider
<1>2. ASSUME NEW w \in Workers, Send(w) PROVE NotStanding(i)'
  BY <1>2, TypeParts DEF Send, NotStanding, WorldType
<1>3. ASSUME NEW j \in Intents, ProviderActs(j) PROVE NotStanding(i)'
  BY <1>3, TypeParts DEF ProviderActs, NotStanding, WorldType
<1>4. ASSUME NEW j \in Intents, SupplierCancels(j) PROVE NotStanding(i)'
  BY <1>4, TypeParts DEF SupplierCancels, NotStanding, WorldType
<1>. QED
  BY <1>1, <1>2, <1>3, <1>4, ProviderSteps

\* With answers lost to timeouts only, a step keeps failures true.
LEMMA FailureStep ==
  ASSUME LostAs \subseteq {"TIMEOUT"}
  PROVE  TypeOK /\ OneDispatcher /\ Requests /\ FailsTruly /\ [Next]_vars => FailsTruly'
<1>. SUFFICES ASSUME TypeOK, OneDispatcher, Requests, FailsTruly, [Next]_vars PROVE FailsTruly'
  OBVIOUS
<1>t. CyclesType /\ WorldType /\ CyclesType' /\ WorldType'
  BY TypeParts, NextTypes
<1>0. \A i \in Intents \ Cancels : request[i] = "NONE" => NotStanding(i)
  BY DEF NotStanding, Requests
<1>1. \A i \in Intents \ Cancels :
        /\ NotStanding(i)
        /\ \A w \in Workers : pc[w] = "send" => item[w] # i
        => NotStanding(i)'
  BY NotStandingStays
<1>2. ASSUME NEW i \in Intents \ Cancels, status'[i] \in Failures PROVE NotStanding(i)'
  <2>1. CASE status'[i] = status[i]
    <3>1. NotStanding(i) /\ \A w \in Workers : pc[w] = "send" => item[w] # i
      BY <1>2, <2>1 DEF FailsTruly, FailedBookingStandsNowhere, NotStanding, Failures
    <3>. QED
      BY <1>1, <3>1
  <2>2. CASE status'[i] # status[i]
    <3>1. UNCHANGED provider
      BY <1>2, <2>2, StatusPaths DEF StatusPath, Failures, SUCCESS_STATUSES
    <3>2. NotStanding(i)
      <4>1. CASE \E w \in Workers : pc[w] = "claimed" /\ item[w] = i
        BY <1>0, <4>1 DEF Requests, BeforeSend
      <4>2. CASE \E w \in Workers :
              pc[w] \in {"record", "settle"} /\ item[w] = i /\ status'[i] = OutcomeOf(verdict[w])
        BY <1>2, <4>2 DEF OutcomeOf, Failures, FailsTruly
      <4>. QED
        BY <1>2, <2>2, <4>1, <4>2, StatusPaths DEF StatusPath, Failures, SUCCESS_STATUSES
    <3>. QED
      BY <3>1, <3>2 DEF NotStanding, provider
  <2>. QED
    BY <2>1, <2>2
<1>3. ASSUME NEW w \in Workers, pc'[w] \in {"record", "settle"}, verdict'[w] = "FAILURE",
             item'[w] \notin Cancels
      PROVE  NotStanding(item[w])' /\ item'[w] = item[w] /\ (pc'[w] = "settle" => request'[item[w]] = "DONE")
  <2>1. VerdictPath(w)
    BY VerdictPaths
  <2>2. item'[w] = item[w] /\ item[w] \in Intents \ Cancels
    BY <1>t, <1>3, <2>1 DEF VerdictPath, CyclesType, NoItemPcs
  <2>3. CASE pc[w] = pc'[w] /\ verdict'[w] = verdict[w]
    <3>1. NotStanding(item[w]) /\ (pc[w] = "settle" => request[item[w]] = "DONE")
      BY <1>3, <2>2, <2>3 DEF FailsTruly
    <3>2. \A v \in Workers : pc[v] = "send" => item[v] # item[w]
      <4>1. CASE pc[w] = "record"
        BY <4>1 DEF OneDispatcher, DispatchPcs
      <4>2. CASE pc[w] = "settle"
        BY <3>1, <4>2, <2>2 DEF Requests, BeforeSend
      <4>. QED
        BY <1>3, <2>3, <4>1, <4>2
    <3>3. request[item[w]] = "DONE" => request'[item[w]] = "DONE"
      <4>1. CASE UNCHANGED provider
        BY <4>1 DEF provider
      <4>2. ASSUME NEW v \in Workers, Send(v) PROVE request[item[w]] = "DONE" => request'[item[w]] = "DONE"
        BY <1>t, <2>2, <3>2, <4>2 DEF Send, WorldType
      <4>3. ASSUME NEW j \in Intents, ProviderActs(j) \/ SupplierCancels(j)
            PROVE  request[item[w]] = "DONE" => request'[item[w]] = "DONE"
        BY <1>t, <2>2, <4>3 DEF ProviderActs, SupplierCancels, WorldType
      <4>. QED
        BY <4>1, <4>2, <4>3, ProviderSteps
    <3>. QED
      BY <1>1, <2>2, <2>3, <3>1, <3>2, <3>3 DEF NotStanding
  <2>4. CASE ~(pc[w] = pc'[w] /\ verdict'[w] = verdict[w])
    <3>1. /\ UNCHANGED provider
          /\ \/ pc[w] = "quote" /\ pc'[w] = "record"
             \/ pc'[w] = "record" /\ request[item[w]] = "REFUSED"
             \/ pc'[w] = "settle" /\ booking[item[w]] \in {"MISMATCH", "CANCELLED"}
      BY <1>3, <2>1, <2>2, <2>4 DEF VerdictPath, Unmoved
    <3>2. NotStanding(item[w]) /\ (pc'[w] = "settle" => request[item[w]] = "DONE")
      BY <1>0, <2>2, <3>1 DEF NotStanding, Requests, BeforeSend
    <3>. QED
      BY <2>2, <3>1, <3>2 DEF NotStanding, provider
  <2>. QED
    BY <2>3, <2>4
<1>4. ASSUME NEW w \in Workers, pc'[w] \in {"quote", "send"}, item'[w] \notin Cancels
      PROVE  status'[item'[w]] \notin Failures
  <2>1. OnPath(w) /\ QuotePath(w)
    BY DispatchPath, QuotePaths
  <2>2. /\ item'[w] = item[w] /\ item[w] \in Intents \ Cancels
        /\ pc[w] \in {"gated", "quote", "send"}
    BY <1>t, <1>4, <2>1 DEF QuotePath, CyclesType, NoItemPcs
  <2>3. CASE pc[w] = "gated"
    BY <1>4, <2>1, <2>2, <2>3 DEF QuotePath, Failures
  <2>4. CASE pc[w] \in {"quote", "send"} /\ status'[item[w]] = status[item[w]]
    BY <2>2, <2>4 DEF FailsTruly
  <2>5. CASE pc[w] \in {"quote", "send"} /\ status'[item[w]] # status[item[w]]
    <3>1. request[item[w]] = "NONE"
      BY <2>2, <2>5 DEF Requests, BeforeSend
    <3>2. \A v \in Workers :
            (pc[v] \in {"record", "claimed"} => item[v] # item[w])
            /\ (pc[v] = "settle" /\ item[v] = item[w] => verdict[v] # "FAILURE")
      BY <2>2, <2>5, <3>1 DEF OneDispatcher, DispatchPcs, FailsTruly
    <3>. QED
      BY <2>2, <2>5, <3>2, StatusPaths DEF StatusPath, Failures, OutcomeOf, SUCCESS_STATUSES
  <2>. QED
    BY <2>2, <2>3, <2>4, <2>5
<1>. QED
  BY <1>2, <1>3, <1>4 DEF FailsTruly, FailedBookingStandsNowhere, NotStanding, Failures

-----------------------------------------------------------------------------
(* The journey *)

\* How the journey and what is read from it change.
JourneyPath ==
  \/ UNCHANGED journey
  \/ journey' = Append(journey, Foreign)
  \/ \E w \in Workers :
       /\ pc[w] \in {"attach", "cancel"} /\ item[w] \in Intents
       /\ ~Applied(item[w])
       /\ journey' = Append(journey, item[w])

CheckpointPath(n) ==
  \/ checkpoint'[n] \in {checkpoint[n], None}
  \/ checkpoint'[n] = Revision /\ Mintable(n) /\ UNCHANGED journey

BasedPath(i) ==
  \/ based'[i] = based[i]
  \/ based'[i] = Revision /\ BaseHolds(i) /\ UNCHANGED journey

\* The journey changes in these ways only.
LEMMA JourneyPaths == TypeOK /\ [Next]_vars => JourneyPath
<1>. SUFFICES ASSUME TypeOK, [Next]_vars PROVE JourneyPath
  OBVIOUS
<1>t. CyclesType
  BY TypeParts
<1>1. ASSUME NEW w \in Workers, attachObservedStay(w) PROVE JourneyPath
  BY <1>1, <1>t DEF attachObservedStay, JourneyPath, CyclesType, NoItemPcs
<1>2. ASSUME NEW w \in Workers, applyObservedStayCancellation(w) PROVE JourneyPath
  BY <1>2, <1>t DEF applyObservedStayCancellation, JourneyPath, CyclesType,
      NoItemPcs
<1>3. CASE ForeignChange
  BY <1>3, <1>t DEF ForeignChange, JourneyPath, CyclesType, NoItemPcs,
      Trouble
<1>4. CASE UNCHANGED journey
  BY <1>4 DEF JourneyPath
<1>. QED
  BY <1>1, <1>2, <1>3, <1>4 DEF Next, Step, StartCycle, SkipCandidate,
      LeftoverPrepared, createPreparedExecutionAttempt, claimPrepared,
      GateDenies, GateAllows, EnterDispatching, QuoteRefused,
      checkpointRequestRef, CheckpointFails, Send, Answered, AnswerLost,
      Retrieve, DispatcherThrows, Record, StartApplying, AlreadyApplied,
      TakeObserved, ItemExists, loadHeads, observeExternalRecord,
      ApplyRefused, mintContinuationCheckpoints, EndCycle,
      StartReconciliation, claimForReconciliation, LookupAnswered,
      LookupUnknown, Settle, Stop, LoseSession, LeaseLapses,
      CheckpointExpires, ProviderActs, SupplierCancels, vars, canonical

\* A checkpoint changes in these ways only.
LEMMA CheckpointPaths == TypeOK /\ [Next]_vars => \A n \in Intents : CheckpointPath(n)
<1>. SUFFICES ASSUME TypeOK, [Next]_vars PROVE \A n \in Intents : CheckpointPath(n)
  OBVIOUS
<1>t. WorldType
  BY TypeParts
<1>1. ASSUME NEW w \in Workers, mintContinuationCheckpoints(w) PROVE \A n \in Intents : CheckpointPath(n)
  BY <1>1, <1>t DEF mintContinuationCheckpoints, CheckpointPath, WorldType
<1>2. ASSUME NEW i \in Intents, CheckpointExpires(i) PROVE \A n \in Intents : CheckpointPath(n)
  BY <1>2, <1>t DEF CheckpointExpires, CheckpointPath, WorldType
<1>3. CASE UNCHANGED checkpoint
  BY <1>3 DEF CheckpointPath
<1>. QED
  BY <1>1, <1>2, <1>3 DEF Next, Step, StartCycle, SkipCandidate,
      LeftoverPrepared, createPreparedExecutionAttempt, claimPrepared,
      GateDenies, GateAllows, EnterDispatching, QuoteRefused,
      checkpointRequestRef, CheckpointFails, Send, Answered, AnswerLost,
      Retrieve, DispatcherThrows, Record, StartApplying, AlreadyApplied,
      TakeObserved, ItemExists, loadHeads, observeExternalRecord,
      attachObservedStay, applyObservedStayCancellation, ApplyRefused,
      EndCycle, StartReconciliation, claimForReconciliation, LookupAnswered,
      LookupUnknown, Settle, Stop, LoseSession, LeaseLapses, ProviderActs,
      SupplierCancels, ForeignChange, vars, canonical

\* The revision for which the gate passed changes in these ways only.
LEMMA BasedPaths == TypeOK /\ [Next]_vars => \A j \in Intents : BasedPath(j)
<1>. SUFFICES ASSUME TypeOK, [Next]_vars PROVE \A j \in Intents : BasedPath(j)
  OBVIOUS
<1>t. CyclesType /\ WorldType
  BY TypeParts
<1>1. ASSUME NEW w \in Workers, GateAllows(w) PROVE \A j \in Intents : BasedPath(j)
  BY <1>1, <1>t DEF GateAllows, BasedPath, WorldType, canonical, CyclesType,
      NoItemPcs
<1>2. CASE UNCHANGED based
  BY <1>2 DEF BasedPath
<1>. QED
  BY <1>1, <1>2 DEF Next, Step, StartCycle, SkipCandidate, LeftoverPrepared,
      createPreparedExecutionAttempt, claimPrepared, GateDenies,
      EnterDispatching, QuoteRefused, checkpointRequestRef, CheckpointFails,
      Send, Answered, AnswerLost, Retrieve, DispatcherThrows, Record,
      StartApplying, AlreadyApplied, TakeObserved, ItemExists, loadHeads,
      observeExternalRecord, attachObservedStay,
      applyObservedStayCancellation, ApplyRefused,
      mintContinuationCheckpoints, EndCycle, StartReconciliation,
      claimForReconciliation, LookupAnswered, LookupUnknown, Settle, Stop,
      LoseSession, LeaseLapses, CheckpointExpires, ProviderActs,
      SupplierCancels, ForeignChange, vars

\* How a cycle comes to have rows to apply.
ApplyPath(w) ==
  pc'[w] \in {"apply"} \cup ApplyPcs =>
    \/ /\ pc[w] \in {"apply"} \cup ApplyPcs
       /\ todo'[w] \subseteq todo[w]
       /\ pc'[w] \in ApplyPcs =>
            \/ item'[w] \in todo[w]
            \/ pc[w] \in ApplyPcs /\ item'[w] = item[w]
    \/ /\ pc'[w] = "apply"
       /\ \A i \in todo'[w] : Succeeded(i)

\* Every cycle that applies is on its path, step by step.
LEMMA ApplyPaths == TypeOK /\ [Next]_vars => \A v \in Workers : ApplyPath(v)
<1>. SUFFICES ASSUME TypeOK, [Next]_vars PROVE \A v \in Workers : ApplyPath(v)
  OBVIOUS
<1>t. CyclesType
  BY TypeParts
<1>1. ASSUME NEW w \in Workers, StartCycle(w) PROVE \A v \in Workers : ApplyPath(v)
  BY <1>1, <1>t DEF StartCycle, ApplyPath, ApplyPcs, Others, CyclesType, Goto
<1>2. ASSUME NEW w \in Workers, SkipCandidate(w) PROVE \A v \in Workers : ApplyPath(v)
  BY <1>2, <1>t DEF SkipCandidate, ApplyPath, ApplyPcs, Others, CyclesType,
      Goto
<1>3. ASSUME NEW w \in Workers, LeftoverPrepared(w) PROVE \A v \in Workers : ApplyPath(v)
  BY <1>3, <1>t, TakeAt DEF LeftoverPrepared, ApplyPath, ApplyPcs, Others
<1>4. ASSUME NEW w \in Workers, createPreparedExecutionAttempt(w) PROVE \A v \in Workers : ApplyPath(v)
  BY <1>4, <1>t, TakeAt DEF createPreparedExecutionAttempt, ApplyPath,
      ApplyPcs, Others
<1>5. ASSUME NEW w \in Workers, claimPrepared(w) PROVE \A v \in Workers : ApplyPath(v)
  BY <1>5, <1>t, MoveAt, NextItemAt DEF claimPrepared, ApplyPath, ApplyPcs,
      Others
<1>6. ASSUME NEW w \in Workers, GateDenies(w) PROVE \A v \in Workers : ApplyPath(v)
  BY <1>6, <1>t, NextItemAt DEF GateDenies, ApplyPath, ApplyPcs, Others
<1>7. ASSUME NEW w \in Workers, GateAllows(w) PROVE \A v \in Workers : ApplyPath(v)
  BY <1>7, <1>t, MoveAt DEF GateAllows, ApplyPath, ApplyPcs, Others
<1>8. ASSUME NEW w \in Workers, EnterDispatching(w) PROVE \A v \in Workers : ApplyPath(v)
  BY <1>8, <1>t, MoveAt, NextItemAt DEF EnterDispatching, ApplyPath,
      ApplyPcs, Others
<1>9. ASSUME NEW w \in Workers, QuoteRefused(w) PROVE \A v \in Workers : ApplyPath(v)
  BY <1>9, <1>t, ReturnAt DEF QuoteRefused, ApplyPath, ApplyPcs, Others
<1>10. ASSUME NEW w \in Workers, checkpointRequestRef(w) PROVE \A v \in Workers : ApplyPath(v)
  BY <1>10, <1>t, MoveAt DEF checkpointRequestRef, ApplyPath, ApplyPcs,
      Others
<1>11. ASSUME NEW w \in Workers, CheckpointFails(w) PROVE \A v \in Workers : ApplyPath(v)
  BY <1>11, <1>t, ReturnAt DEF CheckpointFails, ApplyPath, ApplyPcs, Others
<1>12. ASSUME NEW w \in Workers, Send(w) PROVE \A v \in Workers : ApplyPath(v)
  BY <1>12, <1>t, MoveAt DEF Send, ApplyPath, ApplyPcs, Others
<1>13. ASSUME NEW w \in Workers, Answered(w) PROVE \A v \in Workers : ApplyPath(v)
  BY <1>13, <1>t, MoveAt, ReturnAt DEF Answered, ApplyPath, ApplyPcs, Others
<1>14. ASSUME NEW w \in Workers, AnswerLost(w) PROVE \A v \in Workers : ApplyPath(v)
  BY <1>14, <1>t, ReturnAt DEF AnswerLost, ApplyPath, ApplyPcs, Others
<1>15. ASSUME NEW w \in Workers, Retrieve(w) PROVE \A v \in Workers : ApplyPath(v)
  BY <1>15, <1>t, ReturnAt DEF Retrieve, ApplyPath, ApplyPcs, Others
<1>16. ASSUME NEW w \in Workers, DispatcherThrows(w) PROVE \A v \in Workers : ApplyPath(v)
  BY <1>16, <1>t, ReturnAt DEF DispatcherThrows, ApplyPath, ApplyPcs, Others
<1>17. ASSUME NEW w \in Workers, Record(w) PROVE \A v \in Workers : ApplyPath(v)
  BY <1>17, <1>t, NextItemAt DEF Record, ApplyPath, ApplyPcs, Others
<1>18. ASSUME NEW w \in Workers, StartApplying(w) PROVE \A v \in Workers : ApplyPath(v)
  BY <1>18, <1>t DEF StartApplying, ApplyPath, ApplyPcs, Others, CyclesType,
      Goto
<1>19. ASSUME NEW w \in Workers, AlreadyApplied(w) PROVE \A v \in Workers : ApplyPath(v)
  BY <1>19, <1>t DEF AlreadyApplied, ApplyPath, ApplyPcs, Others, CyclesType,
      Goto
<1>20. ASSUME NEW w \in Workers, TakeObserved(w) PROVE \A v \in Workers : ApplyPath(v)
  BY <1>20, <1>t, TakeAt DEF TakeObserved, ApplyPath, ApplyPcs, Others,
      CyclesType, Goto
<1>21. ASSUME NEW w \in Workers, ItemExists(w) PROVE \A v \in Workers : ApplyPath(v)
  BY <1>21, <1>t, MoveAt DEF ItemExists, ApplyPath, ApplyPcs, Others
<1>22. ASSUME NEW w \in Workers, loadHeads(w) PROVE \A v \in Workers : ApplyPath(v)
  BY <1>22, <1>t DEF loadHeads, ApplyPath, ApplyPcs, Others, CyclesType, Goto
<1>23. ASSUME NEW w \in Workers, observeExternalRecord(w) PROVE \A v \in Workers : ApplyPath(v)
  BY <1>23, <1>t, MoveAt, NextItemAt DEF observeExternalRecord, ApplyPath,
      ApplyPcs, Others
<1>24. ASSUME NEW w \in Workers, attachObservedStay(w) PROVE \A v \in Workers : ApplyPath(v)
  BY <1>24, <1>t, MoveAt, NextItemAt DEF attachObservedStay, ApplyPath,
      ApplyPcs, Others
<1>25. ASSUME NEW w \in Workers, applyObservedStayCancellation(w) PROVE \A v \in Workers : ApplyPath(v)
  BY <1>25, <1>t, MoveAt, NextItemAt DEF applyObservedStayCancellation,
      ApplyPath, ApplyPcs, Others
<1>26. ASSUME NEW w \in Workers, ApplyRefused(w) PROVE \A v \in Workers : ApplyPath(v)
  BY <1>26, <1>t, NextItemAt DEF ApplyRefused, ApplyPath, ApplyPcs, Others
<1>27. ASSUME NEW w \in Workers, mintContinuationCheckpoints(w) PROVE \A v \in Workers : ApplyPath(v)
  BY <1>27, <1>t, NextItemAt DEF mintContinuationCheckpoints, ApplyPath,
      ApplyPcs, Others
<1>28. ASSUME NEW w \in Workers, EndCycle(w) PROVE \A v \in Workers : ApplyPath(v)
  BY <1>28, <1>t, MoveAt DEF EndCycle, ApplyPath, ApplyPcs, Others
<1>29. ASSUME NEW w \in Workers, StartReconciliation(w) PROVE \A v \in Workers : ApplyPath(v)
  BY <1>29, <1>t DEF StartReconciliation, ApplyPath, ApplyPcs, Others,
      CyclesType, Goto
<1>30. ASSUME NEW w \in Workers, claimForReconciliation(w) PROVE \A v \in Workers : ApplyPath(v)
  BY <1>30, <1>t, TakeAt DEF claimForReconciliation, ApplyPath, ApplyPcs,
      Others, CyclesType, Goto
<1>31. ASSUME NEW w \in Workers, LookupAnswered(w) PROVE \A v \in Workers : ApplyPath(v)
  BY <1>31, <1>t, NextItemAt, ReturnAt DEF LookupAnswered, ApplyPath,
      ApplyPcs, Others
<1>32. ASSUME NEW w \in Workers, LookupUnknown(w) PROVE \A v \in Workers : ApplyPath(v)
  BY <1>32, <1>t, NextItemAt DEF LookupUnknown, ApplyPath, ApplyPcs, Others
<1>33. ASSUME NEW w \in Workers, Settle(w) PROVE \A v \in Workers : ApplyPath(v)
  BY <1>33, <1>t, NextItemAt DEF Settle, ApplyPath, ApplyPcs, Others
<1>34. ASSUME NEW w \in Workers, Stop(w) PROVE \A v \in Workers : ApplyPath(v)
  BY <1>34, <1>t, NextItemAt DEF Stop, ApplyPath, ApplyPcs, Others
<1>35. CASE UNCHANGED cycles
  BY <1>35 DEF cycles, ApplyPath
<1>. QED
  BY <1>1, <1>2, <1>3, <1>4, <1>5, <1>6, <1>7, <1>8, <1>9, <1>10, <1>11,
      <1>12, <1>13, <1>14, <1>15, <1>16, <1>17, <1>18, <1>19, <1>20, <1>21,
      <1>22, <1>23, <1>24, <1>25, <1>26, <1>27, <1>28, <1>29, <1>30, <1>31,
      <1>32, <1>33, <1>34, <1>35 DEF Next, Step, LoseSession, LeaseLapses,
      CheckpointExpires, ProviderActs, SupplierCancels, ForeignChange, vars

\* The journey keeps its past; what is added by a cycle was not there.
LEMMA JourneyGrows ==
  TypeOK /\ [Next]_vars =>
    /\ Revision \in Nat /\ Revision <= Revision'
    /\ \A r \in DOMAIN journey : r \in DOMAIN journey' /\ journey'[r] = journey[r]
    /\ \A r \in DOMAIN journey' \ DOMAIN journey :
         \/ journey'[r] = Foreign
         \/ r = Revision + 1 /\ \E w \in Workers :
              /\ pc[w] \in {"attach", "cancel"}
              /\ item[w] = journey'[r] /\ ~Applied(item[w])
<1>. SUFFICES ASSUME TypeOK, [Next]_vars
     PROVE  /\ Revision \in Nat /\ Revision <= Revision'
            /\ \A r \in DOMAIN journey : r \in DOMAIN journey' /\ journey'[r] = journey[r]
            /\ \A r \in DOMAIN journey' \ DOMAIN journey :
                 \/ journey'[r] = Foreign
                 \/ r = Revision + 1 /\ \E w \in Workers :
                      /\ pc[w] \in {"attach", "cancel"}
                      /\ item[w] = journey'[r] /\ ~Applied(item[w])
  OBVIOUS
<1>1. journey \in Seq(Intents \cup {Foreign}) /\ JourneyPath
  BY TypeParts, JourneyPaths DEF WorldType
<1>. QED
  BY <1>1 DEF JourneyPath, Revision

\* What is done stays done.
LEMMA DoneStays == TypeOK /\ [Next]_vars => \A p \in Intents : Done(p) => Done(p)'
<1>. SUFFICES ASSUME TypeOK, [Next]_vars, NEW p \in Intents, Done(p) PROVE Done(p)'
  OBVIOUS
<1>1. Succeeded(p)'
  BY StatusPaths DEF StatusPath, Done, Succeeded
<1>2. Applied(p)'
  BY JourneyGrows DEF Done, Applied
<1>. QED
  BY <1>1, <1>2 DEF Done

\* Whoever has a row has its prerequisites done.
RowsReady == \A i \in Intents : status[i] # NoRow => Ready(i)

\* A step keeps the prerequisites of every row done.
LEMMA RowsReadyStep == TypeOK /\ RowsReady /\ [Next]_vars => RowsReady'
<1>. SUFFICES ASSUME TypeOK, RowsReady, [Next]_vars, NEW i \in Intents, status'[i] # NoRow
     PROVE  Ready(i)'
  BY DEF RowsReady
<1>1. Ready(i)
  BY StatusPaths DEF StatusPath, RowsReady
<1>2. Needs[i] \subseteq Intents
  BY StayNeeds
<1>. QED
  BY <1>1, <1>2, DoneStays DEF Ready

\* What is about to be applied has succeeded.
ToApply ==
  /\ \A w \in Workers : pc[w] \in {"apply"} \cup ApplyPcs => \A i \in todo[w] : Succeeded(i)
  /\ \A w \in Workers : pc[w] \in ApplyPcs => Succeeded(item[w])

\* A step keeps what is about to be applied a success.
LEMMA ToApplyStep == TypeOK /\ ToApply /\ [Next]_vars => ToApply'
<1>. SUFFICES ASSUME TypeOK, ToApply, [Next]_vars PROVE ToApply'
  OBVIOUS
<1>1. \A i \in Intents : Succeeded(i) => Succeeded(i)'
  BY StatusPaths DEF StatusPath, Succeeded
<1>2. CyclesType /\ CyclesType'
  BY TypeParts, NextTypes
<1>3. ASSUME NEW w \in Workers, pc'[w] \in {"apply"} \cup ApplyPcs
      PROVE  /\ \A i \in todo'[w] : Succeeded(i)
             /\ pc'[w] \in ApplyPcs => Succeeded(item'[w])
  BY <1>3, ApplyPaths DEF ApplyPath, ToApply, ApplyPcs
<1>4. \A w \in Workers :
        /\ todo'[w] \subseteq Intents
        /\ pc'[w] \in ApplyPcs => item'[w] \in Intents
  BY <1>2 DEF CyclesType, ApplyPcs, NoItemPcs
<1>5. \A w \in Workers :
        pc'[w] \in {"apply"} \cup ApplyPcs =>
          /\ \A i \in todo'[w] : status'[i] \in SUCCESS_STATUSES
          /\ pc'[w] \in ApplyPcs => status'[item'[w]] \in SUCCESS_STATUSES
  BY <1>1, <1>3, <1>4 DEF Succeeded
<1>. QED
  BY <1>5 DEF ToApply, Succeeded

\* A step applies nothing twice.
LEMMA AppliedOnceStep == TypeOK /\ ToApply /\ AppliedOnce /\ [Next]_vars => AppliedOnce'
<1>. SUFFICES ASSUME TypeOK, ToApply, AppliedOnce, [Next]_vars PROVE AppliedOnce'
  OBVIOUS
<1>1. \A i \in Intents : Succeeded(i) => Succeeded(i)'
  BY StatusPaths DEF StatusPath, Succeeded
<1>2. SUFFICES ASSUME NEW r \in DOMAIN journey', journey'[r] \in Intents
      PROVE  /\ Succeeded(journey'[r])
             /\ \A q \in DOMAIN journey' : journey'[q] = journey'[r] => q = r
  BY <1>1, <1>2 DEF AppliedOnce, Succeeded
<1>3. journey'[r] # Foreign
  BY <1>2, StayValuesDiffer
<1>4. CASE r \in DOMAIN journey
  <2>1. Succeeded(journey'[r]) /\ \A q \in DOMAIN journey : journey'[q] = journey'[r] => q = r
    BY <1>2, <1>4, JourneyGrows DEF AppliedOnce
  <2>2. \A q \in DOMAIN journey' \ DOMAIN journey : journey'[q] # journey'[r]
    BY <1>3, <1>4, JourneyGrows DEF Applied
  <2>. QED
    BY <2>1, <2>2
<1>5. CASE r \notin DOMAIN journey
  <2>1. /\ r = Revision + 1 /\ ~Applied(journey'[r])
        /\ Succeeded(journey'[r])
    BY <1>3, <1>5, JourneyGrows DEF ToApply, ApplyPcs
  <2>2. \A q \in DOMAIN journey : journey'[q] # journey'[r]
    BY <2>1, JourneyGrows DEF Applied
  <2>3. \A q \in DOMAIN journey' \ DOMAIN journey : journey'[q] = journey'[r] => q = r
    BY <1>3, <2>1, JourneyGrows
  <2>. QED
    BY <2>1, <2>2, <2>3
<1>. QED
  BY <1>4, <1>5

\* The journey up to revision r was changed by what i needs and by nobody else.
Own(i, r) ==
  /\ r \in 0..Revision
  /\ \A q \in DOMAIN journey : q <= r => journey[q] \in Prerequisites(i)

\* Checkpoints and gates are about such revisions.
Bases ==
  \A i \in Intents :
    /\ checkpoint[i] # None => Own(i, checkpoint[i])
    /\ based[i] # None => Own(i, based[i])

\* A step keeps checkpoints and gates to the changes of the plan itself.
LEMMA BasesStep == TypeOK /\ Bases /\ [Next]_vars => Bases'
<1>. SUFFICES ASSUME TypeOK, Bases, [Next]_vars, NEW i \in Intents
     PROVE  /\ checkpoint'[i] # None => Own(i, checkpoint[i])'
            /\ based'[i] # None => Own(i, based[i])'
  BY DEF Bases
<1>0. Revision \in Nat /\ Revision' \in Nat /\ DOMAIN journey = 1..Revision /\ DOMAIN journey' = 1..Revision'
  BY TypeParts, NextTypes DEF WorldType, Revision
<1>1. \A r : Own(i, r) => r \in 0..Revision' /\ \A q \in DOMAIN journey' : q <= r => journey'[q] \in Prerequisites(i)
  BY <1>0, JourneyGrows DEF Own
<1>2. ASSUME checkpoint'[i] # None PROVE Own(i, checkpoint'[i])
  BY <1>0, <1>2, CheckpointPaths DEF CheckpointPath, Bases, Own, Mintable
<1>3. ASSUME based'[i] # None PROVE Own(i, based'[i])
  BY <1>0, <1>3, BasedPaths DEF BasedPath, Bases, Own, BaseHolds
<1>. QED
  BY <1>1, <1>2, <1>3 DEF Own

-----------------------------------------------------------------------------
(* The inductive invariant *)

IInv ==
  /\ TypeOK /\ OneDispatcher /\ Requests /\ Successes
  /\ RowsReady /\ ToApply /\ AppliedOnce /\ Bases

LEMMA InvInit == Init => IInv
<1>. SUFFICES ASSUME Init PROVE IInv
  OBVIOUS
<1>1. TypeOK
  BY TypeInit
<1>2. \A w \in Workers : pc[w] = "idle"
  BY DEF Init
<1>3. \A i \in Intents :
        /\ status[i] = NoRow /\ asked[i] = 0 /\ request[i] = "NONE"
        /\ checkpoint[i] = None /\ based[i] = None
        /\ i \notin Cancels => booking[i] = "NONE"
  BY DEF Init
<1>4. OneDispatcher /\ Requests
  BY <1>2, <1>3 DEF OneDispatcher, Requests, DispatchPcs, BeforeSend
<1>5. Successes /\ RowsReady /\ ToApply
  BY <1>2, <1>3
     DEF Successes, SuccessIsObserved, RowsReady, ToApply, ApplyPcs, Succeeded, SUCCESS_STATUSES, NoRow
<1>6. AppliedOnce
  BY DEF Init, AppliedOnce
<1>7. Bases
  BY <1>3 DEF Bases
<1>. QED
  BY <1>1, <1>4, <1>5, <1>6, <1>7 DEF IInv

LEMMA InvStep == IInv /\ [Next]_vars => IInv'
BY TypeStep, OneDispatcherStep, RequestsStep, SuccessStep, RowsReadyStep, ToApplyStep,
   AppliedOnceStep, BasesStep DEF IInv

\* The state keeps its shape: a cycle has a row in hand inside the bodies of its
\* loops and nowhere else.
THEOREM TypeCorrect == Spec => []TypeOK
BY TypeInit, TypeStep, PTL DEF Spec

\* The invariants of the stays, with what makes them inductive.
THEOREM Invariance == Spec => []IInv
BY InvInit, InvStep, PTL DEF Spec

\* No stay is booked or cancelled twice, whatever cycles crash or overlap.
THEOREM AskedOnce == Spec => []NeverAskedTwice
<1>1. IInv => NeverAskedTwice
  BY DEF IInv, Requests, NeverAskedTwice
<1>. QED  BY <1>1, Invariance, PTL

\* A success in the rows is one that the provider has shown.
THEOREM SuccessWasObserved == Spec => []SuccessIsObserved
<1>1. IInv => SuccessIsObserved
  BY DEF IInv, Successes
<1>. QED  BY <1>1, Invariance, PTL

\* Whatever a request needs had succeeded and was on the journey before it went
\* out: the replacement is proven before the displaced stay is cancelled.
THEOREM ReplacementCameFirst == Spec => []ReplacementFirst
<1>1. IInv => ReplacementFirst
  <2>. SUFFICES ASSUME IInv, NEW i \in Intents, request[i] # "NONE", NEW p \in Needs[i]
       PROVE  Succeeded(p) /\ Applied(p) /\ booking[p] \in {Wanted(p), "CANCELLED"}
    BY DEF ReplacementFirst
  <2>1. p \in Intents
    BY StayNeeds
  <2>2. status[i] # NoRow
    BY DEF IInv, Requests
  <2>3. Done(p)
    BY <2>2 DEF IInv, RowsReady, Ready
  <2>. QED
    BY <2>1, <2>3 DEF IInv, Successes, SuccessIsObserved, Done
<1>. QED  BY <1>1, Invariance, PTL

\* Retries, replays and overlapping cycles apply a stay once, after its success.
THEOREM OnceApplied == Spec => []AppliedOnce
<1>1. IInv => AppliedOnce
  BY DEF IInv
<1>. QED  BY <1>1, Invariance, PTL

\* When the gate lets an action pass, only what the action needs has changed
\* the journey since the plan was approved.
THEOREM OnlyOwnChanges == Spec => []OnOwnChanges
<1>1. IInv => OnOwnChanges
  BY DEF IInv, Bases, Own, OnOwnChanges
<1>. QED  BY <1>1, Invariance, PTL

\* If answers are lost to timeouts only, a booking that is reported as failed is
\* not on its way and does not stand.
THEOREM FailuresAreTrue ==
  ASSUME LostAs \subseteq {"TIMEOUT"}
  PROVE  Spec => []FailedBookingStandsNowhere
<1>1. Init => FailsTruly
  BY DEF Init, FailsTruly, FailedBookingStandsNowhere, NoRow
<1>2. IInv /\ FailsTruly /\ [Next]_vars => FailsTruly'
  BY FailureStep DEF IInv
<1>3. FailsTruly => FailedBookingStandsNowhere
  BY DEF FailsTruly
<1>. QED  BY <1>1, <1>2, <1>3, Invariance, PTL DEF Spec
-----------------------------------------------------------------------------
(* The refinement of StayPlan *)

\* The dispatch of an attempt, once the gate has let it pass.
AfterGate == DispatchPcs \ {"claimed"}

\* Whatever is asked or has been passed the gate first.
Gated ==
  /\ \A w \in Workers : pc[w] \in AfterGate => based[item[w]] # None
  /\ \A i \in Intents : status[i] \in Underway => based[i] # None

LEMMA GatedInit == Init => Gated
BY DEF Init, Gated, AfterGate, DispatchPcs, Underway, NoRow

\* A step keeps the gate in front.
LEMMA GatedStep == TypeOK /\ Gated /\ [Next]_vars => Gated'
<1>. SUFFICES ASSUME TypeOK, Gated, [Next]_vars PROVE Gated'
  OBVIOUS
<1>t. WorldType /\ CyclesType
  BY TypeParts
<1>0. Revision \in Nat
  BY <1>t DEF WorldType, Revision
<1>1. \A i \in Intents : based[i] # None => based'[i] # None
  BY <1>0, BasedPaths, StayValuesDiffer DEF BasedPath
<1>2. ASSUME NEW w \in Workers, pc'[w] \in AfterGate PROVE based'[item'[w]] # None
  <2>1. ~Claims(w)
    BY <1>t, <1>2, MoveAt DEF Claims, claimPrepared, AfterGate
  <2>2. /\ pc[w] \in DispatchPcs /\ item'[w] = item[w] /\ item[w] \in Intents
        /\ pc[w] = "claimed" => GateAllows(w)
    BY <1>t, <1>2, <2>1, DispatchPath DEF OnPath, AfterGate, DispatchPcs, CyclesType, NoItemPcs
  <2>3. CASE pc[w] = "claimed"
    BY <1>0, <1>t, <2>2, <2>3, StayValuesDiffer DEF GateAllows, WorldType
  <2>4. CASE pc[w] \in AfterGate
    BY <1>1, <2>2, <2>4 DEF Gated
  <2>. QED
    BY <2>2, <2>3, <2>4 DEF AfterGate
<1>3. ASSUME NEW i \in Intents, status'[i] \in Underway PROVE based'[i] # None
  BY <1>1, <1>3, StatusPaths DEF StatusPath, Gated, AfterGate, DispatchPcs
<1>. QED
  BY <1>2, <1>3 DEF Gated

\* A step changes one row at most.
LEMMA StatusAt ==
  TypeOK /\ [Next]_vars /\ ~UNCHANGED status =>
    \E i \in Intents : \A j \in Intents \ {i} : status'[j] = status[j]
<1>. SUFFICES ASSUME TypeOK, [Next]_vars, ~UNCHANGED status
     PROVE  \E i \in Intents : \A j \in Intents \ {i} : status'[j] = status[j]
  OBVIOUS
<1>t. RowsType /\ CyclesType
  BY TypeParts
<1>0. \A w \in Workers : pc[w] \notin NoItemPcs => item[w] \in Intents
  BY <1>t DEF CyclesType
<1>1. ASSUME NEW w \in Workers, createPreparedExecutionAttempt(w)
      PROVE  \E i \in Intents : \A j \in Intents \ {i} : status'[j] = status[j]
  BY <1>1, <1>t DEF createPreparedExecutionAttempt, RowsType, CyclesType
<1>2. ASSUME NEW w \in Workers, claimPrepared(w)
      PROVE  \E i \in Intents : \A j \in Intents \ {i} : status'[j] = status[j]
  <2>1. item[w] \in Intents
    BY <1>0, <1>2 DEF claimPrepared, NoItemPcs
  <2>. QED
    BY <1>2, <1>t, <2>1 DEF claimPrepared, RowsType
<1>3. ASSUME NEW w \in Workers, GateDenies(w) \/ EnterDispatching(w) \/ Record(w) \/ Settle(w)
      PROVE  \E i \in Intents : \A j \in Intents \ {i} : status'[j] = status[j]
  <2>1. item[w] \in Intents
    BY <1>0, <1>3 DEF GateDenies, EnterDispatching, Record, Settle, NoItemPcs
  <2>. QED
    BY <1>3, <1>t, <2>1, TransitionPath DEF GateDenies, EnterDispatching, Record, Settle
<1>4. ASSUME NEW w \in Workers, claimForReconciliation(w)
      PROVE  \E i \in Intents : \A j \in Intents \ {i} : status'[j] = status[j]
  BY <1>4, <1>t DEF claimForReconciliation, RowsType, CyclesType
<1>. QED
  BY <1>1, <1>2, <1>3, <1>4 DEF Next, Step,
      StartCycle, SkipCandidate, LeftoverPrepared, GateAllows, QuoteRefused,
      checkpointRequestRef, CheckpointFails, Send, Answered, AnswerLost,
      Retrieve, DispatcherThrows, StartApplying, AlreadyApplied,
      TakeObserved, ItemExists, loadHeads, observeExternalRecord,
      attachObservedStay, applyObservedStayCancellation, ApplyRefused,
      mintContinuationCheckpoints, EndCycle, StartReconciliation,
      LookupAnswered, LookupUnknown, Stop, LoseSession, LeaseLapses,
      CheckpointExpires, ProviderActs, SupplierCancels, ForeignChange, vars, rows

\* A step moves a row, or the provider, or the gate, or the journey.
LEMMA StepKinds ==
  ASSUME [Next]_vars
  PROVE  \/ UNCHANGED <<provider, journey, based>>
         \/ \E w \in Workers : Send(w) \/ GateAllows(w)
         \/ \E i \in Intents : ProviderActs(i) \/ SupplierCancels(i)
         \/ UNCHANGED <<rows, provider, based>>
BY DEF Next, Step, StartCycle, SkipCandidate, LeftoverPrepared,
    createPreparedExecutionAttempt, claimPrepared, GateDenies,
    EnterDispatching, QuoteRefused, checkpointRequestRef, CheckpointFails,
    Answered, AnswerLost, Retrieve, DispatcherThrows, Record, StartApplying,
    AlreadyApplied, TakeObserved, ItemExists, loadHeads,
    observeExternalRecord, attachObservedStay, applyObservedStayCancellation,
    ApplyRefused, mintContinuationCheckpoints, EndCycle, StartReconciliation,
    claimForReconciliation, LookupAnswered, LookupUnknown, Settle, Stop,
    LoseSession, LeaseLapses, CheckpointExpires, ForeignChange, vars,
    canonical

LEMMA ReportedCases ==
  ASSUME NEW i \in Intents
  PROVE  /\ Succeeded(i) => Reported(i) = "SUCCEEDED"
         /\ ~Succeeded(i) /\ status[i] \in Failures => Reported(i) = "FAILED"
         /\ ~Succeeded(i) /\ status[i] \notin Failures => Reported(i) = "OPEN"
<1>1. Succeeded(i) /\ status[i] \in Failures => FALSE
  BY DEF Succeeded, SUCCESS_STATUSES, Failures
<1>2. CASE Succeeded(i)
  BY <1>1, <1>2, Zenon DEF Reported, Failures
<1>3. CASE ~Succeeded(i) /\ status[i] \in Failures
  BY <1>3, Zenon DEF Reported, Failures
<1>4. CASE ~Succeeded(i) /\ status[i] \notin Failures
  BY <1>4, Zenon DEF Reported, Failures
<1>. QED
  BY <1>2, <1>3, <1>4

\* What makes the steps map: the invariants, and truth of failures.
PlanInv == IInv /\ FailsTruly /\ Gated

\* The initial states map to the initial states.
LEMMA PlanInit == Init => Plan!Init
BY DEF Init, Plan!Init, Reported, Succeeded, SUCCESS_STATUSES, NoRow

\* Rows, journey and admissions as the plan sees them.
LEMMA PlanSame ==
  ASSUME UNCHANGED <<status, provider, journey, based>>
  PROVE  UNCHANGED Plan!planVars
BY DEF Plan!planVars, Reported, Succeeded, provider

\* A row that moves reports nothing new, a success, or a failure.
LEMMA PlanRow ==
  ASSUME PlanInv, FailsTruly', Successes', [Next]_vars, UNCHANGED <<provider, journey, based>>
  PROVE  [Plan!Next]_Plan!planVars
<1>t. TypeOK
  BY DEF PlanInv, IInv
<1>1. CASE UNCHANGED status
  BY <1>1, PlanSame
<1>2. CASE ~UNCHANGED status
  <2>1. PICK i \in Intents : \A j \in Intents \ {i} : status'[j] = status[j]
    BY <1>2, <1>t, StatusAt
  <2>2. \A j \in Intents \ {i} : Reported(j)' = Reported(j)
    BY <2>1 DEF Reported, Succeeded
  <2>3. CASE status'[i] = status[i]
    <3>1. Reported(i)' = Reported(i)
      BY <2>3 DEF Reported, Succeeded
    <3>. QED
      BY <2>2, <3>1 DEF Plan!planVars, provider
  <2>4. CASE status'[i] # status[i]
    <3>1. Reported(i) = "OPEN"
      BY <1>t, <2>4, StatusPaths DEF StatusPath, Reported, Failures
    <3>2. CASE Reported(i)' = "OPEN"
      BY <2>2, <3>1, <3>2 DEF Plan!planVars, provider
    <3>3. CASE Succeeded(i)'
      <4>1. status'[i] \in Underway /\ Reported(i)' = "SUCCEEDED"
        BY <3>3, <2>4, <1>t, StatusPaths
           DEF Succeeded, Reported, StatusPath, Underway, SUCCESS_STATUSES, OutcomeOf
      <4>2. based[i] # None
        BY <1>t, <2>4, <4>1, StatusPaths DEF StatusPath, PlanInv, Gated, AfterGate, DispatchPcs
      <4>3. Plan!Shown(i)
        BY <3>3 DEF Successes, SuccessIsObserved, Wanted, Plan!Shown, provider
      <4>4. Plan!Succeed(i)
        BY <2>2, <3>1, <4>1, <4>2, <4>3 DEF Plan!Succeed, Plan!Report, provider
      <4>. QED
        BY <4>4 DEF Plan!Next
    <3>4. CASE status'[i] \in Failures
      <4>1. Reported(i)' = "FAILED"
        BY <3>4 DEF Reported, Succeeded, Failures, SUCCESS_STATUSES
      <4>2. i \in Cancels \/ (request[i] # "SENT" /\ booking[i] # "CONFIRMED")
        BY <3>4 DEF FailsTruly, FailedBookingStandsNowhere, Failures, provider
      <4>3. Plan!Fail(i)
        BY <2>2, <3>1, <4>1, <4>2 DEF Plan!Fail, Plan!Report, provider
      <4>. QED
        BY <4>3 DEF Plan!Next
    <3>. QED
      BY <3>2, <3>3, <3>4 DEF Reported, Failures
  <2>. QED
    BY <2>3, <2>4
<1>. QED
  BY <1>1, <1>2

\* A request that goes out is asked for once, with the gate passed and, if it
\* is a booking, nothing reported.
LEMMA PlanAsk ==
  ASSUME PlanInv, NEW w \in Workers, Send(w)
  PROVE  Plan!Ask(item[w])
<1>t. TypeOK
  BY DEF PlanInv, IInv
<1>1. item[w] \in Intents
  BY <1>t, TypeParts DEF Send, CyclesType, NoItemPcs
<1>2. based[item[w]] # None
  BY DEF Send, PlanInv, Gated, AfterGate, DispatchPcs
<1>3. request[item[w]] = "NONE"
  BY <1>1 DEF Send, PlanInv, IInv, Requests, BeforeSend
<1>4. ASSUME item[w] \notin Cancels PROVE Reported(item[w]) = "OPEN"
  <2>1. status[item[w]] \notin Failures
    BY <1>4 DEF Send, PlanInv, FailsTruly
  <2>2. booking[item[w]] = "NONE"
    BY <1>1, <1>3, <1>4 DEF PlanInv, IInv, Requests
  <2>3. ~Succeeded(item[w])
    BY <1>1, <1>4, <2>2 DEF PlanInv, IInv, Successes, SuccessIsObserved, Wanted
  <2>. QED
    BY <2>1, <2>3 DEF Reported, Failures
<1>5. UNCHANGED <<status, booking, journey, based>>
  BY DEF Send, rows, canonical
<1>6. request' = [request EXCEPT ![item[w]] = "SENT"]
  BY DEF Send
<1>7. \A j \in Intents : Reported(j)' = Reported(j)
  BY <1>5 DEF Reported, Succeeded
<1>. QED
  BY <1>1, <1>2, <1>3, <1>4, <1>5, <1>6, <1>7 DEF Plan!Ask

\* What the gate lets pass has its needs proven and applied, on a journey that
\* nothing else has changed.
LEMMA PlanAdmit ==
  ASSUME PlanInv, NEW w \in Workers, GateAllows(w), NEW i \in Intents, item[w] = i
  PROVE  Plan!Admit(i)
<1>t. WorldType
  BY TypeParts DEF PlanInv, IInv
<1>1. Needs[i] \subseteq Intents
  BY StayNeeds
<1>2. status[i] # NoRow
  BY DEF GateAllows, PlanInv, IInv, OneDispatcher, DispatchPcs
<1>3. \A p \in Needs[i] : Plan!Done(p)
  BY <1>1, <1>2, ReportedCases
     DEF PlanInv, IInv, RowsReady, Ready, Done, Applied, Plan!Done, Plan!Applied
<1>4. Revision \in Nat /\ DOMAIN journey = 1..Revision
  BY <1>t DEF WorldType, Revision
<1>5. \A r \in DOMAIN journey : journey[r] \in Prerequisites(i)
  <2>1. CASE Revision = 0
    BY <1>4, <2>1
  <2>2. CASE checkpoint[i] = Revision
    BY <1>1, <1>4, <2>2, StayValuesDiffer DEF PlanInv, IInv, Bases, Own
  <2>. QED
    BY <2>1, <2>2 DEF GateAllows, BaseHolds
<1>6. UNCHANGED <<status, request, booking, journey>>
  BY DEF GateAllows, rows, provider, canonical
<1>7. based' = [based EXCEPT ![i] = Revision]
  BY DEF GateAllows
<1>8. {j \in Intents : based'[j] # None} = {j \in Intents : based[j] # None} \cup {i}
  BY <1>t, <1>1, <1>4, <1>7, StayValuesDiffer DEF WorldType
<1>9. \A j \in Intents : Reported(j)' = Reported(j)
  BY <1>6 DEF Reported, Succeeded
<1>. QED
  BY <1>3, <1>5, <1>6, <1>8, <1>9 DEF Plan!Admit, Plan!Prerequisites, Prerequisites

\* The journey changes by what is proven and not applied yet, or by others.
LEMMA PlanJourney ==
  ASSUME PlanInv, [Next]_vars, UNCHANGED <<rows, provider, based>>
  PROVE  [Plan!Next]_Plan!planVars
<1>0. UNCHANGED <<status, request, booking, based>> /\ \A j \in Intents : Reported(j)' = Reported(j)
  BY DEF rows, provider, Reported, Succeeded
<1>1. CASE UNCHANGED journey
  BY <1>1, PlanSame DEF rows
<1>2. CASE journey' = Append(journey, Foreign)
  BY <1>0, <1>2 DEF Plan!Next, Plan!Interfere
<1>3. ASSUME NEW w \in Workers, pc[w] \in {"attach", "cancel"}, item[w] \in Intents,
             ~Applied(item[w]), journey' = Append(journey, item[w])
      PROVE  [Plan!Next]_Plan!planVars
  <2>1. Reported(item[w]) = "SUCCEEDED"
    BY <1>3, ReportedCases DEF PlanInv, IInv, ToApply, ApplyPcs
  <2>2. Plan!Apply(item[w])
    BY <1>0, <1>3, <2>1 DEF Plan!Apply, Plan!Applied, Applied
  <2>. QED
    BY <1>3, <2>2 DEF Plan!Next
<1>. QED
  BY <1>1, <1>2, <1>3, JourneyPaths DEF JourneyPath, PlanInv, IInv

\* Every step maps to a step of the plan or to a stutter.
LEMMA PlanStep ==
  ASSUME PlanInv, PlanInv', [Next]_vars
  PROVE  [Plan!Next]_Plan!planVars
<1>1. CASE UNCHANGED <<provider, journey, based>>
  BY <1>1, PlanRow DEF PlanInv, IInv
<1>2. ASSUME NEW w \in Workers, Send(w) \/ GateAllows(w) PROVE [Plan!Next]_Plan!planVars
  <2>1. item[w] \in Intents
    BY <1>2, TypeParts DEF Send, GateAllows, CyclesType, NoItemPcs, PlanInv, IInv
  <2>. QED
    <3>1. CASE Send(w)
      <4>1. Plan!Ask(item[w])
        BY <3>1, PlanAsk
      <4>. QED
        BY <2>1, <4>1 DEF Plan!Next
    <3>2. CASE GateAllows(w)
      <4>1. PICK i \in Intents : i = item[w]
        BY <2>1
      <4>2. Plan!Admit(i)
        BY <3>2, <4>1, PlanAdmit
      <4>. QED
        BY <4>2 DEF Plan!Next
    <3>. QED
      BY <1>2, <3>1, <3>2
<1>3. ASSUME NEW i \in Intents, ProviderActs(i) \/ SupplierCancels(i)
      PROVE  [Plan!Next]_Plan!planVars
  <2>1. UNCHANGED <<status, journey, based>> /\ \A j \in Intents : Reported(j)' = Reported(j)
    BY <1>3 DEF ProviderActs, SupplierCancels, rows, canonical, Reported, Succeeded
  <2>2. CASE ProviderActs(i)
    BY <2>1, <2>2 DEF ProviderActs, Plan!Next, Plan!Act
  <2>3. CASE SupplierCancels(i)
    BY <2>1, <2>3 DEF SupplierCancels, Plan!Next, Plan!Drop
  <2>. QED
    BY <1>3, <2>2, <2>3
<1>4. CASE UNCHANGED <<rows, provider, based>>
  BY <1>4, PlanJourney
<1>. QED
  BY <1>1, <1>2, <1>3, <1>4, StepKinds

\* If answers are lost to timeouts only, the cycles of all processes together
\* carry the plan out as StayPlan says: nothing is asked before the gate, a
\* booking that was reported is not asked for, and what is reported is so.
THEOREM StaysImplementPlan ==
  ASSUME LostAs \subseteq {"TIMEOUT"}
  PROVE  Spec => ImplementsStayPlan
<1>1. Init => FailsTruly /\ Gated
  BY GatedInit DEF Init, FailsTruly, FailedBookingStandsNowhere, NoRow
<1>2. IInv /\ FailsTruly /\ Gated /\ [Next]_vars => FailsTruly' /\ Gated'
  BY FailureStep, GatedStep DEF IInv
<1>3. IInv /\ FailsTruly /\ Gated /\ IInv' /\ FailsTruly' /\ Gated' /\ [Next]_vars =>
        [Plan!Next]_Plan!planVars
  BY PlanStep DEF PlanInv
<1>. QED
  BY <1>1, <1>2, <1>3, PlanInit, Invariance, PTL DEF Spec, ImplementsStayPlan, Plan!Spec
=============================================================================
