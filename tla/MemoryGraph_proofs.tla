------------------------- MODULE MemoryGraph_proofs -------------------------
(***************************************************************************)
(* Theorems about MemoryGraph, for every set of accounts, texts and        *)
(* concepts, whatever the segmenter and the extraction make of them, and   *)
(* for every value of the bounds.                                          *)
(***************************************************************************)
EXTENDS MemoryGraph, SequenceTheorems, TLAPS

-----------------------------------------------------------------------------
(* Types, and what a turn has in hand *)

Linking == {"concept", "index", "mention"}
Writing == {"fact", "assert"} \cup Linking

\* A turn at a program point that names a fact or a concept has one in hand.
HandOK ==
    /\ turn.pc # "idle" => turn.user \in Users
    /\ turn.pc \in Writing => turn.todo # <<>>
    /\ turn.pc \in Linking => turn.segments # <<>>

\* The fact in hand is one of the account's.
LEMMA FactInHand ==
    ASSUME TypeOK, HandOK, turn.pc \in Writing
    PROVE  Fact \in Facts /\ Fact[1] = turn.user /\ Fact[2] \in Texts /\ Tail(turn.todo) \in Seq(Texts)
<1>1. turn.user \in Users /\ turn.todo \in Seq(Texts) /\ turn.todo # <<>>
  BY DEF TypeOK, TurnTypeOK, HandOK, Writing, Linking
<1>2. Head(turn.todo) \in Texts /\ Tail(turn.todo) \in Seq(Texts)
  BY <1>1, HeadTailProperties
<1>3. QED
  BY <1>1, <1>2 DEF Fact, Facts

\* The concept in hand is one of the text's.
LEMMA ConceptInHand ==
    ASSUME TypeOK, HandOK, turn.pc \in Linking
    PROVE  Concept \in Concepts /\ Tail(turn.segments) \in Seq(Concepts)
<1>1. turn.segments \in Seq(Concepts) /\ turn.segments # <<>>
  BY DEF TypeOK, TurnTypeOK, HandOK
<1>2. QED
  BY <1>1, HeadTailProperties DEF Concept

\* The idle turn has nothing in hand.
LEMMA IdleType == turn' = Idle => TurnTypeOK' /\ HandOK'
BY DEF Idle, TurnTypeOK, HandOK, Writing, Linking

\* Going on with what is left of a turn's facts.
LEMMA GoOnType ==
    ASSUME TurnTypeOK, turn.user \in Users, NEW todo \in Seq(Texts), GoOn(todo)
    PROVE  TurnTypeOK' /\ HandOK'
<1>1. CASE todo = <<>>
  BY <1>1, IdleType DEF GoOn
<1>2. CASE todo # <<>>
  <2>1. turn' = Admission(turn.user, "fact", todo)
    BY <1>2 DEF GoOn
  <2>2. QED
    BY <1>2, <2>1 DEF Admission, TurnTypeOK, HandOK, Writing, Linking
<1>3. QED
  BY <1>1, <1>2

\* The program moves on within a turn.
LEMMA PcType ==
    ASSUME TurnTypeOK, HandOK, NEW pc \in {"row", "assert", "concept", "index", "mention"},
           turn' = [turn EXCEPT !.pc = pc],
           turn.pc # "idle",
           pc \in Writing => turn.todo # <<>>,
           pc \in Linking => turn.segments # <<>>
    PROVE  TurnTypeOK' /\ HandOK'
BY DEF TurnTypeOK, HandOK

\* Types are inductive together with what a turn has in hand.
LEMMA TypeStep == TypeOK /\ HandOK /\ [Next]_vars => TypeOK' /\ HandOK'
<1> SUFFICES ASSUME TypeOK, HandOK, [Next]_vars PROVE TypeOK' /\ HandOK'
  OBVIOUS
<1> USE MemoryAssumption DEF TypeOK
<1>1. ASSUME NEW u \in Users, NEW facts \in TurnFacts, NEW recalled \in BOOLEAN,
             NEW extracted \in BOOLEAN, BeginAdmission(u, facts, recalled, extracted)
      PROVE  TypeOK' /\ HandOK'
  <2>1. TurnTypeOK' /\ HandOK'
    <3>1. facts \in Seq(Texts)
      OBVIOUS
    <3>2. \E pc \in {"anchor", "evidence"} : turn' = Admission(u, pc, facts)
      BY <1>1 DEF BeginAdmission
    <3>3. QED
      BY <3>1, <3>2 DEF Admission, TurnTypeOK, HandOK, Writing, Linking
  <2>2. GraphTypeOK' /\ IndexTypeOK'
    BY <1>1 DEF BeginAdmission, graph, index, GraphTypeOK, IndexTypeOK
  <2>3. RestTypeOK'
    <3>1. count' \in [turns : Nat, faults : Nat, stops : Nat, resets : Nat]
      BY <1>1 DEF BeginAdmission, RestTypeOK
    <3>2. chat' \subseteq Users
      BY <1>1 DEF BeginAdmission, RestTypeOK
    <3>3. QED
      BY <1>1, <3>1, <3>2 DEF BeginAdmission, history, RestTypeOK
  <2>4. QED
    BY <2>1, <2>2, <2>3
<1>2. ASSUME NEW u \in Users, BeginRecall(u) PROVE TypeOK' /\ HandOK'
  <2>1. TurnTypeOK' /\ HandOK'
    BY <1>2 DEF BeginRecall, Idle, TurnTypeOK, HandOK, Writing, Linking
  <2>2. GraphTypeOK' /\ IndexTypeOK' /\ RestTypeOK'
    BY <1>2 DEF BeginRecall, graph, index, files, history, GraphTypeOK, IndexTypeOK, RestTypeOK
  <2>3. QED
    BY <2>1, <2>2
<1>3. ASSUME NEW u \in Users, Upload(u) PROVE TypeOK' /\ HandOK'
  BY <1>3 DEF Upload, graph, index, history, GraphTypeOK, IndexTypeOK, TurnTypeOK, RestTypeOK, HandOK
<1>4. ASSUME NEW u \in Users, BeginReset(u) PROVE TypeOK' /\ HandOK'
  <2>1. TurnTypeOK' /\ HandOK' /\ GraphTypeOK' /\ IndexTypeOK'
    BY <1>4 DEF BeginReset, graph, index, GraphTypeOK, IndexTypeOK, TurnTypeOK, HandOK
  <2>2. count' \in [turns : Nat, faults : Nat, stops : Nat, resets : Nat]
    BY <1>4 DEF BeginReset, RestTypeOK
  <2>3. QED
    BY <1>4, <2>1, <2>2 DEF BeginReset, files, history, RestTypeOK
<1>5. CASE StoreAnchor
  <2>1. TurnTypeOK' /\ HandOK'
    BY <1>5, PcType DEF StoreAnchor, HandOK, Writing, Linking
  <2>2. GraphTypeOK' /\ IndexTypeOK' /\ RestTypeOK'
    BY <1>5 DEF StoreAnchor, index, files, history, GraphTypeOK, IndexTypeOK, RestTypeOK
  <2>3. QED
    BY <2>1, <2>2
<1>6. CASE StoreAnchorRow
  <2>1. TurnTypeOK' /\ HandOK'
    BY <1>6, IdleType DEF StoreAnchorRow, TurnTypeOK, HandOK, Writing, Linking
  <2>2. GraphTypeOK' /\ IndexTypeOK' /\ RestTypeOK'
    BY <1>6 DEF StoreAnchorRow, index, files, history, GraphTypeOK, IndexTypeOK, RestTypeOK
  <2>3. QED
    BY <2>1, <2>2
<1>7. CASE RecordEvidence
  <2>1. turn.user \in Users /\ turn.todo \in Seq(Texts)
    BY <1>7 DEF RecordEvidence, HandOK, TurnTypeOK
  <2>2. TurnTypeOK' /\ HandOK'
    BY <1>7, <2>1, GoOnType DEF RecordEvidence
  <2>3. GraphTypeOK' /\ IndexTypeOK' /\ RestTypeOK'
    BY <1>7, <2>1 DEF RecordEvidence, index, files, history, GraphTypeOK, IndexTypeOK, RestTypeOK
  <2>4. QED
    BY <2>2, <2>3
<1>8. CASE StoreFact
  <2>1. TurnTypeOK' /\ HandOK'
    BY <1>8, PcType DEF StoreFact, HandOK, Writing, Linking
  <2>2. GraphTypeOK' /\ IndexTypeOK' /\ RestTypeOK'
    BY <1>8 DEF StoreFact, index, files, history, GraphTypeOK, IndexTypeOK, RestTypeOK
  <2>3. QED
    BY <2>1, <2>2
<1>9. CASE AssertFact
  <2>1. PICK s \in Segmentations[Fact[2]] :
           IF s = <<>> THEN GoOn(Tail(turn.todo))
           ELSE turn' = [turn EXCEPT !.pc = "concept", !.segments = s]
    BY <1>9 DEF AssertFact
  <2>2. Fact[2] \in Texts /\ Tail(turn.todo) \in Seq(Texts) /\ turn.user \in Users /\ turn.todo # <<>>
    BY <1>9, FactInHand DEF AssertFact, HandOK, Writing
  <2>3. s \in Seq(Concepts)
    BY <2>1, <2>2
  <2>4. TurnTypeOK' /\ HandOK'
    <3>1. CASE s = <<>>
      BY <3>1, <2>1, <2>2, GoOnType
    <3>2. CASE s # <<>>
      BY <3>2, <2>1, <2>2, <2>3 DEF TurnTypeOK, HandOK
    <3>3. QED
      BY <3>1, <3>2
  <2>5. GraphTypeOK' /\ IndexTypeOK' /\ RestTypeOK'
    BY <1>9 DEF AssertFact, index, files, history, GraphTypeOK, IndexTypeOK, RestTypeOK
  <2>6. QED
    BY <2>4, <2>5
<1>10. CASE StoreConcept
  <2>1. Concept \in Concepts /\ turn.todo # <<>> /\ turn.segments # <<>> /\ turn.user \in Users
    BY <1>10, ConceptInHand DEF StoreConcept, HandOK, Writing, Linking
  <2>2. PICK pc \in {"index", "mention"}, n \in Nat : turn' = [turn EXCEPT !.pc = pc, !.node = n]
    BY <1>10, <2>1 DEF StoreConcept, GraphTypeOK
  <2>3. TurnTypeOK' /\ HandOK'
    BY <2>1, <2>2 DEF TurnTypeOK, HandOK
  <2>4. conceptId' \in [Concepts -> Nat] /\ nextId' \in Nat \ {0}
    BY <1>10 DEF StoreConcept, GraphTypeOK
  <2>5. GraphTypeOK' /\ IndexTypeOK' /\ RestTypeOK'
    BY <1>10, <2>4 DEF StoreConcept, index, files, history, GraphTypeOK, IndexTypeOK, RestTypeOK
  <2>6. QED
    BY <2>3, <2>5
<1>11. CASE IndexConcept
  <2>1. TurnTypeOK' /\ HandOK'
    BY <1>11, PcType DEF IndexConcept, HandOK, Writing, Linking
  <2>2. indexId' \in [Concepts -> Nat] /\ table' \in [Concepts -> Nat]
    BY <1>11 DEF IndexConcept, IndexTypeOK, TurnTypeOK
  <2>3. GraphTypeOK' /\ IndexTypeOK' /\ RestTypeOK'
    BY <1>11, <2>2 DEF IndexConcept, graph, files, history, GraphTypeOK, IndexTypeOK, RestTypeOK
  <2>4. QED
    BY <2>1, <2>3
<1>12. CASE MentionConcept
  <2>1. Concept \in Concepts /\ Tail(turn.segments) \in Seq(Concepts) /\ Fact \in Facts
        /\ Tail(turn.todo) \in Seq(Texts) /\ turn.user \in Users /\ turn.todo # <<>>
    BY <1>12, ConceptInHand, FactInHand DEF MentionConcept, HandOK, Writing, Linking
  <2>2. TurnTypeOK' /\ HandOK'
    <3>1. CASE Tail(turn.segments) # <<>>
      <4>1. turn' = [turn EXCEPT !.pc = "concept", !.segments = Tail(turn.segments),
                                 !.linked = turn.linked \cup {Concept}]
        BY <1>12, <3>1 DEF MentionConcept, TurnTypeOK
      <4>2. turn.linked \cup {Concept} \in SUBSET Concepts
        BY <2>1 DEF TurnTypeOK
      <4>3. QED
        BY <4>1, <4>2, <3>1, <2>1 DEF TurnTypeOK, HandOK
    <3>2. CASE Tail(turn.segments) = <<>>
      BY <1>12, <3>2, <2>1, GoOnType DEF MentionConcept
    <3>3. QED
      BY <3>1, <3>2
  <2>3. GraphTypeOK' /\ IndexTypeOK'
    <3>1. mentions' = mentions \cup {<<Fact, Concept>>}
      BY <1>12 DEF MentionConcept
    <3>2. UNCHANGED <<anchor, evidence, fact, conceptId, nextId, indexId, table>>
      BY <1>12 DEF MentionConcept, index
    <3>3. <<Fact, Concept>> \in Facts \X Concepts
      BY <2>1
    <3>4. mentions' \subseteq Facts \X Concepts
      BY <3>1, <3>3 DEF GraphTypeOK
    <3>5. QED
      BY <3>2, <3>4 DEF GraphTypeOK, IndexTypeOK
  <2>4. RestTypeOK'
    <3>1. \A c \in turn.linked \cup {Concept} : <<Fact, c>> \in Facts \X Concepts
      BY <2>1 DEF TurnTypeOK
    <3>2. admitted' \subseteq Facts \X Concepts
      BY <1>12, <3>1 DEF MentionConcept, RestTypeOK
    <3>3. QED
      BY <1>12, <3>2 DEF MentionConcept, files, RestTypeOK
  <2>5. QED
    BY <2>2, <2>3, <2>4
<1>13. CASE AdmissionFails
  <2>1. TurnTypeOK' /\ HandOK' /\ GraphTypeOK' /\ IndexTypeOK'
    BY <1>13, IdleType DEF AdmissionFails, graph, index, GraphTypeOK, IndexTypeOK
  <2>2. missed' \subseteq Concepts
    BY <1>13, ConceptInHand DEF AdmissionFails, RestTypeOK, Linking
  <2>3. count' \in [turns : Nat, faults : Nat, stops : Nat, resets : Nat]
    <3>1. CASE count' = count
      BY <3>1 DEF RestTypeOK
    <3>2. CASE count' = [count EXCEPT !.faults = @ + 1]
      BY <3>2 DEF RestTypeOK
    <3>3. QED
      BY <1>13, <3>1, <3>2 DEF AdmissionFails
  <2>4. QED
    BY <1>13, <2>1, <2>2, <2>3 DEF AdmissionFails, files, RestTypeOK
<1>14. CASE Stop
  <2>1. TurnTypeOK' /\ HandOK' /\ GraphTypeOK' /\ IndexTypeOK'
    BY <1>14, IdleType DEF Stop, Empty, graph, GraphTypeOK, IndexTypeOK
  <2>2. count' \in [turns : Nat, faults : Nat, stops : Nat, resets : Nat]
    BY <1>14 DEF Stop, RestTypeOK
  <2>3. QED
    BY <1>14, <2>1, <2>2 DEF Stop, files, history, RestTypeOK
<1>15. CASE Start
  <2>1. IndexTypeOK'
    BY <1>15 DEF Start, GraphTypeOK, IndexTypeOK
  <2>2. TurnTypeOK' /\ HandOK' /\ GraphTypeOK' /\ RestTypeOK'
    BY <1>15 DEF Start, NoReset, graph, files, GraphTypeOK, TurnTypeOK, RestTypeOK, HandOK
  <2>3. QED
    BY <2>1, <2>2
<1>16. CASE ResetMemory
  <2>1. TurnTypeOK' /\ HandOK'
    BY <1>16 DEF ResetMemory, TurnTypeOK, HandOK
  <2>2. GraphTypeOK'
    BY <1>16 DEF ResetMemory, GraphTypeOK
  <2>3. IndexTypeOK'
    BY <1>16 DEF ResetMemory, IndexTypeOK
  <2>4. RestTypeOK'
    BY <1>16 DEF ResetMemory, files, RestTypeOK
  <2>5. QED
    BY <2>1, <2>2, <2>3, <2>4
<1>17. CASE ResetChat
  BY <1>17 DEF ResetChat, graph, index, history,
     GraphTypeOK, IndexTypeOK, TurnTypeOK, RestTypeOK, HandOK
<1>18. CASE ResetUploads
  BY <1>18 DEF ResetUploads, graph, index, history,
     GraphTypeOK, IndexTypeOK, TurnTypeOK, RestTypeOK, HandOK
<1>19. CASE ResetFails
  BY <1>19 DEF ResetFails, NoReset, graph, index, files, history,
     GraphTypeOK, IndexTypeOK, TurnTypeOK, RestTypeOK, HandOK
<1>20. CASE UNCHANGED vars
  <2>1. GraphTypeOK' /\ IndexTypeOK'
    BY <1>20 DEF vars, graph, index, GraphTypeOK, IndexTypeOK
  <2>2. TurnTypeOK' /\ HandOK'
    BY <1>20 DEF vars, TurnTypeOK, HandOK
  <2>3. RestTypeOK'
    BY <1>20 DEF vars, files, history, RestTypeOK
  <2>4. QED
    BY <2>1, <2>2, <2>3
<1>21. QED
  BY <1>1, <1>2, <1>3, <1>4, <1>5, <1>6, <1>7, <1>8, <1>9, <1>10, <1>11, <1>12, <1>13, <1>14,
     <1>15, <1>16, <1>17, <1>18, <1>19, <1>20 DEF Next, TurnStep, ResetStep

\* Types hold in the empty stores.
LEMMA TypeInit == Init => TypeOK /\ HandOK
<1> SUFFICES ASSUME Init PROVE TypeOK /\ HandOK
  OBVIOUS
<1>1. GraphTypeOK /\ IndexTypeOK
  BY DEF Init, Empty, GraphTypeOK, IndexTypeOK
<1>2. TurnTypeOK /\ HandOK
  BY DEF Init, Idle, TurnTypeOK, HandOK, Writing, Linking
<1>3. RestTypeOK
  BY DEF Init, NoReset, RestTypeOK
<1>4. QED
  BY <1>1, <1>2, <1>3 DEF TypeOK

\* Every variable keeps its type.
THEOREM TypeCorrect == Spec => []TypeOK
BY TypeInit, TypeStep, PTL DEF Spec

-----------------------------------------------------------------------------
(* What holds between the graph, the index and the turn at work, as long as *)
(* the server stays down while the script runs.                             *)

\* Nothing is at work on the graph when the server is down, and it is down
\* while the script is at work.
Quiet ==
    /\ turn.pc = "idle" => turn = Idle
    /\ ~up => turn = Idle
    /\ reset.at # "none" => ~up /\ reset.user \in Users

\* Both ends of a mentions edge are there, and the fact is tied to its account.
MentionsOK == \A m \in mentions : fact[m[1]] = "asserted" /\ conceptId[m[2]] # 0

\* The turn at work finds what its earlier commits have stored, and nobody
\* mentions the concept it has created and not yet indexed.
AtWork ==
    /\ turn.pc \in {"idle", "anchor", "row", "evidence"} => turn.linked = {}
    /\ turn.pc \in Linking => fact[Fact] = "asserted"
    /\ turn.pc \in {"index", "mention"} => turn.node # 0 /\ conceptId[Concept] = turn.node
    /\ turn.pc = "index" => \A m \in mentions : m[2] # Concept
    /\ turn.pc \in Writing => \A c \in turn.linked : <<Fact, c>> \in mentions

\* A concept outside the table of the running server is one whose indexing is
\* under way or has failed since the start.
Indexed ==
    up => \A c \in Concepts : conceptId[c] # 0 =>
        table[c] # 0 \/ c \in missed \/ (turn.pc = "index" /\ c = Concept)

AdmittedLinked == admitted \subseteq mentions

GraphInv == MentionsOK /\ AtWork /\ IndexFollowsGraph /\ Indexed /\ AdmittedLinked

\* Every step keeps the server down under the script, and a server that is down
\* without a turn.
LEMMA QuietStep ==
    ASSUME ~StartsDuringReset, TypeOK, HandOK, Quiet, [Next]_vars
    PROVE  Quiet'
<1>1. ASSUME NEW u \in Users, NEW facts \in TurnFacts, NEW recalled \in BOOLEAN,
             NEW extracted \in BOOLEAN, BeginAdmission(u, facts, recalled, extracted)
      PROVE  Quiet'
  <2>1. \E pc \in {"anchor", "evidence"} : turn' = Admission(u, pc, facts)
    BY <1>1 DEF BeginAdmission
  <2>2. turn'.pc # "idle"
    BY <2>1 DEF Admission
  <2>3. QED
    BY <1>1, <2>2 DEF BeginAdmission, Quiet
<1>2. ASSUME NEW u \in Users, BeginRecall(u) PROVE Quiet'
  BY <1>2 DEF BeginRecall, Idle, Quiet
<1>3. ASSUME NEW u \in Users, Upload(u) PROVE Quiet'
  BY <1>3 DEF Upload, Quiet
<1>4. ASSUME NEW u \in Users, BeginReset(u) PROVE Quiet'
  BY <1>4 DEF BeginReset, Quiet
<1>5. ASSUME TurnStep PROVE Quiet'
  <2>1. turn # Idle
    <3>1. Idle.pc = "idle"
      BY DEF Idle
    <3>2. CASE AdmissionFails
      BY <3>2 DEF AdmissionFails
    <3>3. CASE ~AdmissionFails
      BY <1>5, <3>1, <3>3 DEF TurnStep, StoreAnchor, StoreAnchorRow, RecordEvidence, StoreFact,
         AssertFact, StoreConcept, IndexConcept, MentionConcept
    <3>4. QED
      BY <3>2, <3>3
  <2>2. up' = up /\ reset' = reset
    BY <1>5 DEF TurnStep, StoreAnchor, StoreAnchorRow, RecordEvidence, StoreFact, AssertFact,
       StoreConcept, IndexConcept, MentionConcept, AdmissionFails
  <2>3. turn'.pc = "idle" => turn' = Idle
    <3>1. ASSUME NEW todo, GoOn(todo) PROVE turn'.pc = "idle" => turn' = Idle
      BY <3>1 DEF GoOn, Admission
    <3>2. CASE StoreAnchor \/ StoreFact \/ StoreConcept \/ IndexConcept
      BY <3>2 DEF StoreAnchor, StoreFact, StoreConcept, IndexConcept, TypeOK, TurnTypeOK
    <3>3. CASE StoreAnchorRow \/ AdmissionFails
      BY <3>3 DEF StoreAnchorRow, AdmissionFails, TypeOK, TurnTypeOK
    <3>4. CASE RecordEvidence
      BY <3>4, <3>1 DEF RecordEvidence
    <3>5. CASE AssertFact
      BY <3>5, <3>1 DEF AssertFact, TypeOK, TurnTypeOK
    <3>6. CASE MentionConcept
      BY <3>6, <3>1 DEF MentionConcept, TypeOK, TurnTypeOK
    <3>7. QED
      BY <1>5, <3>2, <3>3, <3>4, <3>5, <3>6 DEF TurnStep
  <2>4. QED
    BY <2>1, <2>2, <2>3 DEF Quiet
<1>6. CASE Stop
  BY <1>6 DEF Stop, Quiet
<1>7. CASE Start
  BY <1>7 DEF Start, NoReset, Quiet, TypeOK, RestTypeOK
<1>8. CASE ResetStep
  BY <1>8 DEF ResetStep, ResetMemory, ResetChat, ResetUploads, ResetFails, NoReset, Quiet, TypeOK, RestTypeOK
<1>9. CASE UNCHANGED vars
  BY <1>9 DEF vars, Quiet
<1>10. QED
  BY <1>1, <1>2, <1>3, <1>4, <1>5, <1>6, <1>7, <1>8, <1>9 DEF Next

\* An idle turn leaves the graph's invariant with the stores alone.
LEMMA IdleAtWork ==
    ASSUME turn' = Idle
    PROVE  AtWork' /\ turn'.pc # "index"
BY DEF AtWork, Idle, Writing, Linking

\* Every commit, failure, restart and deletion keeps graph and index in agreement.
LEMMA GraphStep ==
    ASSUME ~StartsDuringReset, TypeOK, HandOK, Quiet, GraphInv, [Next]_vars
    PROVE  GraphInv'
<1> USE DEF GraphInv
<1> DEFINE Stores == <<fact, conceptId, mentions, indexId, table, admitted, missed>>
\* While the stores stay as they are, only the turn counts.
<1>1. ASSUME UNCHANGED Stores, UNCHANGED up, AtWork',
             (turn'.pc = "index" /\ Concept' = Concept) \/ turn.pc # "index"
      PROVE  GraphInv'
  BY <1>1 DEF MentionsOK, IndexFollowsGraph, Indexed, AdmittedLinked
<1>2. ASSUME UNCHANGED <<Stores, up, turn>> PROVE GraphInv'
  BY <1>2 DEF MentionsOK, AtWork, Fact, Concept, IndexFollowsGraph, Indexed, AdmittedLinked
\* Going on with the turn's next fact, or with none.
<1>3. ASSUME NEW todo, GoOn(todo) PROVE AtWork' /\ turn'.pc # "index"
  <2>1. CASE turn' = Idle
    BY <2>1, IdleAtWork
  <2>2. CASE turn' = Admission(turn.user, "fact", todo)
    BY <2>2 DEF Admission, AtWork, Writing, Linking
  <2>3. QED
    BY <1>3, <2>1, <2>2 DEF GoOn
<1>4. ASSUME NEW u \in Users, NEW facts \in TurnFacts, NEW recalled \in BOOLEAN,
             NEW extracted \in BOOLEAN, BeginAdmission(u, facts, recalled, extracted)
      PROVE  GraphInv'
  <2>1. \E pc \in {"anchor", "evidence"} : turn' = Admission(u, pc, facts)
    BY <1>4 DEF BeginAdmission
  <2>2. AtWork'
    BY <2>1 DEF Admission, AtWork, Writing, Linking
  <2>3. turn.pc # "index"
    BY <1>4 DEF BeginAdmission, Idle
  <2>4. QED
    BY <1>1, <1>4, <2>2, <2>3 DEF BeginAdmission, graph, index, history
<1>5. ASSUME NEW u \in Users, BeginRecall(u) PROVE GraphInv'
  <2>1. AtWork'
    BY <1>5 DEF BeginRecall, Idle, AtWork, Writing, Linking
  <2>2. turn.pc # "index"
    BY <1>5 DEF BeginRecall, Idle
  <2>3. QED
    BY <1>1, <1>5, <2>1, <2>2 DEF BeginRecall, graph, index, history
<1>6. ASSUME NEW u \in Users, Upload(u) PROVE GraphInv'
  BY <1>2, <1>6 DEF Upload, graph, index, history
<1>7. ASSUME NEW u \in Users, BeginReset(u) PROVE GraphInv'
  BY <1>2, <1>7 DEF BeginReset, graph, index, history
<1>8. CASE StoreAnchor
  <2>1. AtWork'
    BY <1>8 DEF StoreAnchor, AtWork, Writing, Linking, TypeOK, TurnTypeOK
  <2>2. QED
    BY <1>1, <1>8, <2>1 DEF StoreAnchor, index, history
<1>9. CASE StoreAnchorRow
  <2>1. AtWork'
    <3>1. CASE turn' = Idle
      BY <3>1, IdleAtWork
    <3>2. CASE turn' = [turn EXCEPT !.pc = "evidence"]
      BY <1>9, <3>2 DEF StoreAnchorRow, AtWork, Writing, Linking, TypeOK, TurnTypeOK
    <3>3. QED
      BY <1>9, <3>1, <3>2 DEF StoreAnchorRow
  <2>2. QED
    BY <1>1, <1>9, <2>1 DEF StoreAnchorRow, index, history
<1>10. CASE RecordEvidence
  BY <1>1, <1>3, <1>10 DEF RecordEvidence, index, history
<1>11. CASE StoreFact
  <2>1. Fact' = Fact /\ turn'.pc = "assert" /\ turn'.linked = turn.linked /\ turn.pc = "fact"
    BY <1>11 DEF StoreFact, Fact, TypeOK, TurnTypeOK
  <2>2. UNCHANGED <<conceptId, mentions, indexId, table, admitted, missed, up>>
    BY <1>11 DEF StoreFact, index, history
  <2>3. MentionsOK'
    BY <1>11, <2>2 DEF StoreFact, MentionsOK, TypeOK, GraphTypeOK
  <2>4. AtWork'
    BY <2>1, <2>2 DEF AtWork, Writing, Linking
  <2>5. QED
    BY <2>1, <2>2, <2>3, <2>4 DEF IndexFollowsGraph, Indexed, AdmittedLinked
<1>12. CASE AssertFact
  <2>1. PICK s \in Segmentations[Fact[2]] :
           IF s = <<>> THEN GoOn(Tail(turn.todo))
           ELSE turn' = [turn EXCEPT !.pc = "concept", !.segments = s]
    BY <1>12 DEF AssertFact
  <2>2. UNCHANGED <<conceptId, mentions, indexId, table, admitted, missed, up>> /\ turn.pc = "assert"
    BY <1>12 DEF AssertFact, index, history
  <2>3. Fact \in Facts /\ fact'[Fact] = "asserted" /\ \A f \in Facts : fact[f] = "asserted" => fact'[f] = "asserted"
    BY <1>12, <2>2, FactInHand DEF AssertFact, Writing, TypeOK, GraphTypeOK
  <2>4. MentionsOK'
    BY <2>2, <2>3 DEF MentionsOK, TypeOK, GraphTypeOK
  <2>5. AtWork' /\ turn'.pc # "index"
    <3>1. CASE s = <<>>
      BY <1>3, <2>1, <3>1
    <3>2. CASE s # <<>>
      <4>1. turn'.pc = "concept" /\ turn'.linked = turn.linked /\ Fact' = Fact
        BY <2>1, <3>2 DEF Fact, TypeOK, TurnTypeOK
      <4>2. QED
        BY <4>1, <2>2, <2>3 DEF AtWork, Writing, Linking
    <3>3. QED
      BY <3>1, <3>2
  <2>6. QED
    BY <2>2, <2>4, <2>5 DEF IndexFollowsGraph, Indexed, AdmittedLinked
<1>13. CASE StoreConcept
  <2>1. Concept \in Concepts /\ turn.pc = "concept"
    BY <1>13, ConceptInHand DEF StoreConcept, Linking
  <2>2. UNCHANGED <<fact, mentions, indexId, table, admitted, missed, up>>
    BY <1>13 DEF StoreConcept, index, history
  <2>3. Fact' = Fact /\ Concept' = Concept /\ turn'.linked = turn.linked
    BY <1>13 DEF StoreConcept, Fact, Concept, TypeOK, TurnTypeOK
  <2>4. CASE conceptId[Concept] = 0
    <3>1. conceptId' = [conceptId EXCEPT ![Concept] = nextId] /\ nextId # 0
      BY <1>13, <2>4 DEF StoreConcept, TypeOK, GraphTypeOK
    <3>2. turn'.pc = "index" /\ turn'.node = nextId
      BY <1>13, <2>4 DEF StoreConcept, TypeOK, TurnTypeOK
    <3>3. MentionsOK' /\ \A m \in mentions : m[2] # Concept
      BY <2>2, <2>4, <3>1 DEF MentionsOK, TypeOK, GraphTypeOK
    <3>4. AtWork'
      <4>1. conceptId'[Concept] = nextId
        BY <2>1, <3>1 DEF TypeOK, GraphTypeOK
      <4>2. QED
        BY <2>1, <2>2, <2>3, <3>1, <3>2, <3>3, <4>1 DEF AtWork, Writing, Linking
    <3>5. IndexFollowsGraph' /\ AdmittedLinked'
      BY <2>2, <2>4, <3>1 DEF IndexFollowsGraph, AdmittedLinked, TypeOK, GraphTypeOK
    <3>6. Indexed'
      BY <2>1, <2>2, <2>3, <3>1, <3>2 DEF Indexed, TypeOK, GraphTypeOK
    <3>7. QED
      BY <3>3, <3>4, <3>5, <3>6
  <2>5. CASE conceptId[Concept] # 0
    <3>1. conceptId' = conceptId
      BY <1>13, <2>5 DEF StoreConcept
    <3>2. turn'.pc = "mention" /\ turn'.node = conceptId[Concept]
      BY <1>13, <2>5 DEF StoreConcept, TypeOK, TurnTypeOK
    <3>3. AtWork'
      BY <2>1, <2>2, <2>3, <2>5, <3>1, <3>2 DEF AtWork, Writing, Linking
    <3>4. QED
      BY <1>1, <2>1, <2>2, <3>1, <3>3
  <2>6. QED
    BY <2>4, <2>5
<1>14. CASE IndexConcept
  <2>1. Concept \in Concepts /\ turn.pc = "index" /\ turn.node # 0 /\ conceptId[Concept] = turn.node
    BY <1>14, ConceptInHand DEF IndexConcept, AtWork, Linking
  <2>2. UNCHANGED <<fact, conceptId, mentions, admitted, missed, up>>
    BY <1>14 DEF IndexConcept, graph, history
  <2>3. Fact' = Fact /\ Concept' = Concept /\ turn'.linked = turn.linked /\ turn'.node = turn.node
        /\ turn'.pc = "mention"
    BY <1>14 DEF IndexConcept, Fact, Concept, TypeOK, TurnTypeOK
  <2>4. AtWork'
    BY <2>1, <2>2, <2>3 DEF AtWork, Writing, Linking
  <2>5. IndexFollowsGraph'
    BY <1>14, <2>1, <2>2 DEF IndexConcept, IndexFollowsGraph, TypeOK, IndexTypeOK
  <2>6. Indexed'
    BY <1>14, <2>1, <2>2, <2>3 DEF IndexConcept, Indexed, TypeOK, IndexTypeOK
  <2>7. QED
    BY <2>2, <2>4, <2>5, <2>6 DEF MentionsOK, AdmittedLinked
<1>15. CASE MentionConcept
  <2>1. Concept \in Concepts /\ Fact \in Facts /\ turn.pc = "mention"
    BY <1>15, ConceptInHand, FactInHand DEF MentionConcept, Writing, Linking
  <2>2. UNCHANGED <<fact, conceptId, indexId, table, missed, up>>
    BY <1>15 DEF MentionConcept, index
  <2>3. mentions' = mentions \cup {<<Fact, Concept>>}
    BY <1>15 DEF MentionConcept
  <2>4. fact[Fact] = "asserted" /\ conceptId[Concept] # 0
        /\ \A c \in turn.linked \cup {Concept} : <<Fact, c>> \in mentions'
    BY <2>1, <2>3 DEF AtWork, Writing, Linking
  <2>5. MentionsOK' /\ IndexFollowsGraph'
    BY <2>2, <2>3, <2>4 DEF MentionsOK, IndexFollowsGraph
  <2>6. CASE Tail(turn.segments) # <<>>
    <3>1. turn'.pc = "concept" /\ turn'.linked = turn.linked \cup {Concept} /\ Fact' = Fact
      BY <1>15, <2>6 DEF MentionConcept, Fact, TypeOK, TurnTypeOK
    <3>2. AtWork'
      BY <2>2, <2>4, <2>1, <3>1 DEF AtWork, Writing, Linking
    <3>3. Indexed'
      BY <2>1, <2>2, <3>1 DEF Indexed
    <3>4. AdmittedLinked'
      BY <1>15, <2>3, <2>6 DEF MentionConcept, AdmittedLinked
    <3>5. QED
      BY <2>5, <3>2, <3>3, <3>4
  <2>7. CASE Tail(turn.segments) = <<>>
    <3>1. AtWork' /\ turn'.pc # "index"
      BY <1>3, <1>15, <2>7 DEF MentionConcept
    <3>2. Indexed'
      BY <2>1, <2>2, <3>1 DEF Indexed
    <3>3. AdmittedLinked'
      BY <1>15, <2>3, <2>4, <2>7 DEF MentionConcept, AdmittedLinked
    <3>4. QED
      BY <2>5, <3>1, <3>2, <3>3
  <2>8. QED
    BY <2>6, <2>7
<1>16. CASE AdmissionFails
  <2>1. AtWork'
    BY <1>16, IdleAtWork DEF AdmissionFails
  <2>2. UNCHANGED <<fact, conceptId, mentions, indexId, table, admitted, up>>
    BY <1>16 DEF AdmissionFails, graph, index
  <2>3. missed \subseteq missed' /\ (turn.pc = "index" => Concept \in missed')
    BY <1>16 DEF AdmissionFails
  <2>4. QED
    BY <2>1, <2>2, <2>3 DEF MentionsOK, IndexFollowsGraph, Indexed, AdmittedLinked
<1>17. CASE Stop
  <2>1. AtWork'
    BY <1>17, IdleAtWork DEF Stop
  <2>2. UNCHANGED <<fact, conceptId, mentions, indexId, admitted>> /\ ~up'
    BY <1>17 DEF Stop, graph, history
  <2>3. QED
    BY <2>1, <2>2 DEF MentionsOK, IndexFollowsGraph, Indexed, AdmittedLinked
<1>18. CASE Start
  <2>1. AtWork'
    BY <1>18, IdleAtWork DEF Start, Quiet
  <2>2. UNCHANGED <<fact, conceptId, mentions, admitted>>
    BY <1>18 DEF Start, graph
  <2>3. indexId' = conceptId /\ table' = indexId'
    <3>1. \A c \in Concepts : conceptId[c] = 0 => indexId[c] = 0
      BY DEF IndexFollowsGraph, TypeOK, IndexTypeOK
    <3>2. indexId' = [c \in Concepts |-> conceptId[c]]
      BY <1>18, <3>1 DEF Start
    <3>3. QED
      BY <1>18, <3>2 DEF Start, TypeOK, GraphTypeOK
  <2>4. QED
    BY <2>1, <2>2, <2>3 DEF MentionsOK, IndexFollowsGraph, Indexed, AdmittedLinked
<1>19. CASE ResetMemory
  <2> DEFINE u == reset.user
             gone == {m \in mentions : m[1] \in Owned(u)}
  <2>1. ~up /\ turn = Idle
    BY <1>19 DEF ResetMemory, Quiet
  <2>2. AtWork' /\ Indexed'
    BY <1>19, <2>1, IdleAtWork DEF ResetMemory, Indexed
  <2>3. /\ mentions' = mentions \ gone
        /\ conceptId' = [c \in Concepts |-> IF c \in Orphans(gone) THEN 0 ELSE conceptId[c]]
        /\ fact' = [f \in Facts |-> IF f \in Owned(u) THEN "none" ELSE fact[f]]
        /\ indexId' = [c \in Concepts |-> IF c \in IndexRows(Orphans(gone)) THEN 0 ELSE indexId[c]]
        /\ admitted' = {a \in admitted : a[1][1] # u}
    BY <1>19 DEF ResetMemory
  <2>4. MentionsOK'
    <3>1. \A m \in mentions' : m \in mentions \ gone /\ m[1] \in Facts /\ m[2] \in Concepts
      BY <2>3 DEF TypeOK, GraphTypeOK
    <3>2. \A m \in mentions \ gone : m[1] \notin Owned(u) /\ m[2] \notin Orphans(gone)
      BY DEF Orphans
    <3>3. QED
      BY <2>3, <3>1, <3>2 DEF MentionsOK
  <2>5. IndexFollowsGraph'
    BY <2>3 DEF IndexFollowsGraph, IndexRows, Orphans
  <2>6. AdmittedLinked'
    BY <2>3 DEF AdmittedLinked, Owned
  <2>7. QED
    BY <2>2, <2>4, <2>5, <2>6
<1>20. CASE ResetChat \/ ResetUploads \/ ResetFails
  BY <1>2, <1>20 DEF ResetChat, ResetUploads, ResetFails, graph, index, history
<1>21. CASE UNCHANGED vars
  BY <1>2, <1>21 DEF vars, graph, index, history
<1>22. QED
  BY <1>4, <1>5, <1>6, <1>7, <1>8, <1>9, <1>10, <1>11, <1>12, <1>13, <1>14, <1>15, <1>16,
     <1>17, <1>18, <1>19, <1>20, <1>21 DEF Next, TurnStep, ResetStep

\* The empty graph and the empty index agree.
LEMMA MemoryInit == Init => Quiet /\ GraphInv
<1> SUFFICES ASSUME Init PROVE Quiet /\ GraphInv
  OBVIOUS
<1>1. turn.pc = "idle" /\ turn.linked = {}
  BY DEF Init, Idle
<1>2. Quiet
  BY DEF Init, NoReset, Quiet
<1>3. AtWork
  BY <1>1 DEF AtWork, Writing, Linking
<1>4. MentionsOK /\ IndexFollowsGraph /\ Indexed /\ AdmittedLinked
  BY DEF Init, Empty, MentionsOK, IndexFollowsGraph, Indexed, AdmittedLinked
<1>5. QED
  BY <1>2, <1>3, <1>4 DEF GraphInv

\* The invariant the theorems below rest on.
LEMMA MemoryInvariant ==
    ASSUME ~StartsDuringReset
    PROVE  Spec => [](TypeOK /\ HandOK /\ Quiet /\ GraphInv)
<1>1. Init => TypeOK /\ HandOK /\ Quiet /\ GraphInv
  BY MemoryInit, TypeInit
<1>2. TypeOK /\ HandOK /\ Quiet /\ GraphInv /\ [Next]_vars => (TypeOK /\ HandOK /\ Quiet /\ GraphInv)'
  BY TypeStep, QuietStep, GraphStep
<1>3. QED
  BY <1>1, <1>2, PTL DEF Spec

\* As long as the server stays down while the script runs, no commit, failure,
\* crash, restart or reset leaves a row in the concept index that contradicts
\* the graph's concepts (SqliteFtsConceptIndex, _reset_memory).
THEOREM IndexAgrees ==
    ASSUME ~StartsDuringReset
    PROVE  Spec => []IndexFollowsGraph
<1>1. GraphInv => IndexFollowsGraph
  BY DEF GraphInv
<1>2. QED
  BY <1>1, MemoryInvariant, PTL

-----------------------------------------------------------------------------
(* Recall *)

\* A fact that stands in a mentions edge is one edge from its own anchor, and
\* the path found for it holds nothing else.
LEMMA PathOfFact ==
    ASSUME TypeOK, NEW f \in Facts, fact[f] = "asserted"
    PROVE  PathToAnchor(NodeOf(f), f[1]) = {NodeOf(f), Anchor(f[1])}
<1> DEFINE n == NodeOf(f)
           a == Anchor(f[1])
           joins(k) == Paths(n, a, k) # {}
           length == CHOOSE k \in 1 .. MaxPath : joins(k) /\ \A j \in 1 .. k - 1 : ~joins(j)
<1>1. n # a /\ Adjacent(n, a)
  BY DEF NodeOf, Anchor, Adjacent, Edge
<1>2. joins(1)
  <2>1. [i \in 1 .. 1 - 1 |-> n] \in [1 .. 1 - 1 -> Nodes]
    OBVIOUS
  <2>2. [i \in 1 .. 1 - 1 |-> n] \in Paths(n, a, 1)
    <3> DEFINE p == [i \in 1 .. 1 - 1 |-> n]
               at(i) == IF i = 0 THEN n ELSE IF i = 1 THEN a ELSE p[i]
    <3>1. \A i \in 0 .. 1 - 1 : i = 0 /\ at(i) = n /\ at(i + 1) = a
      OBVIOUS
    <3>2. \A i \in 0 .. 1 - 1 : Adjacent(at(i), at(i + 1))
      BY <1>1, <3>1
    <3>3. QED
      BY <2>1, <3>2 DEF Paths
  <2>3. QED
    BY <2>2
<1>3. 1 \in 1 .. MaxPath /\ \A j \in 1 .. 1 - 1 : ~joins(j)
  BY MemoryAssumption
<1>4. length = 1
  <2> HIDE DEF joins
  <2>1. length \in 1 .. MaxPath /\ \A j \in 1 .. length - 1 : ~joins(j)
    BY <1>2, <1>3
  <2>2. QED
    BY <1>2, <2>1, MemoryAssumption
<1>5. UNION {{p[i] : i \in 1 .. 1 - 1} : p \in Paths(n, a, 1)} = {}
  OBVIOUS
<1>6. PathToAnchor(n, f[1]) = {n, a} \cup UNION {{p[i] : i \in 1 .. length - 1} : p \in Paths(n, a, length)}
  <2>1. ~(\A k \in 1 .. MaxPath : ~joins(k))
    BY <1>2, <1>3
  <2>2. QED
    BY <1>1, <2>1 DEF PathToAnchor
<1>7. QED
  BY <1>4, <1>5, <1>6

\* The nodes of two facts differ, and a fact's node is no anchor's.
LEMMA NodesDiffer ==
    /\ \A f, g : NodeOf(f) = NodeOf(g) => f = g
    /\ \A f, u : NodeOf(f) # Anchor(u)
    /\ \A f, c : NodeOf(f) # ConceptNode(c)
    /\ \A c, u : ConceptNode(c) # Anchor(u)
BY DEF NodeOf, Anchor, ConceptNode

\* Recall brings the account's own facts that mention a hit, and nothing else.
LEMMA RecallIsHits ==
    ASSUME TypeOK, MentionsOK, NEW u, NEW q
    PROVE  Recall(u, q) = Hits(u, q) /\ Hits(u, q) \subseteq Overview(u)
<1>1. \A f \in Hits(u, q) : f \in Facts /\ f[1] = u /\ fact[f] = "asserted"
  BY DEF Hits, MentionsOK
<1>2. \A f \in Hits(u, q) : PathToAnchor(NodeOf(f), u) = {NodeOf(f), Anchor(u)}
  BY <1>1, PathOfFact
<1>3. \A g \in Facts : g \in Recall(u, q) <=> \E f \in Hits(u, q) : NodeOf(g) \in {NodeOf(f), Anchor(u)}
  BY <1>2 DEF Recall, FactsIn
<1>4. QED
  BY <1>1, <1>3, NodesDiffer DEF Recall, FactsIn, Overview

\* The neighbours of an asserted fact are its account's anchor and concepts.
LEMMA Neighbours ==
    ASSUME NEW f \in Facts, NEW n \in OneHop(NodeOf(f))
    PROVE  n = NodeOf(f) \/ n = Anchor(f[1]) \/ \E c \in Concepts : n = ConceptNode(c) /\ <<f, c>> \in mentions
<1>1. CASE n = NodeOf(f)
  BY <1>1
<1>2. CASE n # NodeOf(f)
  <2>1. n \in Nodes /\ Adjacent(NodeOf(f), n)
    BY <1>2 DEF OneHop
  <2>2. ASSUME NEW u \in Users, n = Anchor(u) PROVE u = f[1]
    BY <2>1, <2>2 DEF Adjacent, Edge, NodeOf, Anchor
  <2>3. ASSUME NEW g \in Facts, n = NodeOf(g) PROVE FALSE
    BY <2>1, <2>3 DEF Adjacent, Edge, NodeOf
  <2>4. ASSUME NEW c \in Concepts, n = ConceptNode(c) PROVE <<f, c>> \in mentions
    BY <2>1, <2>4 DEF Adjacent, Edge, NodeOf, ConceptNode
  <2>5. QED
    BY <2>1, <2>2, <2>3, <2>4 DEF Nodes
<1>3. QED
  BY <1>1, <1>2

\* The nodes next to an anchor are facts that its account has asserted.
LEMMA NextToAnchor ==
    ASSUME NEW u, NEW n \in Nodes, Adjacent(n, Anchor(u))
    PROVE  \E g \in Overview(u) : n = NodeOf(g)
<1>1. ASSUME NEW v \in Users, n = Anchor(v) PROVE FALSE
  BY <1>1 DEF Adjacent, Edge, Anchor
<1>2. ASSUME NEW c \in Concepts, n = ConceptNode(c) PROVE FALSE
  BY <1>2 DEF Adjacent, Edge, Anchor, ConceptNode
<1>3. ASSUME NEW g \in Facts, n = NodeOf(g) PROVE g \in Overview(u)
  BY <1>3 DEF Adjacent, Edge, Anchor, NodeOf, Overview
<1>4. QED
  BY <1>1, <1>2, <1>3 DEF Nodes

\* A path of at most two edges passes through asserted facts of the account.
LEMMA PathOfConcept ==
    ASSUME TypeOK, NEW f \in Facts, fact[f] = "asserted",
           NEW c \in Concepts, <<f, c>> \in mentions
    PROVE  FactsIn(PathToAnchor(ConceptNode(c), f[1])) \subseteq Overview(f[1])
<1> DEFINE n == ConceptNode(c)
           a == Anchor(f[1])
           joins(k) == Paths(n, a, k) # {}
           length == CHOOSE k \in 1 .. MaxPath : joins(k) /\ \A j \in 1 .. k - 1 : ~joins(j)
<1>1. n # a /\ n \in Nodes /\ NodeOf(f) \in Nodes
  BY NodesDiffer DEF Nodes
<1>2. ~joins(1)
  <2>1. SUFFICES ASSUME NEW p \in Paths(n, a, 1) PROVE FALSE
    OBVIOUS
  <2>2. Adjacent(n, a)
    BY <2>1 DEF Paths
  <2>3. QED
    BY <1>1, <2>2, NextToAnchor, NodesDiffer
<1>3. joins(2)
  <2> DEFINE p == [i \in 1 .. 2 - 1 |-> NodeOf(f)]
             at(i) == IF i = 0 THEN n ELSE IF i = 2 THEN a ELSE p[i]
  <2>1. p \in [1 .. 2 - 1 -> Nodes]
    BY <1>1
  <2>2. at(0) = n /\ at(1) = NodeOf(f) /\ at(2) = a
    OBVIOUS
  <2>3. Adjacent(n, NodeOf(f)) /\ Adjacent(NodeOf(f), a)
    BY DEF Adjacent, Edge, NodeOf, Anchor, ConceptNode
  <2>4. \A i \in 0 .. 2 - 1 : Adjacent(at(i), at(i + 1))
    <3> HIDE DEF at
    <3>1. \A i \in 0 .. 2 - 1 : i = 0 \/ i = 1
      OBVIOUS
    <3>2. QED
      BY <2>2, <2>3, <3>1
  <2>5. p \in Paths(n, a, 2)
    BY <2>1, <2>4 DEF Paths
  <2>6. QED
    BY <2>5
<1>4. CASE \A k \in 1 .. MaxPath : ~joins(k)
  <2>1. PathToAnchor(n, f[1]) = {}
    BY <1>1, <1>4 DEF PathToAnchor
  <2>2. QED
    BY <2>1 DEF FactsIn
<1>5. CASE ~(\A k \in 1 .. MaxPath : ~joins(k))
  <2>1. length = 2
    <3> HIDE DEF joins
    <3>1. 2 \in 1 .. MaxPath
      BY <1>2, <1>5, MemoryAssumption
    <3>2. \A j \in 1 .. 2 - 1 : ~joins(j)
      BY <1>2
    <3>3. length \in 1 .. MaxPath /\ joins(length) /\ \A j \in 1 .. length - 1 : ~joins(j)
      BY <1>3, <3>1, <3>2
    <3>4. QED
      BY <1>2, <1>3, <3>3, MemoryAssumption
  <2>2. PathToAnchor(n, f[1]) = {n, a} \cup UNION {{p[i] : i \in 1 .. length - 1} : p \in Paths(n, a, length)}
    BY <1>1, <1>5 DEF PathToAnchor
  <2>3. \A p \in Paths(n, a, 2), i \in 1 .. 2 - 1 : p[i] \in Nodes /\ Adjacent(p[i], a)
    <3> SUFFICES ASSUME NEW p \in Paths(n, a, 2), NEW i \in 1 .. 2 - 1
                 PROVE  p[i] \in Nodes /\ Adjacent(p[i], a)
      OBVIOUS
    <3>1. i = 1 /\ p \in [1 .. 2 - 1 -> Nodes]
      BY DEF Paths
    <3>2. Adjacent(p[1], a)
      <4> DEFINE at(j) == IF j = 0 THEN n ELSE IF j = 2 THEN a ELSE p[j]
      <4>1. \A j \in 0 .. 2 - 1 : Adjacent(at(j), at(j + 1))
        BY DEF Paths
      <4>2. 1 \in 0 .. 2 - 1 /\ at(1) = p[1] /\ at(1 + 1) = a
        OBVIOUS
      <4> HIDE DEF at
      <4>3. QED
        BY <4>1, <4>2
    <3>3. QED
      BY <3>1, <3>2
  <2>4. \A m \in PathToAnchor(n, f[1]) : m = n \/ m = a \/ \E g \in Overview(f[1]) : m = NodeOf(g)
    BY <2>1, <2>2, <2>3, NextToAnchor
  <2>5. QED
    BY <2>4, NodesDiffer DEF FactsIn
<1>6. QED
  BY <1>4, <1>5

\* Expanding a fact of an account stays within the account's asserted facts.
LEMMA ExpandStaysOwn ==
    ASSUME TypeOK, NEW u, NEW f \in Overview(u)
    PROVE  Expand(u, f) \subseteq Overview(u)
<1>1. f \in Facts /\ f[1] = u /\ fact[f] = "asserted"
  BY DEF Overview
<1>2. SUFFICES ASSUME NEW g \in Facts, NEW n \in OneHop(NodeOf(f)),
                      NodeOf(g) = n \/ NodeOf(g) \in PathToAnchor(n, u)
               PROVE  g \in Overview(u)
  BY DEF Expand, FactsIn
<1>3. CASE n = NodeOf(f)
  <2>1. NodeOf(g) \in {NodeOf(f), Anchor(u)}
    BY <1>1, <1>2, <1>3, PathOfFact
  <2>2. QED
    BY <2>1, NodesDiffer
<1>4. CASE n = Anchor(u)
  <2>1. PathToAnchor(n, u) = {n}
    BY <1>4 DEF PathToAnchor
  <2>2. QED
    BY <1>2, <1>4, <2>1, NodesDiffer
<1>5. ASSUME NEW c \in Concepts, n = ConceptNode(c), <<f, c>> \in mentions
      PROVE  g \in Overview(u)
  <2>1. NodeOf(g) \in PathToAnchor(n, u)
    BY <1>2, <1>5, NodesDiffer
  <2>2. QED
    BY <1>1, <1>5, <2>1, PathOfConcept DEF FactsIn
<1>6. QED
  BY <1>1, <1>3, <1>4, <1>5, Neighbours

\* What recall finds for an account, and what expanding it adds, are facts that
\* the account has asserted: those the overview lists, and nobody else's
\* (recall_query, expand_one_hop, memory_overview).
THEOREM RecallStaysOwn ==
    ASSUME ~StartsDuringReset
    PROVE  Spec => []RecalledIsAsserted
<1>1. TypeOK /\ GraphInv => RecalledIsAsserted
  <2> SUFFICES ASSUME TypeOK, MentionsOK, NEW u \in Users
               PROVE  LET recalled == UNION {Recall(u, q) : q \in Concepts}
                      IN  /\ recalled \subseteq Overview(u)
                          /\ \A f \in recalled : Expand(u, f) \subseteq Overview(u)
    BY DEF GraphInv, RecalledIsAsserted
  <2> DEFINE recalled == UNION {Recall(u, q) : q \in Concepts}
  <2>1. recalled \subseteq Overview(u)
    BY RecallIsHits
  <2>2. QED
    BY <2>1, ExpandStaysOwn
<1>2. QED
  BY <1>1, MemoryInvariant, PTL

\* A fact whose admission has ended is found by each of its concepts, unless the
\* indexing of that concept has failed since the server was started: whatever
\* else fails, and through crashes, restarts and resets of other accounts.
THEOREM AdmissionIsRecalled ==
    ASSUME ~StartsDuringReset
    PROVE  Spec => []AdmittedIsRecalled
<1>1. TypeOK /\ HandOK /\ GraphInv => AdmittedIsRecalled
  <2> SUFFICES ASSUME TypeOK, GraphInv, up, NEW a \in admitted, a[2] \notin missed
               PROVE  a[1] \in Recall(a[1][1], a[2])
    BY DEF AdmittedIsRecalled
  <2>1. a \in mentions /\ a[1] \in Facts /\ a[2] \in Concepts /\ a = <<a[1], a[2]>>
    BY DEF GraphInv, AdmittedLinked, TypeOK, GraphTypeOK
  <2>2. conceptId[a[2]] # 0
    BY <2>1 DEF GraphInv, MentionsOK
  <2>3. ~(turn.pc = "index" /\ a[2] = Concept)
    BY <2>1 DEF GraphInv, AtWork
  <2>4. table[a[2]] # 0
    BY <2>1, <2>2, <2>3 DEF GraphInv, Indexed
  <2>5. a[1] \in Hits(a[1][1], a[2])
    BY <2>1, <2>4 DEF Hits, Seeds
  <2>6. QED
    BY <2>5, RecallIsHits DEF GraphInv
<1>2. QED
  BY <1>1, MemoryInvariant, PTL

-----------------------------------------------------------------------------
(* The script *)

\* What the script has done so far stays done until it ends: the server is
\* down, so that nothing else writes to the stores.
ResetInv ==
    /\ reset.at \in {"chat", "uploads", "complete"} =>
          /\ \A f \in Facts : f[1] = reset.user => fact[f] = "none"
          /\ anchor[reset.user] # "row"
    /\ reset.at \in {"uploads", "complete"} => reset.user \notin chat
    /\ reset.at = "complete" => reset.user \notin uploads

\* Nothing undoes what the script has done, as the server is down.
LEMMA ResetInvStep ==
    ASSUME ~StartsDuringReset, TypeOK, Quiet, ResetInv, [Next]_vars
    PROVE  ResetInv'
<1>1. CASE up
  <2>1. reset.at = "none"
    BY <1>1 DEF Quiet, TypeOK, RestTypeOK
  <2>2. reset' = reset
    BY <1>1, <2>1 DEF Next, vars, TurnStep, ResetStep, BeginAdmission, BeginRecall, Upload, BeginReset,
       StoreAnchor, StoreAnchorRow, RecordEvidence, StoreFact, AssertFact, StoreConcept, IndexConcept,
       MentionConcept, AdmissionFails, Stop, Start, ResetMemory, ResetChat, ResetUploads, ResetFails
  <2>3. QED
    BY <2>1, <2>2 DEF ResetInv
<1>2. CASE ~up
  <2>1. turn.pc = "idle" /\ turn = Idle
    BY <1>2 DEF Quiet, Idle
  <2>2. CASE UNCHANGED <<reset, fact, anchor, chat, uploads>>
    BY <2>2 DEF ResetInv
  <2>3. ASSUME NEW u \in Users, BeginReset(u) PROVE ResetInv'
    BY <2>3 DEF BeginReset, ResetInv
  <2>4. CASE Start
    BY <2>4 DEF Start, NoReset, graph, files, ResetInv
  <2>5. CASE ResetMemory
    <3>1. reset.user \in Users /\ reset' = [reset EXCEPT !.at = "chat"]
      BY <2>5 DEF ResetMemory, Quiet
    <3>2. reset'.at = "chat" /\ reset'.user = reset.user
      BY <3>1 DEF TypeOK, RestTypeOK
    <3>3. \A f \in Facts : f[1] = reset.user => fact'[f] = "none"
      BY <2>5 DEF ResetMemory, Owned
    <3>4. anchor'[reset.user] # "row"
      BY <2>5, <3>1 DEF ResetMemory, TypeOK, GraphTypeOK
    <3>5. QED
      BY <3>2, <3>3, <3>4 DEF ResetInv
  <2>6. CASE ResetChat
    <3>1. reset'.at = "uploads" /\ reset'.user = reset.user /\ chat' = chat \ {reset.user}
      BY <2>6 DEF ResetChat, TypeOK, RestTypeOK
    <3>2. QED
      BY <2>6, <3>1 DEF ResetChat, graph, ResetInv
  <2>7. CASE ResetUploads
    <3>1. reset'.at = "complete" /\ reset'.user = reset.user /\ uploads' = uploads \ {reset.user}
      BY <2>7 DEF ResetUploads, TypeOK, RestTypeOK
    <3>2. QED
      BY <2>7, <3>1 DEF ResetUploads, graph, ResetInv
  <2>8. CASE ResetFails
    BY <2>8 DEF ResetFails, NoReset, ResetInv
  <2>9. CASE UNCHANGED vars
    BY <2>2, <2>9 DEF vars, graph, files
  <2>10. ~TurnStep
    BY <2>1 DEF TurnStep, StoreAnchor, StoreAnchorRow, RecordEvidence, StoreFact, AssertFact, StoreConcept,
       IndexConcept, MentionConcept, AdmissionFails
  <2>11. QED
    BY <1>2, <2>3, <2>4, <2>5, <2>6, <2>7, <2>8, <2>9, <2>10
       DEF Next, ResetStep, BeginAdmission, BeginRecall, Upload, Stop
<1>3. QED
  BY <1>1, <1>2

\* "Reset complete." (scripts/reset_trial.py) is only reached when of everything the
\* stores held of the account, evidence and an anchor's node without its row are all
\* that may be left: no fact, no pair to find one by, no anchor in use, no
\* conversation and no file, whatever an admission or an earlier reset had left half
\* done.  The server must not be started while the script runs.
THEOREM ResetLeavesNoMore ==
    ASSUME ~StartsDuringReset
    PROVE  Spec => []ResetLeavesAtMost
<1>1. Init => ResetInv
  BY DEF Init, NoReset, ResetInv
<1>2. TypeOK /\ Quiet /\ ResetInv /\ [Next]_vars => ResetInv'
  BY ResetInvStep
<1>3. TypeOK /\ Quiet /\ GraphInv /\ ResetInv => ResetLeavesAtMost
  <2> SUFFICES ASSUME TypeOK, Quiet, GraphInv, ResetInv, reset.at = "complete"
               PROVE  Left(reset.user) \subseteq {"evidence", "node"}
    BY DEF ResetLeavesAtMost
  <2>1. /\ \A f \in Facts : f[1] = reset.user => fact[f] = "none"
        /\ anchor[reset.user] # "row" /\ reset.user \notin chat /\ reset.user \notin uploads
    BY DEF ResetInv
  <2>2. Findable(reset.user) = {}
    <3>1. \A m \in mentions : m[1] \in Facts /\ fact[m[1]] = "asserted"
      BY DEF GraphInv, MentionsOK, TypeOK, GraphTypeOK
    <3>2. QED
      BY <2>1, <3>1 DEF Findable
  <2>3. anchor[reset.user] \in {"none", "node"}
    BY <2>1 DEF TypeOK, GraphTypeOK, Quiet
  <2>4. QED
    BY <2>1, <2>2, <2>3 DEF Left
<1>4. QED
  BY <1>1, <1>2, <1>3, MemoryInvariant, PTL DEF Spec

\* Resetting an account leaves every pair by which another account's facts are
\* found, and every fact it has asserted, although they share concepts
\* (_reset_memory deletes only concepts that nobody mentions any more).
THEOREM ResetTakesOnlyItsOwn == Spec => ResetSparesOthers
<1>1. ASSUME TypeOK, ResetStep, NEW u \in Users \ {reset.user}
      PROVE  Findable(u)' = Findable(u) /\ Overview(u)' = Overview(u)
  <2>1. CASE ResetMemory
    <3> DEFINE gone == {m \in mentions : m[1] \in Owned(reset.user)}
    <3>1. /\ mentions' = mentions \ gone
          /\ conceptId' = [c \in Concepts |-> IF c \in Orphans(gone) THEN 0 ELSE conceptId[c]]
          /\ fact' = [f \in Facts |-> IF f \in Owned(reset.user) THEN "none" ELSE fact[f]]
      BY <2>1 DEF ResetMemory
    <3>2. Overview(u)' = Overview(u)
      BY <3>1 DEF Overview, Owned
    <3>3. ASSUME NEW m \in mentions, m[1][1] = u
          PROVE  m \in mentions' /\ conceptId'[m[2]] = conceptId[m[2]]
      <4>1. m \in mentions \ gone
        BY <3>3 DEF Owned
      <4>2. \A l \in mentions \ gone : l[2] \notin Orphans(gone)
        BY DEF Orphans
      <4>3. m[2] \in Concepts
        BY <1>1 DEF TypeOK, GraphTypeOK
      <4>4. QED
        BY <3>1, <4>1, <4>2, <4>3
    <3>4. Findable(u)' = Findable(u)
      BY <3>1, <3>3 DEF Findable
    <3>5. QED
      BY <3>2, <3>4
  <2>2. CASE ResetChat \/ ResetUploads \/ ResetFails
    BY <2>2 DEF ResetChat, ResetUploads, ResetFails, graph, Findable, Overview
  <2>3. QED
    BY <1>1, <2>1, <2>2 DEF ResetStep
<1>2. TypeOK /\ [Next]_vars =>
        [ResetStep => \A u \in Users \ {reset.user} :
            Findable(u)' = Findable(u) /\ Overview(u)' = Overview(u)]_vars
  BY <1>1
<1>3. QED
  BY <1>2, TypeCorrect, PTL DEF Spec, ResetSparesOthers

=============================================================================
