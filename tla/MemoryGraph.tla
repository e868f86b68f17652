---------------------------- MODULE MemoryGraph ----------------------------
(***************************************************************************)
(* The long-term memory: the graph of anchors, facts and concepts and the  *)
(* concept index in memory.sqlite3, the copy of the index in the server's  *)
(* memory, the admission of a turn's facts, recall, and the script that    *)
(* resets a trial account (mai/memory, _postprocess_memory of              *)
(* mai/app/runtime.py, scripts/reset_trial.py).                            *)
(*                                                                         *)
(* An admission runs without an await, but every node, edge and index row  *)
(* is a commit of its own: an exception ends it after any of them, and the *)
(* process may die there.  Program points of a turn (turn.pc), each before *)
(* the commit it names: anchor, row, evidence, fact, assert, concept,      *)
(* index, mention; idle when no turn is at work.                           *)
(***************************************************************************)
EXTENDS Naturals, Sequences, FiniteSets

CONSTANTS
    Users,          \* db_id of the accounts
    Trials,         \* those configured in TRIAL_USERS
    Texts,          \* fact texts
    Concepts,       \* canonical texts of concepts
    Segmentations,  \* what the segmenter may make of a text; it learns over time
    TurnFacts,      \* results of fact extraction
    Phrases,        \* <<q, c>>: the words of q are a phrase of c
    None,
    StartsDuringReset, \* the server may be started while the script runs
    MaxTurns, MaxFaults, MaxStops, MaxResets,
    MaxPath         \* longest path to an anchor that is looked for

ASSUME MemoryAssumption ==
    /\ Trials \subseteq Users
    /\ None \notin Users
    /\ Segmentations \in [Texts -> SUBSET Seq(Concepts)]
    /\ TurnFacts \subseteq Seq(Texts)
    /\ Phrases \subseteq Concepts \X Concepts
    /\ StartsDuringReset \in BOOLEAN
    /\ {MaxTurns, MaxFaults, MaxStops, MaxResets} \subseteq Nat
    /\ MaxPath \in Nat \ {0}

Facts == Users \X Texts     \* identity fact:<user_id>:<text>

VARIABLES
    up,         \* the server is running
    anchor,     \* an account's anchor: "none", "node" without user_anchors row, "row"
    evidence,   \* accounts whose words are in table evidence, which does not name them
    fact,       \* "none", "node", or "asserted" with the edge from the anchor
    conceptId,  \* id of a concept's node, 0 where there is none
    mentions,   \* <<fact, concept>> of the mentions edges
    nextId,     \* AUTOINCREMENT: an id is not used again
    indexId,    \* node id in memory_concept_exact and memory_concept_fts
    table,      \* SqliteFtsConceptIndex._exact
    turn,       \* the turn at work on the graph
    reset,      \* the script: where it is, and the account
    chat,       \* accounts with rows in the conversation store
    uploads,    \* accounts with uploaded files
    count,      \* turns, faults, stops and resets so far
    admitted,   \* history: <<fact, concept>> of completed admissions
    missed      \* history: concepts whose indexing has failed since the start

graph == <<anchor, evidence, fact, conceptId, mentions, nextId>>
index == <<indexId, table>>
files == <<chat, uploads>>
history == <<admitted, missed>>
vars == <<up, graph, index, turn, reset, files, count, history>>

Empty == [c \in Concepts |-> 0]
Idle == [pc |-> "idle", user |-> None, admits |-> FALSE, todo |-> <<>>,
         segments |-> <<>>, node |-> 0, linked |-> {}]
Admission(u, pc, todo) == [pc |-> pc, user |-> u, admits |-> TRUE, todo |-> todo,
                           segments |-> <<>>, node |-> 0, linked |-> {}]
NoReset == [at |-> "none", user |-> None]

Init ==
    /\ up = FALSE
    /\ anchor = [u \in Users |-> "none"]
    /\ evidence = {}
    /\ fact = [f \in Facts |-> "none"]
    /\ conceptId = Empty /\ mentions = {} /\ nextId = 1
    /\ indexId = Empty /\ table = Empty
    /\ turn = Idle
    /\ reset = NoReset
    /\ chat = {} /\ uploads = {}
    /\ count = [turns |-> 0, faults |-> 0, stops |-> 0, resets |-> 0]
    /\ admitted = {} /\ missed = {}

-----------------------------------------------------------------------------
(* Reading the memory *)

\* The index's hits for one word of a query: the exact table first, then the
\* full-text rows that hold the word as a phrase.
Seeds(q) == {c \in Concepts : \/ c = q /\ table[c] # 0
                              \/ <<q, c>> \in Phrases /\ indexId[c] # 0}

Anchor(u) == <<"anchor", u>>
NodeOf(f) == <<"fact", f>>
ConceptNode(c) == <<"concept", c>>
FactsIn(nodes) == {f \in Facts : NodeOf(f) \in nodes}

Nodes == {Anchor(u) : u \in Users} \cup {NodeOf(f) : f \in Facts} \cup {ConceptNode(c) : c \in Concepts}

\* The edges: asserted_fact from an anchor, mentions from a fact.
Edge(n, m) ==
    \/ n[1] = "anchor" /\ m[1] = "fact" /\ m[2][1] = n[2] /\ fact[m[2]] = "asserted"
    \/ n[1] = "fact" /\ m[1] = "concept" /\ <<n[2], m[2]>> \in mentions

\* one_hop: the direction of an edge does not matter.
Adjacent(n, m) == Edge(n, m) \/ Edge(m, n)
OneHop(n) == {n} \cup {m \in Nodes : Adjacent(n, m)}

\* The paths of k edges from n to m, by the nodes between.
Paths(n, m, k) ==
    {p \in [1 .. k - 1 -> Nodes] :
        LET at(i) == IF i = 0 THEN n ELSE IF i = k THEN m ELSE p[i]
        IN  \A i \in 0 .. k - 1 : Adjacent(at(i), at(i + 1))}

\* shortest_path_to_user_anchor: the nodes on the shortest paths, none where
\* there is no path; which of several it takes depends on the ids of the edges.
PathToAnchor(n, u) ==
    LET joins(k) == Paths(n, Anchor(u), k) # {}
        length == CHOOSE k \in 1 .. MaxPath : joins(k) /\ \A j \in 1 .. k - 1 : ~joins(j)
    IN  IF n = Anchor(u) THEN {n}
        ELSE IF \A k \in 1 .. MaxPath : ~joins(k) THEN {}
        ELSE {n, Anchor(u)} \cup UNION {{p[i] : i \in 1 .. length - 1} :
                                         p \in Paths(n, Anchor(u), length)}

\* recall_query: the account's own facts that mention a hit, each with the facts
\* on its path to the account's anchor.
Hits(u, q) == {f \in Facts : f[1] = u /\ \E c \in Seeds(q) : <<f, c>> \in mentions}

Recall(u, q) == FactsIn(UNION {PathToAnchor(NodeOf(f), u) : f \in Hits(u, q)})

\* expand_one_hop of a fact the model was shown: its neighbours, and the facts
\* on the path of each to the anchor.
Expand(u, f) ==
    FactsIn(OneHop(NodeOf(f)) \cup UNION {PathToAnchor(n, u) : n \in OneHop(NodeOf(f))})

\* memory_overview: the facts at the other end of the anchor's edges.
Overview(u) == {f \in Facts : f[1] = u /\ fact[f] = "asserted"}

-----------------------------------------------------------------------------
(* A turn: Fact is the fact in hand, Concept the segment. *)

Fact == <<turn.user, Head(turn.todo)>>
Concept == Head(turn.segments)

\* should_skip_recall_without_new_facts: a turn that recalled and was found to
\* hold no new fact.  Any other is kept, also when its extraction failed.
Skipped(recalled, extracted, facts) == recalled /\ extracted /\ facts = <<>>

\* Where a turn goes on when `todo` is what is left of its facts.
GoOn(todo) ==
    turn' = IF todo = <<>> THEN Idle ELSE Admission(turn.user, "fact", todo)

\* _postprocess_memory once extraction has ended, in facts or in an exception.
BeginAdmission(u, facts, recalled, extracted) ==
    /\ up /\ turn = Idle
    /\ count.turns < MaxTurns /\ count' = [count EXCEPT !.turns = @ + 1]
    /\ extracted \/ facts = <<>>
    /\ ~Skipped(recalled, extracted, facts)
    /\ turn' = Admission(u, IF anchor[u] = "row" THEN "evidence" ELSE "anchor", facts)
    /\ chat' = chat \cup {u}
    /\ UNCHANGED <<up, graph, index, reset, uploads, history>>

\* explicit_recall and memory_overview create the account's anchor, too.
BeginRecall(u) ==
    /\ up /\ turn = Idle /\ anchor[u] # "row"
    /\ turn' = [Idle EXCEPT !.pc = "anchor", !.user = u]
    /\ UNCHANGED <<up, graph, index, reset, files, count, history>>

\* ensure_user_anchor: the node, found again by its identity key, then the row.
StoreAnchor ==
    /\ turn.pc = "anchor"
    /\ anchor' = [anchor EXCEPT ![turn.user] = IF @ = "none" THEN "node" ELSE @]
    /\ turn' = [turn EXCEPT !.pc = "row"]
    /\ UNCHANGED <<up, evidence, fact, conceptId, mentions, nextId, index, reset, files,
                   count, history>>

StoreAnchorRow ==
    /\ turn.pc = "row" /\ anchor[turn.user] = "node"
    /\ anchor' = [anchor EXCEPT ![turn.user] = "row"]
    /\ turn' = IF turn.admits THEN [turn EXCEPT !.pc = "evidence"] ELSE Idle
    /\ UNCHANGED <<up, evidence, fact, conceptId, mentions, nextId, index, reset, files,
                   count, history>>

\* record_evidence; finish_turn follows, and finds the anchor in place.
RecordEvidence ==
    /\ turn.pc = "evidence"
    /\ evidence' = evidence \cup {turn.user}
    /\ GoOn(turn.todo)
    /\ UNCHANGED <<up, anchor, fact, conceptId, mentions, nextId, index, reset, files,
                   count, history>>

\* A plausible mistake: the anchor's edge only for a fact that is new.
StoreFactAssertNew ==
    /\ turn.pc = "fact"
    /\ fact' = [fact EXCEPT ![Fact] = IF @ = "none" THEN "node" ELSE @]
    /\ \E s \in Segmentations[Fact[2]] :
          turn' = IF fact[Fact] = "none" THEN [turn EXCEPT !.pc = "assert"]
                  ELSE [turn EXCEPT !.pc = "concept", !.segments = s]
    /\ UNCHANGED <<up, anchor, evidence, conceptId, mentions, nextId, index, reset, files,
                   count, history>>

\* get_or_create_fact
StoreFact ==
    /\ turn.pc = "fact"
    /\ fact' = [fact EXCEPT ![Fact] = IF @ = "none" THEN "node" ELSE @]
    /\ turn' = [turn EXCEPT !.pc = "assert"]
    /\ UNCHANGED <<up, anchor, evidence, conceptId, mentions, nextId, index, reset, files,
                   count, history>>

\* add_typed_edge from the anchor, INSERT OR IGNORE; then the fact is cut into
\* segments, of which there may be none.
AssertFact ==
    /\ turn.pc = "assert"
    /\ fact[Fact] # "none" /\ anchor[turn.user] = "row"
    /\ fact' = [fact EXCEPT ![Fact] = "asserted"]
    /\ \E s \in Segmentations[Fact[2]] :
          IF s = <<>> THEN GoOn(Tail(turn.todo))
          ELSE turn' = [turn EXCEPT !.pc = "concept", !.segments = s]
    /\ UNCHANGED <<up, anchor, evidence, conceptId, mentions, nextId, index, reset, files,
                   count, history>>

\* get_or_create_concept: only a concept that was created is indexed.
StoreConcept ==
    /\ turn.pc = "concept"
    /\ IF conceptId[Concept] = 0
       THEN /\ conceptId' = [conceptId EXCEPT ![Concept] = nextId]
            /\ nextId' = nextId + 1
            /\ turn' = [turn EXCEPT !.pc = "index", !.node = nextId]
       ELSE /\ turn' = [turn EXCEPT !.pc = "mention", !.node = conceptId[Concept]]
            /\ UNCHANGED <<conceptId, nextId>>
    /\ UNCHANGED <<up, anchor, evidence, fact, mentions, index, reset, files, count, history>>

\* add_node: one transaction on both tables, then the copy in memory; it raises
\* when the text or the id is in the index already.
Indexable == table[Concept] = 0 /\ indexId[Concept] = 0 /\ \A c \in Concepts : indexId[c] # turn.node

IndexConcept ==
    /\ turn.pc = "index" /\ Indexable
    /\ indexId' = [indexId EXCEPT ![Concept] = turn.node]
    /\ table' = [table EXCEPT ![Concept] = turn.node]
    /\ turn' = [turn EXCEPT !.pc = "mention"]
    /\ UNCHANGED <<up, graph, reset, files, count, history>>

\* add_typed_edge to the concept raises unless both nodes are there; with the
\* last segment the fact is admitted.
Linkable == fact[Fact] # "none" /\ conceptId[Concept] = turn.node

MentionConcept ==
    /\ turn.pc = "mention" /\ Linkable
    /\ mentions' = mentions \cup {<<Fact, Concept>>}
    /\ IF Tail(turn.segments) # <<>>
       THEN /\ turn' = [turn EXCEPT !.pc = "concept", !.segments = Tail(@),
                                    !.linked = @ \cup {Concept}]
            /\ UNCHANGED admitted
       ELSE /\ GoOn(Tail(turn.todo))
            /\ admitted' = admitted \cup {<<Fact, c>> : c \in turn.linked \cup {Concept}}
    /\ UNCHANGED <<up, anchor, evidence, fact, conceptId, nextId, index, reset, files,
                   count, missed>>

\* A commit fails, or finds that the script has been at its nodes.
Refused ==
    \/ turn.pc = "assert" /\ (fact[Fact] = "none" \/ anchor[turn.user] # "row")
    \/ turn.pc = "index" /\ ~Indexable
    \/ turn.pc = "mention" /\ ~Linkable

\* An exception out of the commit at hand is logged, and the rest of the turn
\* is left out.  A concept created before it stays without an index row.
AdmissionFails ==
    /\ turn # Idle
    /\ IF Refused THEN UNCHANGED count
       ELSE count.faults < MaxFaults /\ count' = [count EXCEPT !.faults = @ + 1]
    /\ missed' = IF turn.pc = "index" THEN missed \cup {Concept} ELSE missed
    /\ turn' = Idle
    /\ UNCHANGED <<up, graph, index, reset, files, admitted>>

TurnStep ==
    \/ StoreAnchor \/ StoreAnchorRow \/ RecordEvidence \/ StoreFact \/ AssertFact
    \/ StoreConcept \/ IndexConcept \/ MentionConcept \/ AdmissionFails

\* POST /upload of an account.
Upload(u) ==
    /\ up /\ uploads' = uploads \cup {u}
    /\ UNCHANGED <<up, graph, index, turn, reset, chat, count, history>>

-----------------------------------------------------------------------------
(* The server stops, between two commits or in order, and starts. *)

Stop ==
    /\ up /\ up' = FALSE
    /\ count.stops < MaxStops /\ count' = [count EXCEPT !.stops = @ + 1]
    /\ turn' = Idle /\ table' = Empty
    /\ UNCHANGED <<graph, indexId, reset, files, history>>

\* What _sync_existing_graph_concepts raises on: the text or the id of a
\* concept of the graph stands in the index with another partner.
Conflicting(c) ==
    /\ conceptId[c] # 0
    /\ \/ indexId[c] \notin {0, conceptId[c]}
       \/ \E d \in Concepts \ {c} : indexId[d] = conceptId[c]

\* A plausible mistake: the rows that are missing are not added.
StartUnsynced ==
    /\ ~up /\ up' = TRUE
    /\ reset.at \in {"none", "complete"} \/ StartsDuringReset
    /\ \A c \in Concepts : ~Conflicting(c)
    /\ table' = indexId
    /\ missed' = {}
    /\ reset' = IF reset.at = "complete" THEN NoReset ELSE reset
    /\ UNCHANGED <<graph, indexId, turn, files, count, admitted>>

\* The index adds what it misses of the graph's concepts, then reads its table;
\* with a conflict the server does not come up.
Start ==
    /\ ~up /\ up' = TRUE
    /\ reset.at \in {"none", "complete"} \/ StartsDuringReset
    /\ \A c \in Concepts : ~Conflicting(c)
    /\ indexId' = [c \in Concepts |-> IF conceptId[c] # 0 THEN conceptId[c] ELSE indexId[c]]
    /\ table' = indexId'
    /\ missed' = {}
    /\ reset' = IF reset.at = "complete" THEN NoReset ELSE reset
    /\ UNCHANGED <<graph, turn, files, count, admitted>>

-----------------------------------------------------------------------------
(* scripts/reset_trial.py *)

\* The port is probed, the account looked up, the data counted; then the script
\* waits for the confirmation.
BeginReset(u) ==
    /\ ~up /\ u \in Trials
    /\ reset.at \in {"none", "complete"}
    /\ count.resets < MaxResets /\ count' = [count EXCEPT !.resets = @ + 1]
    /\ reset' = [at |-> "memory", user |-> u]
    /\ UNCHANGED <<up, graph, index, turn, files, history>>

\* Mistaken: the facts at the other end of the anchor's edges.
OwnedByEdge(u) == {f \in Facts : f[1] = u /\ fact[f] = "asserted"}

\* The facts whose payload names the account.
Owned(u) == {f \in Facts : f[1] = u /\ fact[f] # "none"}

\* Mistaken: the concepts that lost an edge.
OrphansOfDeleted(gone) == {m[2] : m \in gone}

\* Concepts without an edge once the mentions `gone` are deleted.
Orphans(gone) == {c \in Concepts : conceptId[c] # 0 /\ \A m \in mentions \ gone : m[2] # c}

\* Mistaken: the rows of the index stay.
UnindexedRows(orphans) == {}

\* The rows of the index that go with the orphans, by their node id.
IndexRows(orphans) == {c \in Concepts : \E o \in orphans : indexId[c] = conceptId[o]}

\* _reset_memory, one transaction: the account's nodes with their edges, then
\* the concepts nobody mentions any more, in the graph and in the index.  The
\* evidence it deletes is that of utterance nodes, which no turn creates.
ResetMemory ==
    LET u == reset.user
        owned == Owned(u)
        gone == {m \in mentions : m[1] \in owned}
        orphans == Orphans(gone)
        rows == IndexRows(orphans)
    IN
    /\ reset.at = "memory"
    /\ reset' = [reset EXCEPT !.at = "chat"]
    /\ anchor' = [anchor EXCEPT ![u] = IF @ = "row" THEN "none" ELSE @]
    /\ fact' = [f \in Facts |-> IF f \in owned THEN "none" ELSE fact[f]]
    /\ mentions' = mentions \ gone
    /\ conceptId' = [c \in Concepts |-> IF c \in orphans THEN 0 ELSE conceptId[c]]
    /\ indexId' = [c \in Concepts |-> IF c \in rows THEN 0 ELSE indexId[c]]
    /\ admitted' = {a \in admitted : a[1][1] # u}
    /\ UNCHANGED <<up, evidence, nextId, table, turn, files, count, missed>>

\* _reset_chat_history and _reset_uploads
ResetChat ==
    /\ reset.at = "chat"
    /\ reset' = [reset EXCEPT !.at = "uploads"]
    /\ chat' = chat \ {reset.user}
    /\ UNCHANGED <<up, graph, index, turn, uploads, count, history>>

ResetUploads ==
    /\ reset.at = "uploads"
    /\ reset' = [reset EXCEPT !.at = "complete"]
    /\ uploads' = uploads \ {reset.user}
    /\ UNCHANGED <<up, graph, index, turn, chat, count, history>>

\* The confirmation is refused, a store raises, or the script is killed: what is
\* done stays done.
ResetFails ==
    /\ reset.at \in {"memory", "chat", "uploads"}
    /\ reset' = NoReset
    /\ UNCHANGED <<up, graph, index, turn, files, count, history>>

ResetStep == ResetMemory \/ ResetChat \/ ResetUploads \/ ResetFails

Next ==
    \/ \E u \in Users :
          \/ \E facts \in TurnFacts, recalled, extracted \in BOOLEAN :
                BeginAdmission(u, facts, recalled, extracted)
          \/ BeginRecall(u) \/ Upload(u) \/ BeginReset(u)
    \/ TurnStep
    \/ Stop \/ Start
    \/ ResetStep

Spec == Init /\ [][Next]_vars

-----------------------------------------------------------------------------
GraphTypeOK ==
    /\ anchor \in [Users -> {"none", "node", "row"}]
    /\ evidence \subseteq Users
    /\ fact \in [Facts -> {"none", "node", "asserted"}]
    /\ conceptId \in [Concepts -> Nat] /\ nextId \in Nat \ {0}
    /\ mentions \subseteq Facts \X Concepts

IndexTypeOK == indexId \in [Concepts -> Nat] /\ table \in [Concepts -> Nat]

TurnTypeOK ==
    turn \in [pc : {"idle", "anchor", "row", "evidence", "fact", "assert", "concept",
                   "index", "mention"},
             user : Users \cup {None}, admits : BOOLEAN, todo : Seq(Texts),
             segments : Seq(Concepts), node : Nat, linked : SUBSET Concepts]

RestTypeOK ==
    /\ up \in BOOLEAN
    /\ reset \in [at : {"none", "memory", "chat", "uploads", "complete"}, user : Users \cup {None}]
    /\ chat \subseteq Users /\ uploads \subseteq Users
    /\ count \in [turns : Nat, faults : Nat, stops : Nat, resets : Nat]
    /\ admitted \subseteq Facts \X Concepts /\ missed \subseteq Concepts

\* Every variable has its type.
TypeOK == GraphTypeOK /\ IndexTypeOK /\ TurnTypeOK /\ RestTypeOK

\* What was admitted can be recalled: a fact whose admission ran to its end is
\* found by each of its concepts.  The one exception is a concept whose indexing
\* failed, in whatever turn, since the server was last started: every turn that
\* mentions it later finds it created, and does not index it either.  A restart
\* ends the exception (docs/memory.md, "Concept identity and search").
AdmittedIsRecalled ==
    up => \A a \in admitted : a[2] \in missed \/ a[1] \in Recall(a[1][1], a[2])

\* The index never holds a row the graph's concepts contradict, whatever failed,
\* crashed or was reset in between; else the next start would raise.
IndexFollowsGraph ==
    \A c \in Concepts : indexId[c] # 0 => indexId[c] = conceptId[c]

\* A fact that recall finds is one edge away from its account's anchor, so the
\* path that comes with it brings no fact of another account and none that the
\* overview does not list; nor does expanding a fact that was found, although
\* its concepts are everybody's.
RecalledIsAsserted ==
    up => \A u \in Users :
        LET recalled == UNION {Recall(u, q) : q \in Concepts}
        IN  /\ recalled \subseteq Overview(u)
            /\ \A f \in recalled : Expand(u, f) \subseteq Overview(u)

\* The pairs by which an account's facts can be found after the next start.
Findable(u) == {m \in mentions : m[1][1] = u /\ conceptId[m[2]] # 0}

\* Resetting an account takes nothing from another one, although they share
\* concepts.
ResetSparesOthers ==
    [][ResetStep => \A u \in Users \ {reset.user} :
          Findable(u)' = Findable(u) /\ Overview(u)' = Overview(u)]_vars

\* The kinds of things the stores hold of an account; its anchor is a node, or a row
\* as well.
Left(u) ==
    {"evidence" : v \in evidence \cap {u}}
    \cup ({anchor[u]} \ {"none"})
    \cup {"fact" : f \in {g \in Facts : g[1] = u /\ fact[g] # "none"}}
    \cup {"mention" : m \in Findable(u)}
    \cup {"conversation" : v \in chat \cap {u}}
    \cup {"upload" : v \in uploads \cap {u}}

\* When the script says "Reset complete.", whatever an admission or an earlier reset
\* had left half done, the stores hold at most two things of the account: the evidence
\* of its turns, which is raw text that names no account, so that the script cannot
\* find it, and an anchor's node that never got its user_anchors row.  Either is short
\* of what setup.md:164 promises, a reset of the account's memory.
ResetLeavesAtMost == reset.at = "complete" => Left(reset.user) \subseteq {"evidence", "node"}
=============================================================================
