------------------------- MODULE ConceptEmbeddings -------------------------
(***************************************************************************)
(* Vectors that callers store for the concepts of one workspace, and the   *)
(* similarity query over them.  A write loads the state and stores the     *)
(* vector under the key of the workspace; a query makes three calls to the *)
(* store under no key.  A text stands for label and notes of a node, for   *)
(* their digest, and for the vector computed from them: what a caller has  *)
(* computed from a text it read may be of another text than the node has   *)
(* by now.                                                                 *)
(***************************************************************************)
EXTENDS Integers, FiniteSets

CONSTANTS Nodes,    \* numbered in the order of their ids
          Texts,
          Score,    \* how alike the vectors of two texts are
          Callers,
          Limit, MinScore,  \* of a similarity request
          Window,           \* how many rows it asks of the store
          Behaviours, \* what a behaviour may do: see bounds
          None

WindowIsWider == /\ Limit \in Nat \ {0} /\ Window \in Nat /\ Window > Limit
                 /\ MinScore \in Int
ScoresAreNumbers == Score \in [Texts \X Texts -> Int]
NodesAreNumbered == Nodes \subseteq Int /\ IsFiniteSet(Nodes)
BehavioursAreBounded ==
  Behaviours \subseteq [nodes : SUBSET Nodes, calls : Nat, edits : Nat, upserts : Nat]

VARIABLES text,      \* of every concept, None for a node that is none
          embedding, \* rows of node_embeddings
          lock,      \* holder of the key of the workspace
          caller,    \* what each caller is doing
          bounds     \* the nodes that are edited, the calls at once, and how
                     \* many edits and vectors are still to come

vars == <<text, embedding, lock, caller, bounds>>

Idle == [at |-> "idle"]

Init == /\ bounds \in Behaviours
        /\ text \in [Nodes -> Texts \cup {None}]
        /\ \A n \in Nodes : text[n] # None <=> n \in bounds.nodes
        /\ embedding = [n \in Nodes |-> None]
        /\ lock = None
        /\ caller = [c \in Callers |-> Idle]

Set(c, doing) == caller' = [caller EXCEPT ![c] = doing]

MayCall(c) == /\ caller[c] = Idle
              /\ Cardinality({d \in Callers : caller[d] # Idle}) < bounds.calls

-----------------------------------------------------------------------------
(* A graph mutation, from load to commit.  The save deletes the rows of    *)
(* nodes that are no concepts any more.                                    *)
Prune(rows, concepts) == [n \in Nodes |-> IF concepts[n] = None THEN None ELSE rows[n]]

EditConcept(n, t) ==
  /\ lock = None
  /\ bounds.edits > 0 /\ n \in bounds.nodes
  /\ text[n] # t
  /\ text' = [text EXCEPT ![n] = t]
  /\ embedding' = Prune(embedding, text')
  /\ caller' = [c \in Callers |->
                  IF caller[c].at \in {"loaded", "checked"} /\ caller[c].source = n
                  THEN [caller[c] EXCEPT !.meanwhile = @ \cup {t}]
                  ELSE caller[c]]
  /\ bounds' = [bounds EXCEPT !.edits = @ - 1]
  /\ UNCHANGED lock

-----------------------------------------------------------------------------
(* A caller reads a concept and computes a vector from what it read. *)
Compute(c, n) == /\ MayCall(c)
                 /\ bounds.upserts > 0
                 /\ text[n] # None
                 /\ bounds' = [bounds EXCEPT !.upserts = @ - 1]
                 /\ Set(c, [at |-> "computed", node |-> n, vector |-> text[n]])
                 /\ UNCHANGED <<text, embedding, lock>>

(* upsertConceptEmbeddingMutation: the digest is of the text it finds. *)
LoadForUpsert(c) ==
  /\ caller[c].at = "computed"
  /\ lock = None
  /\ IF text[caller[c].node] = None
     THEN /\ Set(c, Idle)
          /\ UNCHANGED lock
     ELSE /\ Set(c, [at |-> "writing", node |-> caller[c].node,
                     vector |-> caller[c].vector, digest |-> text[caller[c].node]])
          /\ lock' = c
  /\ UNCHANGED <<text, embedding, bounds>>

(* One statement, which may also fail. *)
Upsert(c, stored) ==
  /\ caller[c].at = "writing"
  /\ embedding' = IF stored
                  THEN [embedding EXCEPT ![caller[c].node] =
                          [vector |-> caller[c].vector, digest |-> caller[c].digest]]
                  ELSE embedding
  /\ Set(c, Idle)
  /\ lock' = None
  /\ UNCHANGED <<text, bounds>>

-----------------------------------------------------------------------------
(* The rows the store ranks for a source, best first. *)
RowScore(rows, source, n) == Score[<<rows[source].vector, rows[n].vector>>]

RanksBefore(rows, source, m, n) ==
  \/ RowScore(rows, source, m) > RowScore(rows, source, n)
  \/ RowScore(rows, source, m) = RowScore(rows, source, n) /\ m < n

(* The first k of a set of nodes by rank. *)
First(rows, source, S, k) ==
  {n \in S : Cardinality({m \in S : RanksBefore(rows, source, m, n)}) < k}

Stored(rows, source) == {n \in Nodes \ {source} : rows[n] # None}

Usable(rows, texts, source, n) ==
  /\ texts[n] # None
  /\ rows[n].digest = texts[n]
  /\ RowScore(rows, source, n) >= MinScore

(* The window is cut first, then stale rows are left out, then the limit.  *)
UsableRows(rows, texts, source) ==
  {n \in First(rows, source, Stored(rows, source), Window) : Usable(rows, texts, source, n)}

Matches(rows, texts, source) ==
  IF rows[source] = None THEN {}
  ELSE First(rows, source, UsableRows(rows, texts, source), Limit)

(* listSimilarConcepts: load the state, ... *)
LoadForQuery(c, n) ==
  /\ MayCall(c)
  /\ text[n] # None
  /\ Set(c, [at |-> "loaded", source |-> n, texts |-> text, meanwhile |-> {text[n]}])
  /\ UNCHANGED <<text, embedding, lock, bounds>>

(* Faulty variant: any vector of the source will do. *)
CheckSourceExists(c) ==
  /\ caller[c].at = "loaded"
  /\ IF embedding[caller[c].source] # None
     THEN Set(c, [caller[c] EXCEPT !.at = "checked"])
     ELSE Set(c, Idle)
  /\ UNCHANGED <<text, embedding, lock, bounds>>

(* ... refuse a source without a vector or with a stale one, ... *)
CheckSource(c) ==
  LET row == embedding[caller[c].source]
  IN /\ caller[c].at = "loaded"
     /\ IF row # None /\ row.digest = caller[c].texts[caller[c].source]
        THEN Set(c, [caller[c] EXCEPT !.at = "checked"])
        ELSE Set(c, Idle)
     /\ UNCHANGED <<text, embedding, lock, bounds>>

(* ... and rank.  The answer is kept with what it was computed from. *)
Rank(c) ==
  /\ caller[c].at = "checked"
  /\ Set(c, [at |-> "answered", source |-> caller[c].source, texts |-> caller[c].texts,
             meanwhile |-> caller[c].meanwhile, rows |-> embedding,
             matches |-> Matches(embedding, caller[c].texts, caller[c].source)])
  /\ UNCHANGED <<text, embedding, lock, bounds>>

Forget(c) == /\ caller[c].at = "answered"
             /\ Set(c, Idle)
             /\ UNCHANGED <<text, embedding, lock, bounds>>

Next == \/ \E n \in Nodes, t \in Texts \cup {None} : EditConcept(n, t)
        \/ \E c \in Callers :
             \/ \E n \in Nodes : Compute(c, n) \/ LoadForQuery(c, n)
             \/ LoadForUpsert(c) \/ CheckSource(c) \/ Rank(c) \/ Forget(c)
             \/ \E stored \in BOOLEAN : Upsert(c, stored)

Spec == Init /\ [][Next]_vars

-----------------------------------------------------------------------------
Row == [vector : Texts, digest : Texts]

TypeOK == /\ text \in [Nodes -> Texts \cup {None}]
          /\ embedding \in [Nodes -> Row \cup {None}]
          /\ lock \in Callers \cup {None}
          /\ bounds \in [nodes : SUBSET Nodes, calls : Nat, edits : Nat, upserts : Nat]
          /\ \A c \in Callers : lock = c <=> caller[c].at = "writing"

(* A row is always of a node that is a concept now: none outlives its      *)
(* concept to be found again when the id comes back (pruneConceptEmbeddings*)
(* and the key of the workspace).                                          *)
RowsAreOfConcepts == \A n \in Nodes : embedding[n] # None => text[n] # None

Answers == {caller[c] : c \in {d \in Callers : caller[d].at = "answered"}}
(* A match is another concept whose row was computed, as far as its digest *)
(* tells, from the text the answer shows.                                  *)
MatchesAreCurrent ==
  \A a \in Answers : \A n \in a.matches :
    /\ n # a.source
    /\ a.rows[n].digest = a.texts[n]
    /\ RowScore(a.rows, a.source, n) >= MinScore

(* The three calls of a query are not atomic; still the scores are those   *)
(* of a row of the source that was current at some time during the query.  *)
SourceWasCurrent ==
  \A a \in Answers : a.rows[a.source] # None => a.rows[a.source].digest \in a.meanwhile

(* No usable concept that is more alike than a match is left out, and an   *)
(* answer falls short of the limit only when so many stale rows rank       *)
(* before the ones left out that they fill the window.                     *)
BestComeFirst ==
  \A a \in Answers : a.rows[a.source] # None =>
    \A n \in Nodes \ ({a.source} \cup a.matches) :
      a.rows[n] # None /\ Usable(a.rows, a.texts, a.source, n) =>
        /\ \A m \in a.matches : RowScore(a.rows, a.source, m) >= RowScore(a.rows, a.source, n)
        /\ Cardinality(a.matches) < Limit =>
             \E stale \in SUBSET (Nodes \ {a.source, n}) :
               /\ Cardinality(stale) = Window - Cardinality(a.matches)
               /\ \A m \in stale : /\ a.rows[m] # None
                                   /\ ~Usable(a.rows, a.texts, a.source, m)
                                   /\ RowScore(a.rows, a.source, m) >= RowScore(a.rows, a.source, n)

(* The digest of a row is of the text its vector was computed from         *)
(* (storage-format.md).                                                    *)
DigestIsOfTheVector ==
  \A n \in Nodes : embedding[n] # None => embedding[n].vector = embedding[n].digest
=============================================================================
