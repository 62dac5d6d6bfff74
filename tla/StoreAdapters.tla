---------------------------- MODULE StoreAdapters ----------------------------
(***************************************************************************)
(* packages/storage: the two adapters of the HiveMapStore contract, the    *)
(* in-memory one that the tests of the runtime use and the Postgres one    *)
(* that the servers use.  Both receive the same calls one after the other; *)
(* what each keeps and answers is translated from its own code.  A state   *)
(* is what the adapters treat differently in it; a vector is its number of *)
(* dimensions; a chunk is the set of its words, a query a set of terms.    *)
(* Only chunk hits of a search are modelled, not file hits, and neither    *)
(* the order of the answers nor the time stamps.                           *)
(***************************************************************************)
EXTENDS Naturals, FiniteSets

CONSTANTS None, Refused, Workspaces, Slugs, Concepts, Indexes, Words, Dimensions,
          Contents,     \* what replaceRepositoryIndexContents is given
          Supported     \* only calls the adapters are meant to agree on

SupportedIsBoolean == Supported \in BOOLEAN

VARIABLES memory,     \* the Maps of InMemoryHiveMapStore
          postgres,   \* the rows of PostgresHiveMapStore
          outcome     \* which adapter accepted the last write
vars == <<memory, postgres, outcome>>

States == [concepts : SUBSET Concepts, slug : Slugs \cup {None},
           run : Indexes \cup {None}]   \* run: the index a scan run names
Queries == (SUBSET Words) \ {{}}

(* What replaceRepositoryIndexContents is given are chunks of words.       *)
ContentsAreTyped ==
  \A content \in Contents : /\ content.chunks \subseteq Queries
                            /\ content.owned \in BOOLEAN /\ content.loose \in BOOLEAN

Empty == [spaces |-> [w \in Workspaces |-> None],
          vectors |-> [w \in Workspaces |-> [c \in Concepts |-> None]],
          contents |-> [w \in Workspaces |-> [i \in Indexes |-> None]]]

Exists(store, w) == store.spaces[w] # None
HasIndex(store, w, i) == store.contents[w][i] # None
Named(state) == state.run # None

Kept(vectors, state) ==
  [c \in Concepts |-> IF c \in state.concepts THEN vectors[c] ELSE None]
NoVectors == [c \in Concepts |-> None]
NoIndexes == [i \in Indexes |-> None]

Init ==
  /\ memory = Empty
  /\ postgres = Empty
  /\ outcome = [memory |-> TRUE, postgres |-> TRUE]

-----------------------------------------------------------------------------
(* A write: what the store is afterwards and whether it was accepted.      *)
Accept(store) == [accepted |-> TRUE, store |-> store]
Refuse(store) == [accepted |-> FALSE, store |-> store]
Only(condition, store, next) == IF condition THEN Accept(next) ELSE Refuse(store)

(* InMemoryHiveMapStore: a Map per kind of record, and no key between them. *)
MemorySave(w, state) ==
  Accept([memory EXCEPT !.spaces[w] = state, !.vectors[w] = Kept(@, state)])
MemoryReplace(w, state) ==
  Only(Exists(memory, w), memory,
       [memory EXCEPT !.spaces[w] = state, !.vectors[w] = Kept(@, state),
                      !.contents[w] = NoIndexes])

(* Faulty variant: the indexes stay when the workspace goes. *)
MemoryDeleteWorkspaceOnly(w) ==
  Only(Exists(memory, w), memory, [memory EXCEPT !.spaces[w] = None])

MemoryDelete(w) ==
  Only(Exists(memory, w), memory,
       [memory EXCEPT !.spaces[w] = None, !.contents[w] = NoIndexes])

MemoryVector(w, c, d) == Accept([memory EXCEPT !.vectors[w][c] = d])

MemoryIndex(w, i) ==
  Only(Exists(memory, w), memory,
       [memory EXCEPT !.contents[w][i] = IF @ = None THEN {} ELSE @])

(* loose: the same key twice, or a chunk of a file that is not among them. *)
MemoryContents(w, i, content) ==
  Only(Exists(memory, w) /\ HasIndex(memory, w, i) /\ content.owned, memory,
       [memory EXCEPT !.contents[w][i] = content.chunks])

(* PostgresHiveMapStore: slugs are unique, a vector and an index have a    *)
(* workspace, a run that names an index has it, and a delete cascades.     *)
SlugIsFree(w, state) ==
  state.slug # None => \A v \in Workspaces \ {w} :
    Exists(postgres, v) => postgres.spaces[v].slug # state.slug
RunIsOwned(w, state) == Named(state) => HasIndex(postgres, w, state.run)

PostgresSave(w, state) ==
  Only(SlugIsFree(w, state) /\ RunIsOwned(w, state), postgres,
       [postgres EXCEPT !.spaces[w] = state, !.vectors[w] = Kept(@, state)])

(* The row is deleted and its vectors and indexes with it, then the state  *)
(* is inserted into a workspace without indexes.                           *)
PostgresReplace(w, state) ==
  Only(Exists(postgres, w) /\ SlugIsFree(w, state) /\ ~Named(state), postgres,
       [postgres EXCEPT !.spaces[w] = state, !.vectors[w] = NoVectors,
                        !.contents[w] = NoIndexes])

PostgresDelete(w) ==
  Only(Exists(postgres, w), postgres,
       [postgres EXCEPT !.spaces[w] = None, !.vectors[w] = NoVectors,
                        !.contents[w] = NoIndexes])

PostgresVector(w, c, d) ==
  Only(Exists(postgres, w), postgres, [postgres EXCEPT !.vectors[w][c] = d])

PostgresIndex(w, i) ==
  Only(Exists(postgres, w), postgres,
       [postgres EXCEPT !.contents[w][i] = IF @ = None THEN {} ELSE @])

PostgresContents(w, i, content) ==
  Only(HasIndex(postgres, w, i) /\ content.owned /\ ~content.loose, postgres,
       [postgres EXCEPT !.contents[w][i] = content.chunks])

-----------------------------------------------------------------------------
(* Reads: the answer, or Refused.                                          *)
MemorySimilar(w, c) ==
  IF memory.vectors[w][c] = None THEN {}
  ELSE LET others == {o \in Concepts \ {c} : memory.vectors[w][o] # None}
       IN IF \E o \in others : memory.vectors[w][o] # memory.vectors[w][c]
          THEN {Refused} ELSE others
PostgresSimilar(w, c) ==
  IF postgres.vectors[w][c] = None THEN {}
  ELSE {o \in Concepts \ {c} : postgres.vectors[w][o] = postgres.vectors[w][c]}

MemoryChunks(w, i) == IF HasIndex(memory, w, i) THEN memory.contents[w][i] ELSE {Refused}
PostgresChunks(w, i) == IF HasIndex(postgres, w, i) THEN postgres.contents[w][i] ELSE {}

(* scoreTextMatch counts every term; websearch_to_tsquery joins them with AND. *)
MemorySearch(w, i, query) ==
  IF HasIndex(memory, w, i) THEN {c \in memory.contents[w][i] : query \cap c # {}}
  ELSE {Refused}
PostgresSearch(w, i, query) ==
  IF HasIndex(postgres, w, i) THEN {c \in postgres.contents[w][i] : query \subseteq c}
  ELSE {}

-----------------------------------------------------------------------------
(* A state that is saved names an index the workspace has, and a vector is *)
(* for a concept of the workspace: the runtime checks both first.  The     *)
(* supported calls are the further ones on which the adapters agree.       *)
Write(valid, supported, m, p) ==
  /\ valid
  /\ Supported => supported
  /\ memory' = m.store
  /\ postgres' = p.store
  /\ outcome' = [memory |-> m.accepted, postgres |-> p.accepted]

OneLength(w, c, d) == \A o \in Concepts \ {c} : memory.vectors[w][o] \in {None, d}

Save(w) == \E state \in States :
  Write(Named(state) => HasIndex(memory, w, state.run), SlugIsFree(w, state),
        MemorySave(w, state), PostgresSave(w, state))
Replace(w) == \E state \in States :
  Write(Named(state) => HasIndex(memory, w, state.run),
        memory.vectors[w] = NoVectors /\ ~Named(state) /\ SlugIsFree(w, state),
        MemoryReplace(w, state), PostgresReplace(w, state))
Delete(w) ==
  Write(TRUE, memory.vectors[w] = NoVectors, MemoryDelete(w), PostgresDelete(w))
UpsertVector(w) == \E c \in Concepts, d \in Dimensions :
  Write(Exists(memory, w) /\ c \in memory.spaces[w].concepts, OneLength(w, c, d),
        MemoryVector(w, c, d), PostgresVector(w, c, d))
UpsertIndex(w) == \E i \in Indexes :
  Write(TRUE, TRUE, MemoryIndex(w, i), PostgresIndex(w, i))
ReplaceContents(w) == \E i \in Indexes, content \in Contents :
  Write(TRUE, ~content.loose, MemoryContents(w, i, content), PostgresContents(w, i, content))

Next == \E w \in Workspaces :
  \/ Save(w) \/ Replace(w) \/ Delete(w)
  \/ UpsertVector(w) \/ UpsertIndex(w) \/ ReplaceContents(w)

Spec == Init /\ [][Next]_vars

-----------------------------------------------------------------------------
(* Each adapter holds states, vectors and chunks of the modelled shapes.   *)
TypeOK ==
  \A store \in {memory, postgres} :
    /\ \A w \in Workspaces : store.spaces[w] \in States \cup {None}
    /\ \A w \in Workspaces, c \in Concepts : store.vectors[w][c] \in Dimensions \cup {None}
    /\ \A w \in Workspaces, i \in Indexes :
         HasIndex(store, w, i) => store.contents[w][i] \subseteq Queries

(* The in-memory adapter does not diverge from the contract: a write is    *)
(* accepted by both adapters or by neither (in-memory-store.ts:3).         *)
SameOutcome == outcome.memory = outcome.postgres

(* Whatever was written before, the adapters load the same states, find    *)
(* the same similar concepts, the same indexes and their chunks, and the   *)
(* same hits for a query of one term.                                      *)
SameAnswers ==
  \A w \in Workspaces :
    /\ memory.spaces[w] = postgres.spaces[w]
    /\ \A c \in Concepts : MemorySimilar(w, c) = PostgresSimilar(w, c)
    /\ \A i \in Indexes : HasIndex(memory, w, i) = HasIndex(postgres, w, i)
    /\ \A i \in Indexes : HasIndex(memory, w, i) =>
         /\ MemoryChunks(w, i) = PostgresChunks(w, i)
         /\ \A word \in Words :
              MemorySearch(w, i, {word}) = PostgresSearch(w, i, {word})

(* Nothing outlives its workspace: when an id is used again, no index and  *)
(* no vector of the workspace that had it before is there in either adapter *)
(* ("preserves repository-index ownership invariants", in-memory-store.ts:4). *)
NothingOutlivesItsWorkspace ==
  \A store \in {memory, postgres}, w \in Workspaces :
    ~Exists(store, w) => store.vectors[w] = NoVectors /\ store.contents[w] = NoIndexes

(* "Must not ... diverge from the shared HiveMapStore contract"            *)
(* (in-memory-store.ts:3): for every call of the contract, the adapters    *)
(* accept the same writes and answer the same reads.                       *)
SameContract == SameOutcome /\ SameAnswers

(* A search answers the same through both adapters, whatever the query.    *)
SearchAgrees ==
  \A w \in Workspaces, i \in Indexes, query \in Queries :
    HasIndex(memory, w, i) =>
      MemorySearch(w, i, query) = PostgresSearch(w, i, query)
=============================================================================
