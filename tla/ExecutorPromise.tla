-------------------------- MODULE ExecutorPromise --------------------------
(***************************************************************************)
(* What a repository index executor promises to the index lifecycle: each  *)
(* question is answered, by one whole revision that the requested ref has  *)
(* named since the question was put, or by an error.  It is all that       *)
(* RepositoryIndexing assumes of its action RunExecutor.                   *)
(***************************************************************************)
EXTENDS RepositoryTree

CONSTANTS Commits, None

VARIABLES history,  \* the tree of every commit
          remote,   \* the commit the ref names, None when out of reach
          named,    \* the commits it has named since the question
          asked,    \* whether a question is open
          answer    \* the last answer, None while there is none

vars == <<history, remote, named, asked, answer>>

Init == /\ remote \in Commits \cup {None}
        /\ named = {}
        /\ asked = FALSE
        /\ answer = None

Ask == /\ ~asked
       /\ asked' = TRUE
       /\ answer' = None
       /\ named' = {remote} \ {None}
       /\ UNCHANGED <<history, remote>>

Failure == [error |-> "any"]

(* A question that is refused at once. *)
Refuse == /\ ~asked
          /\ answer' = Failure
          /\ UNCHANGED <<history, remote, named, asked>>

Move == \E c \in Commits \cup {None} :
          /\ remote' = c
          /\ named' = IF asked THEN named \cup ({c} \ {None}) ELSE named
          /\ UNCHANGED <<history, asked, answer>>

Answer == /\ asked
          /\ asked' = FALSE
          /\ named' = {}
          /\ \/ answer' = Failure
             \/ \E c \in named :
                  /\ Indexable(history[c])
                  /\ answer' = [commit |-> c, files |-> Listing(history[c])]
          /\ UNCHANGED <<history, remote>>

(* The process stops: nobody is told anything. *)
Forget == /\ asked
          /\ asked' = FALSE
          /\ named' = {}
          /\ UNCHANGED <<history, remote, answer>>

Next == Ask \/ Refuse \/ Move \/ Answer \/ Forget

Safety == Init /\ [][Next]_vars

Spec == Safety /\ WF_vars(Answer)
=============================================================================
