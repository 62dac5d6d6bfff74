---------------------------- MODULE WebWorkspace ----------------------------
(***************************************************************************)
(* The browser workspace: what is on the screen, the history of the tab,   *)
(* and the queue of operations.  The controls are inert while an operation *)
(* is pending, but the browser goes back and forward whenever it likes;    *)
(* what that asks for is queued.  An operation is a closure: it carries    *)
(* what the screen showed when it was dispatched.  Other clients of the    *)
(* server remove projections meanwhile, and the tab may be reloaded.       *)
(***************************************************************************)
EXTENDS Integers, Sequences, SequencesExt, FiniteSetsExt

CONSTANTS Workspaces,
          MaxProjections, \* bound on the projections ever saved
          MaxEntries,     \* bound on the history of the tab
          MaxDispatches,  \* bound on operations, by the controls or the browser
          None

VARIABLES server,     \* ids of the saved projections of each workspace
          saved,      \* number of projections ever saved
          entries,    \* history of the tab
          pos,        \* the entry the tab is at
          screen,     \* loaded workspace, its projections, the one shown, depth
          choice,     \* the workspace selector
          error,      \* is the error indicator lit
          queue,      \* operations; the first one is running
          dispatched,
          last,       \* entry the browser went to, if that was the last request
          inStep      \* has no navigation failed or overtaken an operation

vars == <<server, saved, entries, pos, screen, choice, error, queue, dispatched, last, inStep>>

Entry(w, p, depth) == [workspace |-> w, projection |-> p, depth |-> depth]

Blank == [workspace |-> None, projections |-> {}, shown |-> None, depth |-> 0]

(* A projection on the screen is one of a workspace. *)
Of(w, p) == IF p = None THEN None ELSE [workspace |-> w, id |-> p]

Init == /\ server \in {[w \in Workspaces |-> {1}]}
        /\ saved = 1
        /\ entries = <<Entry(None, None, 0)>>
        /\ pos = 1
        /\ screen = Blank
        /\ choice = None
        /\ error = FALSE
        /\ queue = <<>>
        /\ dispatched = 0
        /\ last = None
        /\ inStep = TRUE

Busy == queue # <<>>

CanAct == ~Busy

(* The location of the tab. *)
Here == entries[pos]

(* selectInitialProjection: the latest one. *)
InitialOf(ids) == IF ids = {} THEN None ELSE Max(ids)

(* pushState drops the entries that lie ahead. *)
Push(w, p, depth) == /\ entries' = Append(SubSeq(entries, 1, pos), Entry(w, p, depth))
                     /\ pos' = pos + 1

Replace(w, p, depth) == /\ entries' = [entries EXCEPT ![pos] = Entry(w, p, depth)]
                        /\ UNCHANGED pos

Show(w, ids, p, depth) ==
  screen' = [workspace |-> w, projections |-> ids, shown |-> p, depth |-> depth]

-----------------------------------------------------------------------------
(* Requests for an operation. *)
Operation(kind, target) == [kind |-> kind, target |-> target, projection |-> None,
                            shown |-> screen.shown, depth |-> screen.depth,
                            gone |-> {}, at |-> "queued"]

Enqueue(op) == /\ dispatched < MaxDispatches
               /\ dispatched' = dispatched + 1
               /\ queue' = Append(queue, op)

Choose(w) == /\ CanAct /\ choice # w
             /\ choice' = w
             /\ UNCHANGED <<server, saved, entries, pos, screen, error, queue, dispatched, last, inStep>>

Load == /\ CanAct /\ choice # None
        /\ Enqueue(Operation("load", choice))
        /\ last' = None
        /\ UNCHANGED <<server, saved, entries, pos, screen, choice, error, inStep>>

(* Every other operation is for the loaded workspace. *)
Request(kind) == /\ CanAct /\ screen.workspace # None
                 /\ Enqueue(Operation(kind, screen.workspace))
                 /\ last' = None
                 /\ UNCHANGED <<server, saved, entries, pos, screen, choice, error, inStep>>

CreateWorkspace(w) == /\ CanAct
                      /\ Enqueue(Operation("new", w))
                      /\ last' = None
                      /\ UNCHANGED <<server, saved, entries, pos, screen, choice, error, inStep>>

(* A projection of the list; nothing is asked of the server. *)
Open(p, mode) ==
  /\ CanAct /\ p \in screen.projections
  /\ Len(entries) < MaxEntries
  /\ LET depth == IF mode = "push" THEN screen.depth + 1 ELSE 0
     IN /\ screen' = [screen EXCEPT !.shown = Of(screen.workspace, p), !.depth = depth]
        /\ IF mode = "push" THEN Push(screen.workspace, p, depth)
                            ELSE Replace(screen.workspace, p, depth)
  /\ last' = None
  /\ UNCHANGED <<server, saved, choice, error, queue, dispatched, inStep>>

(* The browser goes to another entry; popstate carries its depth. *)
Go(to) == /\ to \in DOMAIN entries /\ to # pos
          /\ pos' = to
          /\ Enqueue([Operation("pop", None) EXCEPT !.depth = entries[to].depth])
          /\ last' = entries[to]
          /\ inStep' = (inStep /\ \A i \in DOMAIN queue : queue[i].kind = "pop")
          /\ UNCHANGED <<server, saved, entries, screen, choice, error>>

(* handleBack *)
Back == /\ CanAct
        /\ IF screen.depth > 0 THEN Go(pos - 1)
           ELSE /\ InitialOf(screen.projections) # None
                /\ screen.shown # Of(screen.workspace, InitialOf(screen.projections))
                /\ Open(InitialOf(screen.projections), "replace")

ClearToken == /\ CanAct /\ screen # Blank
              /\ screen' = Blank
              /\ choice' = None
              /\ error' = FALSE
              /\ Replace(None, None, 0)
              /\ last' = None
              /\ inStep' = TRUE
              /\ UNCHANGED <<server, saved, queue, dispatched>>

(* The token is set: the location of the tab is loaded over what the screen *)
(* shows, whose depth stays.                                                *)
SetToken == /\ CanAct
            /\ Enqueue(Operation("link", None))
            /\ last' = None
            /\ inStep' = (inStep /\ screen.depth = 0)
            /\ UNCHANGED <<server, saved, entries, pos, screen, choice, error>>

(* A reload: nothing is shown, and the location of the tab is loaded. *)
Reload == /\ dispatched < MaxDispatches
          /\ dispatched' = dispatched + 1
          /\ screen' = Blank
          /\ choice' = Here.workspace
          /\ error' = FALSE
          /\ queue' = <<[kind |-> "link", target |-> None, projection |-> None,
                         shown |-> None, depth |-> 0, gone |-> {}, at |-> "queued"]>>
          /\ last' = None
          /\ inStep' = TRUE
          /\ UNCHANGED <<server, saved, entries, pos>>

-----------------------------------------------------------------------------
(* The running operation. *)
Running == Head(queue)

At(stage) == Busy /\ Running.at = stage

(* Navigation reads the location now, not when it was asked for; a link    *)
(* lists the workspaces first.                                             *)
Begin ==
  /\ At("queued")
  /\ error' = FALSE
  /\ CASE Running.kind = "link" ->
            /\ queue' = [queue EXCEPT ![1].at = "list", ![1].target = Here.workspace]
            /\ UNCHANGED <<entries, pos, screen, choice>>
       [] Running.kind = "pop" /\ Here.workspace # None ->
            /\ queue' = [queue EXCEPT ![1].at = "get", ![1].target = Here.workspace,
                                      ![1].projection = Here.projection]
            /\ choice' = Here.workspace
            /\ UNCHANGED <<entries, pos, screen>>
       [] Running.kind = "pop" /\ Here.workspace = None ->
            /\ queue' = Tail(queue)
            /\ screen' = Blank /\ choice' = None /\ Replace(None, None, 0)
       [] OTHER ->
            /\ queue' = [queue EXCEPT ![1].at = IF Running.kind = "load" THEN "get" ELSE "send"]
            /\ UNCHANGED <<entries, pos, screen, choice>>
  /\ UNCHANGED <<server, saved, dispatched, last, inStep>>

(* The workspaces arrive; loadProjectionLocation reads the location again. *)
Listed ==
  /\ At("list")
  /\ IF Running.target = None \/ Here.workspace = None
     THEN /\ queue' = Tail(queue)
          /\ choice' = IF Running.target = None THEN choice ELSE Running.target
     ELSE /\ queue' = [queue EXCEPT ![1].at = "get", ![1].target = Here.workspace,
                                    ![1].projection = Here.projection]
          /\ choice' = Here.workspace
  /\ UNCHANGED <<server, saved, entries, pos, screen, error, dispatched, last, inStep>>

(* What a mutation does to the projections; "new" creates the workspace.   *)
Send ==
  /\ At("send")
  /\ LET w == Running.target
     IN CASE Running.kind = "create" ->
               /\ saved < MaxProjections
               /\ saved' = saved + 1
               /\ server' = [server EXCEPT ![w] = @ \cup {saved'}]
               /\ queue' = [queue EXCEPT ![1].at = "get", ![1].projection = saved']
          [] Running.kind = "delete" ->
               \E gone \in SUBSET server[w] :
                 /\ server' = [server EXCEPT ![w] = @ \ gone]
                 /\ queue' = [queue EXCEPT ![1].at = "get", ![1].gone = gone]
                 /\ UNCHANGED saved
          [] Running.kind = "new" ->
               /\ server' = [server EXCEPT ![w] = {}]
               /\ queue' = [queue EXCEPT ![1].at = "get"]
               /\ UNCHANGED saved
          [] OTHER -> /\ queue' = [queue EXCEPT ![1].at = "get"]
                      /\ UNCHANGED <<server, saved>>
  /\ choice' = IF Running.kind = "new" THEN Running.target ELSE choice
  /\ UNCHANGED <<entries, pos, screen, error, dispatched, last, inStep>>

(* refresh: what it makes of the projection the closure knew. *)
Kept(op, ids) == IF op.shown # None /\ op.shown.id \in ids
                 THEN Of(op.target, op.shown.id) ELSE None

Done == queue' = Tail(queue)

(* The state of the workspace arrives, and the rest of the operation runs  *)
(* in one go.  Popstate is a closure of the first screen, which showed     *)
(* nothing, so its refresh leaves alone what is shown.                     *)
FinishLoad(op, ids) ==
  /\ op.kind = "load"
  /\ Show(op.target, ids, Of(op.target, InitialOf(ids)), 0)
  /\ Replace(op.target, InitialOf(ids), 0)
  /\ UNCHANGED error

FinishNew(op, ids) ==
  /\ op.kind = "new"
  /\ Show(op.target, ids, None, 0)
  /\ Replace(op.target, None, 0)
  /\ UNCHANGED error

FinishWrite(op, ids) ==
  /\ op.kind = "write"
  /\ Show(op.target, ids, Kept(op, ids), screen.depth)
  /\ UNCHANGED <<entries, pos, error>>

FinishCreate(op, ids) ==
  /\ op.kind = "create"
  /\ Show(op.target, ids, Of(op.target, op.projection), op.depth + 1)
  /\ Push(op.target, op.projection, op.depth + 1)
  /\ UNCHANGED error

(* handleDeleteScan: the projection on the screen may have gone. *)
FinishDelete(op, ids) ==
  /\ op.kind = "delete"
  /\ IF op.shown # None /\ op.shown.id \in op.gone
     THEN /\ Show(op.target, ids, Of(op.target, InitialOf(ids)), 0)
          /\ Replace(op.target, InitialOf(ids), 0)
     ELSE /\ Show(op.target, ids, Kept(op, ids), screen.depth)
          /\ UNCHANGED <<entries, pos>>
  /\ UNCHANGED error

Wanted(op, ids) == IF op.projection = None THEN InitialOf(ids) ELSE op.projection

(* Faulty variant: the depth of the entry is not taken over. *)
FinishPopDeep(op, ids) ==
  /\ op.kind = "pop"
  /\ IF op.projection # None /\ op.projection \notin ids
     THEN Show(op.target, ids, screen.shown, screen.depth) /\ error' = TRUE
     ELSE /\ Show(op.target, ids, Of(op.target, Wanted(op, ids)), screen.depth)
          /\ UNCHANGED error
  /\ UNCHANGED <<entries, pos>>

FinishPop(op, ids) ==
  /\ op.kind = "pop"
  /\ IF op.projection # None /\ op.projection \notin ids
     THEN Show(op.target, ids, screen.shown, screen.depth) /\ error' = TRUE
     ELSE /\ Show(op.target, ids, Of(op.target, Wanted(op, ids)), op.depth)
          /\ UNCHANGED error
  /\ UNCHANGED <<entries, pos>>

FinishLink(op, ids) ==
  /\ op.kind = "link"
  /\ IF op.projection # None /\ op.projection \notin ids
     THEN /\ Show(op.target, ids, IF op.shown = None THEN screen.shown ELSE Kept(op, ids),
                  screen.depth)
          /\ error' = TRUE
          /\ UNCHANGED <<entries, pos>>
     ELSE /\ Show(op.target, ids, Of(op.target, Wanted(op, ids)), screen.depth)
          /\ Replace(op.target, Wanted(op, ids), 0)
          /\ UNCHANGED error

Finish == /\ At("get")
          /\ LET op  == Running
                 ids == server[op.target]
             IN /\ \/ FinishLoad(op, ids) \/ FinishNew(op, ids)
                   \/ FinishWrite(op, ids) \/ FinishCreate(op, ids)
                   \/ FinishDelete(op, ids) \/ FinishPop(op, ids) \/ FinishLink(op, ids)
                /\ choice' = op.target
          /\ Done
          /\ inStep' = IF error' THEN FALSE
                       ELSE \/ inStep
                            \/ Len(queue) = 1 /\ Running.kind \in {"load", "new"}
          /\ UNCHANGED <<server, saved, dispatched, last>>

(* A request fails.  Faulty variant: it throws past the count of pending   *)
(* operations.                                                             *)
FailHangs == /\ Busy /\ Running.at \in {"list", "send", "get"}
             /\ error' = TRUE
             /\ queue' = [queue EXCEPT ![1].at = "failed"]
             /\ UNCHANGED <<server, saved, entries, pos, screen, choice, dispatched, last, inStep>>

Fail == /\ Busy /\ Running.at \in {"list", "send", "get"}
        /\ error' = TRUE
        /\ Done
        /\ inStep' = (inStep /\ Running.kind \notin {"pop", "link"})
        /\ UNCHANGED <<server, saved, entries, pos, screen, choice, dispatched, last>>

-----------------------------------------------------------------------------
(* An agent removes a scan with its projections. *)
AgentDeletes(w, p) == /\ p \in server[w]
                      /\ server' = [server EXCEPT ![w] = @ \ {p}]
                      /\ UNCHANGED <<saved, entries, pos, screen, choice, error,
                                     queue, dispatched, last, inStep>>

Next == \/ \E w \in Workspaces : \/ Choose(w) \/ CreateWorkspace(w)
                                   \/ \E p \in 1..MaxProjections : AgentDeletes(w, p)
        \/ Load \/ Back \/ ClearToken \/ SetToken \/ Reload
        \/ \E kind \in {"write", "create", "delete"} : Request(kind)
        \/ \E p \in 1..MaxProjections : Open(p, "push")
        \/ \E to \in DOMAIN entries : Go(to)
        \/ Begin \/ Listed \/ Send \/ Finish \/ Fail

(* A request is answered or fails. *)
Fairness == WF_vars(Begin \/ Listed \/ Send \/ Finish \/ Fail)

Spec == Init /\ [][Next]_vars /\ Fairness

-----------------------------------------------------------------------------
Ids == 1..MaxProjections

TypeOK == /\ server \in [Workspaces -> SUBSET Ids]
          /\ saved \in Ids
          /\ pos \in DOMAIN entries
          /\ screen.workspace \in Workspaces \cup {None}
          /\ screen.projections \subseteq Ids
          /\ screen.depth \in Nat
          /\ choice \in Workspaces \cup {None}
          /\ error \in BOOLEAN /\ inStep \in BOOLEAN
          /\ \A i \in DOMAIN queue : queue[i].depth \in Nat

(* docs/specs/web-workspace-ui.md:20: a mutation is sent to the workspace  *)
(* on the screen, although it is a closure of an earlier screen.           *)
MutationsHitTheScreen ==
  [][Send => Running.kind = "new" \/ Running.target = screen.workspace]_vars

(* When all is quiet, and no navigation failed or overtook an operation,   *)
(* the screen is what the location of the tab says; its projection may     *)
(* have gone.                                                              *)
QuietScreenIsTheLocation ==
  ~Busy /\ inStep
    => /\ screen.workspace = Here.workspace
       /\ \/ screen.shown = None \/ Here.projection = None
          \/ screen.shown = Of(Here.workspace, Here.projection)
       /\ screen.depth = Here.depth

(* run: the controls come back, whatever fails.                            *)
NeverStuck == []<>~Busy

(* main.test.tsx:351: the browser goes to another workspace while an       *)
(* operation is pending, and that workspace is what is seen in the end.    *)
LastRequestWins ==
  ~Busy /\ ~error /\ last # None => screen.workspace = last.workspace

(* main.tsx:7: the projection on the screen is one of the loaded workspace. *)
ShownIsOfLoaded == screen.shown # None => screen.shown.workspace = screen.workspace

(* docs/specs/repository-scan.md:237: the Back button of the application   *)
(* restores the previous projection; it does not leave the application.    *)
BackStaysInside == ~Busy => screen.depth < pos
=============================================================================
