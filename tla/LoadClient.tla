----------------------------- MODULE LoadClient ------------------------------
(***************************************************************************)
(* The requests behind LoadEngine's attempts: a client that remembers the  *)
(* images it has seen and those it has uploaded, and the gallery that      *)
(* answers it.  One goroutine per slot works on the shared lists, under a  *)
(* mutex for each step but not between a request and its answer.           *)
(***************************************************************************)
EXTENDS LoadEngine, Sequences, SequencesExt

CONSTANTS
  Ops,        \* the operations of the scenario's mix
  Foreign,    \* images that are there before: 1..n
  MaxTracked  \* maxTrackedIDs

ASSUME ClientAssumption ==
  /\ Ops \subseteq {"list", "view", "thumbnail", "upload", "delete", "settings"}
  /\ IsFiniteSet(Foreign) /\ Foreign = 1..Cardinality(Foreign)
  /\ MaxTracked \in Nat

VARIABLES
  ids,      \* seen in lists
  mine,     \* uploaded, and not yet picked for a DELETE
  request,  \* per slot: [op, id, found, outcome]
  images,   \* the gallery's images
  newID      \* the id of its next one

client == <<ids, mine, request>>
gallery == <<images, newID>>
loadVars == <<vars, client, gallery>>

Sends(op, id) == [op |-> op, id |-> id, found |-> <<>>, outcome |-> "none"]
NoRequest == Sends("none", 0)

ClientInit ==
  /\ Init
  /\ ids = <<>> /\ mine = <<>>
  /\ request = [s \in Sem |-> NoRequest]
  /\ images = Foreign /\ newID = Cardinality(Foreign) + 1

-----------------------------------------------------------------------------
(* do.  An operation that has no image to work on falls back to one that   *)
(* will find or make some.                                                 *)

Begins(s) == attempt[s] = "waiting" /\ request[s] = NoRequest
Asks(s, op, id) == request' = [request EXCEPT ![s] = Sends(op, id)]

Plain(s, op) ==
  /\ op \in {"list", "upload", "settings"}
  /\ Asks(s, op, 0) /\ UNCHANGED mine

Get(s, op) ==
  /\ op \in {"view", "thumbnail"}
  /\ \/ ids = <<>> /\ Asks(s, "list", 0)
     \/ \E i \in DOMAIN ids : Asks(s, op, ids[i])
  /\ UNCHANGED mine

\* Mutated form: the image stays on the list.
DeleteKeeps(s, op) ==
  /\ op = "delete" /\ UNCHANGED mine
  /\ IF mine = <<>> THEN Asks(s, "upload", 0) ELSE Asks(s, op, Last(mine))

\* pick(own): the last upload, which no other goroutine will pick.
Delete(s, op) ==
  /\ op = "delete"
  /\ IF mine = <<>> THEN Asks(s, "upload", 0) /\ UNCHANGED mine
     ELSE Asks(s, op, Last(mine)) /\ mine' = Front(mine)

Begin(s) ==
  /\ Begins(s)
  /\ \E op \in Ops : Plain(s, op) \/ Get(s, op) \/ Delete(s, op)
  /\ UNCHANGED <<vars, ids, gallery>>

-----------------------------------------------------------------------------
(* The gallery: an effect, and an answer, or a failure before or after it. *)

Effect(r) ==
  CASE r.op = "upload" -> images' = images \cup {newID} /\ newID' = newID + 1
    [] r.op = "delete" -> images' = images \ {r.id} /\ UNCHANGED newID
    [] OTHER -> UNCHANGED gallery

Found(r) ==
  CASE r.op = "list" -> SetToSortSeq(images, >)
    [] r.op = "upload" -> <<newID>>
    [] OTHER -> <<>>

\* 404 for an image that is gone.
Missing(r) == r.op \in {"view", "thumbnail", "delete"} /\ r.id \notin images

Serve(s) ==
  LET r == request[s]
      Ends(outcome, found) ==
        request' = [request EXCEPT ![s] =
          [op |-> r.op, id |-> r.id, found |-> found, outcome |-> outcome]]
  IN
  /\ attempt[s] = "waiting" /\ r # NoRequest /\ r.outcome = "none"
  /\ \/ ~Missing(r) /\ Effect(r) /\ Ends("ok", Found(r))
     \/ Missing(r) /\ UNCHANGED gallery /\ Ends("4xx", <<>>)
     \/ Effect(r) /\ Ends("failure", <<>>)
     \/ UNCHANGED gallery /\ Ends("failure", <<>>)
  /\ UNCHANGED <<vars, ids, mine>>

-----------------------------------------------------------------------------
(* The answer: what it names is remembered, up to a limit.  Of the errors  *)
(* only a 5xx and a broken connection count.                               *)

Tracked(list, found) ==
  list \o SubSeq(found, 1, IF Len(list) + Len(found) <= MaxTracked THEN Len(found)
                           ELSE MaxTracked - Len(list))

Returns(s) ==
  LET r == request[s] IN
  /\ r.outcome # "none"
  /\ Answer(s, r.outcome = "failure")
  /\ ids' = IF r.op = "list" THEN Tracked(ids, r.found) ELSE ids
  /\ mine' = IF r.op = "upload" THEN Tracked(mine, r.found) ELSE mine
  /\ request' = [request EXCEPT ![s] = NoRequest]
  /\ UNCHANGED gallery

\* The interrupt cuts a request; what it has done at the server stays.
IsCut(s) ==
  /\ Cut(s)
  /\ request' = [request EXCEPT ![s] = NoRequest]
  /\ UNCHANGED <<ids, mine, gallery>>

ClientSteps(s) == Begin(s) \/ Serve(s) \/ Returns(s) \/ IsCut(s)
EngineSteps == Run \/ Interrupt \/ \E s \in Sem : Feed(s) \/ Trip(s)

LoadNext ==
  \/ \E s \in Sem : ClientSteps(s)
  \/ EngineSteps /\ UNCHANGED <<client, gallery>>
  \/ Over /\ UNCHANGED <<client, gallery>>

LoadSpec == ClientInit /\ [][LoadNext]_loadVars

Unchanged == UNCHANGED <<client, gallery>>
LoadFairSpec ==
  /\ LoadSpec
  /\ WF_loadVars(Arrive /\ Unchanged) /\ WF_loadVars(Drained /\ Unchanged)
  /\ SF_loadVars(Tick /\ Unchanged) /\ SF_loadVars(Deadline /\ Unchanged)
  /\ \A s \in Sem : WF_loadVars(ClientSteps(s) \/ ((Feed(s) \/ Trip(s)) /\ Unchanged))

-----------------------------------------------------------------------------
Deleting == {s \in Sem : request[s].op = "delete" /\ request[s].outcome = "none"}

\* The lists of ids are no longer than their limit.
ClientTypeOK ==
  /\ TypeOK
  /\ {Len(ids), Len(mine)} \subseteq 0..MaxTracked
  /\ newID \in Nat /\ images \cup ToSet(ids) \cup ToSet(mine) \subseteq 1..(newID - 1)
  /\ \A s \in Sem :
       /\ request[s].op \in Ops \cup {"list", "upload", "none"}
       /\ request[s].id \in 0..(newID - 1) /\ ToSet(request[s].found) \subseteq 1..(newID - 1)
       /\ request[s].outcome \in {"none", "ok", "4xx", "failure"}

(***************************************************************************)
(* "IDs this run uploaded: the only delete targets": however goroutines    *)
(* interleave, the load deletes none of the images that were there before, *)
(* and asks for no image of its own twice: what it still may delete, and   *)
(* what it is asking to, is there, and named once.                         *)
(***************************************************************************)
DeletesItsOwnOnce ==
  /\ Foreign \subseteq images
  /\ IsInjective(mine) /\ ToSet(mine) \subseteq images \ Foreign
  /\ \A s \in Deleting :
       /\ request[s].id \in images \ (Foreign \cup ToSet(mine))
       /\ \A t \in Deleting : request[t].id = request[s].id => t = s

=============================================================================
