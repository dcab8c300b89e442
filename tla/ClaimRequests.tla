--------------------------- MODULE ClaimRequests ---------------------------
(***************************************************************************)
(* Who files and deletes claims: the REST API (kube.Client behind          *)
(* RunHandler) or the CTFd plugin (K8sClient behind its routes), for one   *)
(* owner and template.  The name of the claim is derived from the two, so  *)
(* concurrent requests meet on one object, and what tells one claim from   *)
(* the next of that name is its uid.  Every call to the API server is a    *)
(* step.  Beside the plugin's requests runs its release thread, fed by     *)
(* solves through a bounded queue.  The operator, the collector and        *)
(* administrators are the environment.                                     *)
(***************************************************************************)
EXTENDS Integers, Sequences

CONSTANTS
  Reqs,      \* requests served at a time
  MaxUID,    \* bound on the claims ever created
  QueueMax,  \* _QUEUE_MAX
  Attempts,  \* _ATTEMPTS
  Env        \* the disturbances that happen in this instance of the model

ASSUME NumbersAssumption ==
  MaxUID \in Nat /\ QueueMax \in Nat \ {0} /\ Attempts \in Nat \ {0}

VARIABLES
  front,     \* which of the two front ends this deployment has
  cur,       \* the claim of that name
  last,      \* the uid given last
  pc,        \* [Reqs -> PCs], the call a request makes next
  seen,      \* the uid a request has read and means to replace
  ans,       \* how it was answered
  queue,     \* _RELEASES: the uid of the claim at the solve, or Other
  item,      \* the release the thread works on
  attempts,  \* failed attempts at it
  kept       \* claims whose release was dropped, given up, lost or not wanted

vars == <<front, cur, last, pc, seen, ans, queue, item, attempts, kept>>
request == <<pc, seen, ans>>
release == <<queue, item, attempts, kept>>

Phases == {"Pending", "Bound", "Rejected", "Expired"}
PCs == {"idle", "get", "replace", "wait", "create", "reget", "require", "delete"}
Answers == {"none", "claim", "nil", "done", "error"}
UIDs == 0..MaxUID
Idle == -1
Other == -2      \* a release of another account, so of another name

NoClaim == [uid |-> 0, phase |-> "Pending", dying |-> FALSE]

TypeOK ==
  /\ front \in {"rest", "ctfd"}
  /\ cur \in [uid : UIDs, phase : Phases, dying : BOOLEAN]
  /\ last \in UIDs
  /\ pc \in [Reqs -> PCs]
  /\ seen \in [Reqs -> UIDs]
  /\ ans \in [Reqs -> Answers]
  /\ queue \in Seq(UIDs \cup {Other}) /\ Len(queue) <= QueueMax
  /\ item \in UIDs \cup {Idle, Other}
  /\ attempts \in 0..(Attempts - 1)
  /\ kept \subseteq UIDs \ {0}

Init ==
  /\ front \in {"rest", "ctfd"}
  /\ cur = NoClaim /\ last = 0
  /\ pc = [r \in Reqs |-> "idle"]
  /\ seen = [r \in Reqs |-> 0]
  /\ ans = [r \in Reqs |-> "none"]
  /\ queue = <<>> /\ item = Idle /\ attempts = 0 /\ kept = {}

-----------------------------------------------------------------------------
Exists == cur.uid # 0

(* GetOwnerClaim hides a claim that is being deleted, get_claim shows it. *)
Found == Exists /\ (front = "rest" => ~cur.dying)

(* Deleted once more, a dying claim stays what it is. *)
Removed(c) == IF c.dying THEN c ELSE NoClaim

(* A terminal claim is replaced by both, a rejected one only by the plugin. *)
Replaceable == IF front = "rest" THEN {"Expired"} ELSE {"Expired", "Rejected"}

Goto(r, l) == pc' = [pc EXCEPT ![r] = l]

Answer(r, a) ==
  /\ Goto(r, "idle")
  /\ seen' = [seen EXCEPT ![r] = 0]
  /\ ans' = [ans EXCEPT ![r] = a]

-----------------------------------------------------------------------------
(* CreateEnvironment and run: EnsureClaim and _ensure_claim. *)

Ask(r, l) ==
  /\ pc[r] = "idle"
  /\ Goto(r, l)
  /\ ans' = [ans EXCEPT ![r] = "none"]
  /\ UNCHANGED <<front, cur, last, seen, release>>

AskRun(r) == Ask(r, "get")

ReadClaim(r) ==
  /\ pc[r] = "get"
  /\ \/ /\ ~Found
        /\ Goto(r, "create")
        /\ UNCHANGED <<seen, ans>>
     \/ /\ Found /\ cur.phase \notin Replaceable
        /\ Answer(r, "claim")
     \/ /\ Found /\ cur.phase \in Replaceable
        /\ seen' = [seen EXCEPT ![r] = cur.uid]
        /\ Goto(r, "replace")
        /\ UNCHANGED ans
  /\ UNCHANGED <<front, cur, last, release>>

(* A wrong version: the delete carries no precondition. *)
ReplaceByUID_Unconditional(r) ==
  /\ front = "rest" /\ pc[r] = "replace"
  /\ cur' = Removed(cur)
  /\ Goto(r, "create")
  /\ UNCHANGED <<front, last, seen, ans, release>>

(* The API deletes under the uid it has read; another one is a conflict. *)
ReplaceByUID(r) ==
  /\ front = "rest" /\ pc[r] = "replace"
  /\ \/ /\ Exists /\ cur.uid # seen[r]
        /\ Answer(r, "error")
        /\ UNCHANGED cur
     \/ /\ Exists => cur.uid = seen[r]
        /\ cur' = Removed(cur)
        /\ Goto(r, "create")
        /\ UNCHANGED <<seen, ans>>
  /\ UNCHANGED <<front, last, release>>

(* The plugin deletes by name, then polls until the name is free. *)
ReplaceByName(r) ==
  /\ front = "ctfd" /\ pc[r] = "replace"
  /\ cur' = Removed(cur)
  /\ Goto(r, "wait")
  /\ UNCHANGED <<front, last, seen, ans, release>>

WaitGone(r) ==
  /\ pc[r] = "wait"
  /\ IF Exists THEN Answer(r, "error") ELSE Goto(r, "create") /\ UNCHANGED <<seen, ans>>
  /\ UNCHANGED <<front, cur, last, release>>

Create ==
  /\ ~Exists /\ last < MaxUID
  /\ cur' = [NoClaim EXCEPT !.uid = last + 1]
  /\ last' = last + 1

CreateClaim(r) ==
  /\ pc[r] = "create"
  /\ \/ Create /\ Answer(r, "claim")
     \/ /\ Exists
        /\ Goto(r, "reget")
        /\ UNCHANGED <<cur, last, seen, ans>>
  /\ UNCHANGED <<front, release>>

(* AlreadyExists: whatever is there now is the answer. *)
Reget(r) ==
  /\ pc[r] = "reget"
  /\ Answer(r, IF Found THEN "claim" ELSE "nil")
  /\ UNCHANGED <<front, cur, last, release>>

(* DeleteEnvironment looks the claim up first; stop does not.  Both delete by *)
(* name.  requireClaim answers 404 when there is none and returns no error;   *)
(* the caller then trips over the missing claim, and recover makes that an    *)
(* answer too: an error either way, and nothing is changed.                   *)
AskDelete(r) == Ask(r, IF front = "rest" THEN "require" ELSE "delete")

RequireClaim(r) ==
  /\ pc[r] = "require"
  /\ IF Found THEN Goto(r, "delete") /\ UNCHANGED <<seen, ans>> ELSE Answer(r, "error")
  /\ UNCHANGED <<front, cur, last, release>>

DeleteClaim(r) ==
  /\ pc[r] = "delete"
  /\ cur' = Removed(cur)
  /\ Answer(r, IF Exists \/ front = "ctfd" THEN "done" ELSE "error")
  /\ UNCHANGED <<front, last, release>>

(* A call fails, and the request with it.  The server may have carried it out *)
(* all the same.                                                              *)
CallFails(r) ==
  /\ "error" \in Env
  /\ pc[r] # "idle"
  /\ Answer(r, "error")
  /\ \/ UNCHANGED <<cur, last>>
     \/ /\ pc[r] \in {"replace", "delete"}
        /\ (front = "rest" /\ pc[r] = "replace") => cur.uid = seen[r]
        /\ cur' = Removed(cur)
        /\ UNCHANGED last
     \/ pc[r] = "create" /\ Create
  /\ UNCHANGED <<front, release>>

Request(r) ==
  \/ AskRun(r) \/ ReadClaim(r) \/ ReplaceByUID(r) \/ ReplaceByName(r) \/ WaitGone(r)
  \/ CreateClaim(r) \/ Reget(r)
  \/ AskDelete(r) \/ RequireClaim(r) \/ DeleteClaim(r)
  \/ CallFails(r)

-----------------------------------------------------------------------------
(* The release of a solved challenge's environment. *)

(* These claims live on until their TTL. *)
Keep(S) == kept' = kept \cup (S \cap 1..MaxUID)

(* A wrong version: no bound. *)
QueueRelease_Unbounded(u) ==
  /\ front = "ctfd"
  /\ queue' = Append(queue, u)
  /\ UNCHANGED <<front, cur, last, request, item, attempts, kept>>

(* _queue_release: put_nowait at the end of the request that recorded the    *)
(* solve; a full queue drops this release.                                   *)
QueueRelease(u) ==
  /\ front = "ctfd"
  /\ IF Len(queue) < QueueMax
       THEN queue' = Append(queue, u) /\ UNCHANGED kept
       ELSE Keep({u}) /\ UNCHANGED queue
  /\ UNCHANGED <<front, cur, last, request, item, attempts>>

(* A solve by the owner of this claim, or by another account. *)
Solve == \E u \in {Other, cur.uid} : QueueRelease(u)

(* _drain: the next item.  Its challenge may not stop on a solve, or could not *)
(* be read.                                                                    *)
TakeRelease ==
  /\ item = Idle /\ queue # <<>>
  /\ queue' = Tail(queue)
  /\ \/ item' = Head(queue) /\ UNCHANGED kept
     \/ "keep" \in Env /\ Keep({Head(queue)}) /\ UNCHANGED item
  /\ UNCHANGED <<front, cur, last, request, attempts>>

Released == IF item = Other THEN cur ELSE Removed(cur)

(* delete_claim by name; a missing claim is a no-op. *)
Release ==
  /\ item # Idle
  /\ cur' = Released
  /\ item' = Idle /\ attempts' = 0
  /\ UNCHANGED <<front, last, request, queue, kept>>

(* A wrong version: it is tried again and again. *)
ReleaseFails_NoLastAttempt ==
  /\ "error" \in Env
  /\ item # Idle
  /\ cur' \in {cur, Released}
  /\ attempts' = (attempts + 1) % Attempts
  /\ UNCHANGED <<front, last, request, queue, item, kept>>

(* A K8sError is tried again after a pause, the last one given up; any other *)
(* error ends the item at once.  The server may have deleted all the same.   *)
ReleaseFails ==
  /\ "error" \in Env
  /\ item # Idle
  /\ cur' \in {cur, Released}
  /\ \/ item' = Idle /\ attempts' = 0 /\ Keep({item})
     \/ /\ attempts < Attempts - 1
        /\ attempts' = attempts + 1
        /\ UNCHANGED <<item, kept>>
  /\ UNCHANGED <<front, last, request, queue>>

Drain == TakeRelease \/ Release \/ ReleaseFails

(* A web worker restarts: its queue was in memory, its requests are cut off. *)
Restart ==
  /\ "restart" \in Env
  /\ Keep({item} \cup {queue[k] : k \in 1..Len(queue)})
  /\ queue' = <<>> /\ item' = Idle /\ attempts' = 0
  /\ pc' = [r \in Reqs |-> "idle"]
  /\ seen' = [r \in Reqs |-> 0]
  /\ ans' = [r \in Reqs |-> "none"]
  /\ UNCHANGED <<front, cur, last>>

-----------------------------------------------------------------------------
(* The environment. *)

(* The claim controller: Expired is final, a Rejected claim is taken up again *)
(* when its spec changes.                                                     *)
Reconciled ==
  /\ Exists /\ cur.phase # "Expired"
  /\ \E p \in Phases : cur' = [cur EXCEPT !.phase = p]
  /\ UNCHANGED <<front, last, request, release>>

(* kubectl delete, or admin_claim_delete; with foreground propagation the     *)
(* claim stays until its instance has gone.                                   *)
AdminDelete ==
  /\ Exists /\ ~cur.dying
  /\ cur' \in {NoClaim, [cur EXCEPT !.dying = TRUE]}
  /\ "admin" \in Env
  /\ UNCHANGED <<front, last, request, release>>

Collected ==
  /\ cur.dying
  /\ cur' = NoClaim
  /\ UNCHANGED <<front, last, request, release>>

Next ==
  \/ \E r \in Reqs : Request(r)
  \/ Solve \/ Drain \/ Restart
  \/ Reconciled \/ AdminDelete \/ Collected

Spec == Init /\ [][Next]_vars

(* The thread goes on, and so does the collector. *)
FairSpec == Spec /\ WF_vars(Drain) /\ WF_vars(Collected)
-----------------------------------------------------------------------------
(* Request r deletes the claim that stands in the way of a new one. *)
Replaces(r) == pc[r] = "replace" /\ pc'[r] # "replace" /\ cur' # cur

(* A request for an environment never deletes a live one.  Two requests that *)
(* both find an expired claim race: the second one's delete may come when    *)
(* the first has put a new claim in its place (EnsureClaim).                 *)
RestSparesLive ==
  [][\A r \in Reqs : front = "rest" /\ Replaces(r) => cur.phase = "Expired"]_vars

(* "Idempotent: clicking twice returns the same claim" (run of the plugin):  *)
(* a click deletes the terminal claim it has read, never the one that        *)
(* another click has got in its place.                                       *)
ClickingTwiceIsIdempotent ==
  [][\A r \in Reqs : front = "ctfd" /\ Replaces(r) => cur.uid = seen[r]]_vars

(* Every release that was queued is carried out or given up: the claim the   *)
(* solve was about goes, whatever the thread met before it (_drain).         *)
SolvedIsReleased ==
  \A u \in 1..MaxUID :
    (\E k \in 1..Len(queue) : queue[k] = u) ~> (cur.uid # u \/ u \in kept)
=============================================================================
