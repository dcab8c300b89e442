--------------------------- MODULE RequestsProofs ---------------------------
(* Proofs about ClaimRequests, for any number of requests and faults. *)
EXTENDS ClaimRequests, TLAPS

(* uids are given in order and never again. *)
UIDsInOrder ==
  /\ cur.uid <= last
  /\ \A r \in Reqs : seen[r] <= last

(* No uid, no claim. *)
GoneIsNoClaim == cur.uid = 0 => cur = NoClaim

(* The claim a request of the API is about to replace has expired, if it is *)
(* still there.                                                             *)
ReadWasExpired ==
  \A r \in Reqs :
    pc[r] = "replace" => /\ seen[r] # 0
                         /\ (front = "rest" /\ cur.uid = seen[r]) => cur.phase = "Expired"

ReqInv == TypeOK /\ UIDsInOrder /\ GoneIsNoClaim /\ ReadWasExpired

USE DEF UIDs, Idle, Other, Phases, PCs, Answers, NoClaim, Exists
-----------------------------------------------------------------------------
(* What is left of a claim after a delete: itself, or none. *)
LEMMA RemovedFacts ==
  ASSUME TypeOK
  PROVE  /\ Removed(cur) \in [uid : UIDs, phase : Phases, dying : BOOLEAN]
         /\ Removed(cur) = cur \/ Removed(cur) = NoClaim
BY NumbersAssumption DEF TypeOK, Removed

LEMMA InitReq == Init => ReqInv
BY NumbersAssumption DEF Init, ReqInv, TypeOK, UIDsInOrder, GoneIsNoClaim, ReadWasExpired

(* Every answer ends a request: it no longer means to replace anything. *)
LEMMA AnswerKeeps ==
  ASSUME ReqInv, NEW r \in Reqs, NEW a \in Answers, Answer(r, a),
         UNCHANGED <<front, cur, last, release>>
  PROVE  ReqInv'
BY NumbersAssumption
   DEF Answer, Goto, release, ReqInv, TypeOK, UIDsInOrder, GoneIsNoClaim, ReadWasExpired

(* So does an answer that comes with a delete. *)
LEMMA AnswerAndRemove ==
  ASSUME ReqInv, NEW r \in Reqs, NEW a \in Answers, Answer(r, a),
         cur' = Removed(cur), UNCHANGED <<front, last, release>>
  PROVE  ReqInv'
<1>1. CASE cur' = cur
  BY <1>1, AnswerKeeps
<1>2. CASE cur' = NoClaim
  BY <1>2, NumbersAssumption
     DEF Answer, Goto, release, ReqInv, TypeOK, UIDsInOrder, GoneIsNoClaim, ReadWasExpired
<1> QED
  BY <1>1, <1>2, RemovedFacts DEF ReqInv

(* And one that comes with a new claim. *)
LEMMA AnswerAndCreate ==
  ASSUME ReqInv, NEW r \in Reqs, NEW a \in Answers, Answer(r, a), Create,
         UNCHANGED <<front, release>>
  PROVE  ReqInv'
<1>1. cur' = [uid |-> last + 1, phase |-> "Pending", dying |-> FALSE] /\ last' = last + 1
  BY DEF Create
<1>2. last + 1 \in 1..MaxUID
  BY NumbersAssumption DEF Create, ReqInv, TypeOK
<1>3. TypeOK'
  BY <1>1, <1>2, NumbersAssumption DEF Answer, Goto, release, ReqInv, TypeOK
<1>4. UIDsInOrder' /\ GoneIsNoClaim'
  BY <1>1, <1>2, NumbersAssumption DEF Answer, ReqInv, TypeOK, UIDsInOrder, GoneIsNoClaim
<1>5. ReadWasExpired'
  BY <1>1, <1>2, NumbersAssumption
     DEF Answer, Goto, ReqInv, TypeOK, UIDsInOrder, ReadWasExpired
<1> QED
  BY <1>3, <1>4, <1>5 DEF ReqInv

(* A call that takes its request on to anything but a replacement. *)
LEMMA GotoKeeps ==
  ASSUME ReqInv, NEW r \in Reqs, NEW l \in PCs \ {"replace"}, Goto(r, l),
         UNCHANGED <<front, last, seen, release>>, ans' \in [Reqs -> Answers], cur' = cur \/ cur' = NoClaim
  PROVE  ReqInv'
<1>1. pc' \in [Reqs -> PCs] /\ pc'[r] # "replace" /\ \A q \in Reqs \ {r} : pc'[q] = pc[q]
  BY DEF Goto, ReqInv, TypeOK
<1>2. CASE cur' = cur
  <2>1. TypeOK'
    BY <1>1, <1>2 DEF release, ReqInv, TypeOK
  <2> QED
    BY <1>1, <1>2, <2>1 DEF release, ReqInv, UIDsInOrder, GoneIsNoClaim, ReadWasExpired
<1>3. CASE cur' = NoClaim
  <2>1. TypeOK'
    BY <1>1, <1>3, NumbersAssumption DEF release, ReqInv, TypeOK
  <2>2. UIDsInOrder' /\ GoneIsNoClaim'
    BY <1>3 DEF ReqInv, TypeOK, UIDsInOrder, GoneIsNoClaim
  <2>3. ReadWasExpired'
    BY <1>1, <1>3 DEF ReqInv, ReadWasExpired
  <2> QED
    BY <2>1, <2>2, <2>3 DEF ReqInv
<1> QED
  BY <1>2, <1>3

LEMMA KeepType ==
  ASSUME TypeOK, NEW S, Keep(S)
  PROVE  kept' \subseteq UIDs \ {0}
<1> SUFFICES ASSUME NEW u \in kept'
             PROVE  u \in UIDs \ {0}
  OBVIOUS
<1>1. CASE u \in kept
  BY <1>1 DEF TypeOK
<1>2. CASE u \in 1..MaxUID
  BY <1>2, NumbersAssumption
<1> QED
  BY <1>1, <1>2 DEF Keep

(* What the release thread and the administrators do to a claim. *)
LEMMA OthersKeep ==
  ASSUME ReqInv, UNCHANGED <<front, last, request>>, cur' = cur \/ cur' = NoClaim,
         queue' \in Seq(UIDs \cup {Other}), Len(queue') <= QueueMax,
         item' \in UIDs \cup {Idle, Other}, attempts' \in 0..(Attempts - 1),
         kept' \subseteq UIDs \ {0}
  PROVE  ReqInv'
<1>1. TypeOK'
  <2>1. cur' \in [uid : UIDs, phase : Phases, dying : BOOLEAN]
    <3>1. CASE cur' = cur
      BY <3>1 DEF ReqInv, TypeOK
    <3>2. CASE cur' = NoClaim
      BY <3>2, NumbersAssumption
    <3> QED
      BY <3>1, <3>2
  <2>2. /\ front' \in {"rest", "ctfd"} /\ last' \in UIDs
        /\ pc' \in [Reqs -> PCs] /\ seen' \in [Reqs -> UIDs]
        /\ ans' \in [Reqs -> Answers]
    BY DEF request, ReqInv, TypeOK
  <2> QED
    BY <2>1, <2>2, Zenon DEF TypeOK
<1>2. UIDsInOrder' /\ GoneIsNoClaim' /\ ReadWasExpired'
  BY DEF request, ReqInv, TypeOK, UIDsInOrder, GoneIsNoClaim, ReadWasExpired
<1> QED
  BY <1>1, <1>2 DEF ReqInv

-----------------------------------------------------------------------------
LEMMA RequestKeeps ==
  ASSUME ReqInv, NEW r \in Reqs, Request(r)
  PROVE  ReqInv'
<1> TypeOK
  BY DEF ReqInv
<1>1. ASSUME NEW l \in {"get", "require", "delete"}, Ask(r, l) PROVE ReqInv'
  <2>1. ans' \in [Reqs -> Answers]
    BY <1>1 DEF Ask, TypeOK
  <2> QED
    BY <1>1, <2>1, GotoKeeps DEF Ask
<1>2. CASE AskRun(r)
  BY <1>2, <1>1 DEF AskRun
<1>3. CASE AskDelete(r)
  BY <1>3, <1>1 DEF AskDelete
<1>4. CASE ReadClaim(r)
  <2>1. CASE ~Found /\ Goto(r, "create") /\ UNCHANGED <<seen, ans>>
    BY <1>4, <2>1, GotoKeeps DEF ReadClaim, TypeOK
  <2>2. CASE Answer(r, "claim")
    BY <1>4, <2>2, AnswerKeeps DEF ReadClaim
  <2>3. CASE /\ Found /\ cur.phase \in Replaceable
             /\ seen' = [seen EXCEPT ![r] = cur.uid]
             /\ Goto(r, "replace") /\ UNCHANGED ans
    BY <1>4, <2>3, NumbersAssumption
       DEF ReadClaim, Found, Replaceable, Goto, release,
           ReqInv, TypeOK, UIDsInOrder, GoneIsNoClaim, ReadWasExpired
  <2> QED
    BY <1>4, <2>1, <2>2, <2>3 DEF ReadClaim
<1>5. CASE ReplaceByUID(r)
  <2>1. CASE Answer(r, "error") /\ UNCHANGED cur
    BY <1>5, <2>1, AnswerKeeps DEF ReplaceByUID
  <2>2. CASE cur' = Removed(cur) /\ Goto(r, "create") /\ UNCHANGED <<seen, ans>>
    BY <1>5, <2>2, GotoKeeps, RemovedFacts DEF ReplaceByUID, TypeOK
  <2> QED
    BY <1>5, <2>1, <2>2 DEF ReplaceByUID
<1>6. CASE ReplaceByName(r)
  BY <1>6, GotoKeeps, RemovedFacts DEF ReplaceByName, TypeOK
<1>7. CASE WaitGone(r)
  BY <1>7, GotoKeeps, AnswerKeeps DEF WaitGone, TypeOK
<1>8. CASE CreateClaim(r)
  <2>1. CASE Create /\ Answer(r, "claim")
    BY <1>8, <2>1, AnswerAndCreate DEF CreateClaim
  <2>2. CASE Goto(r, "reget") /\ UNCHANGED <<cur, last, seen, ans>>
    BY <1>8, <2>2, GotoKeeps DEF CreateClaim, TypeOK
  <2> QED
    BY <1>8, <2>1, <2>2 DEF CreateClaim
<1>9. CASE Reget(r)
  BY <1>9, AnswerKeeps DEF Reget
<1>10. CASE RequireClaim(r)
  BY <1>10, GotoKeeps, AnswerKeeps DEF RequireClaim, TypeOK
<1>11. CASE DeleteClaim(r)
  BY <1>11, AnswerAndRemove DEF DeleteClaim
<1>12. CASE CallFails(r)
  <2>1. CASE UNCHANGED <<cur, last>>
    BY <1>12, <2>1, AnswerKeeps DEF CallFails
  <2>2. CASE cur' = Removed(cur) /\ UNCHANGED last
    BY <1>12, <2>2, AnswerAndRemove DEF CallFails
  <2>3. CASE Create
    BY <1>12, <2>3, AnswerAndCreate DEF CallFails
  <2> QED
    BY <1>12, <2>1, <2>2, <2>3 DEF CallFails
<1> QED
  BY <1>2, <1>3, <1>4, <1>5, <1>6, <1>7, <1>8, <1>9, <1>10, <1>11, <1>12 DEF Request

(* The release thread. *)
LEMMA ReleaseKeeps ==
  ASSUME ReqInv, Solve \/ Drain
  PROVE  ReqInv'
<1> TypeOK
  BY DEF ReqInv
<1> DEFINE Item == UIDs \cup {Other}
<1>1. /\ queue \in Seq(Item) /\ Len(queue) \in Nat /\ Len(queue) <= QueueMax
      /\ item \in UIDs \cup {Idle, Other} /\ attempts \in 0..(Attempts - 1)
      /\ kept \subseteq UIDs \ {0}
  BY DEF TypeOK
<1>2. 0 \in 0..(Attempts - 1)
  BY NumbersAssumption
<1>3. CASE Solve
  <2>1. PICK u \in {Other, cur.uid} : QueueRelease(u)
    BY <1>3 DEF Solve
  <2>2. u \in Item
    BY <2>1 DEF TypeOK
  <2>3. CASE Len(queue) < QueueMax
    <3>1. queue' \in Seq(Item) /\ Len(queue') <= QueueMax
      BY <1>1, <2>1, <2>2, <2>3, NumbersAssumption DEF QueueRelease
    <3> QED
      BY <1>1, <2>1, <2>3, <3>1, OthersKeep DEF QueueRelease
  <2>4. CASE ~(Len(queue) < QueueMax)
    BY <1>1, <2>1, <2>4, KeepType, OthersKeep DEF QueueRelease
  <2> QED
    BY <2>3, <2>4
<1>4. CASE TakeRelease
  <2>1. Head(queue) \in Item /\ queue' \in Seq(Item) /\ Len(queue') = Len(queue) - 1
    BY <1>1, <1>4 DEF TakeRelease
  <2>2. item' \in UIDs \cup {Idle, Other} /\ kept' \subseteq UIDs \ {0}
    BY <1>1, <1>4, <2>1, KeepType DEF TakeRelease
  <2>3. Len(queue') <= QueueMax
    BY <1>1, <2>1, NumbersAssumption
  <2> QED
    BY <1>1, <1>4, <2>1, <2>2, <2>3, OthersKeep DEF TakeRelease
<1>5. Released = cur \/ Released = NoClaim
  BY RemovedFacts DEF Released
<1>6. CASE Release
  BY <1>1, <1>2, <1>5, <1>6, OthersKeep DEF Release
<1>7. CASE ReleaseFails
  <2>1. item' \in UIDs \cup {Idle, Other} /\ kept' \subseteq UIDs \ {0}
    BY <1>1, <1>7, KeepType DEF ReleaseFails
  <2>2. attempts' \in 0..(Attempts - 1)
    BY <1>1, <1>2, <1>7, NumbersAssumption DEF ReleaseFails
  <2> QED
    BY <1>1, <1>5, <1>7, <2>1, <2>2, OthersKeep DEF ReleaseFails
<1> QED
  BY <1>3, <1>4, <1>6, <1>7 DEF Drain

(* Restarts, the operator, administrators and the collector. *)
LEMMA EnvironmentKeeps ==
  ASSUME ReqInv, Restart \/ Reconciled \/ AdminDelete \/ Collected
  PROVE  ReqInv'
<1>1. CASE Restart
  <2>1. TypeOK'
    <3>1. kept' \subseteq UIDs \ {0}
      BY <1>1, KeepType DEF Restart, ReqInv
    <3>2. queue' \in Seq(UIDs \cup {Other}) /\ Len(queue') = 0
      BY <1>1 DEF Restart
    <3> QED
      BY <1>1, <3>1, <3>2, NumbersAssumption DEF Restart, ReqInv, TypeOK
  <2> QED
    BY <1>1, <2>1 DEF Restart, ReqInv, TypeOK, UIDsInOrder, GoneIsNoClaim, ReadWasExpired
<1>2. CASE Reconciled
  BY <1>2, NumbersAssumption
     DEF Reconciled, request, release, ReqInv, TypeOK, UIDsInOrder, GoneIsNoClaim, ReadWasExpired
<1>3. CASE AdminDelete
  <2>1. CASE cur' = NoClaim
    BY <1>3, <2>1, OthersKeep DEF AdminDelete, release, ReqInv, TypeOK
  <2>2. CASE cur' = [cur EXCEPT !.dying = TRUE]
    <3>1. cur' \in [uid : UIDs, phase : Phases, dying : BOOLEAN]
          /\ cur'.uid = cur.uid /\ cur'.phase = cur.phase /\ cur.uid # 0
      BY <1>3, <2>2 DEF AdminDelete, ReqInv, TypeOK
    <3>2. TypeOK'
      BY <1>3, <3>1 DEF AdminDelete, request, release, ReqInv, TypeOK
    <3> QED
      BY <1>3, <3>1, <3>2
         DEF AdminDelete, request, ReqInv, UIDsInOrder, GoneIsNoClaim, ReadWasExpired
  <2> QED
    BY <1>3, <2>1, <2>2 DEF AdminDelete
<1>4. CASE Collected
  BY <1>4, NumbersAssumption
     DEF Collected, request, release, ReqInv, TypeOK, UIDsInOrder, GoneIsNoClaim, ReadWasExpired
<1> QED
  BY <1>1, <1>2, <1>3, <1>4

(* The inductive invariant of ClaimRequests. *)
THEOREM InvariantHolds == Spec => []ReqInv
<1>1. ReqInv /\ UNCHANGED vars => ReqInv'
  BY DEF vars, request, release, ReqInv, TypeOK, UIDsInOrder, GoneIsNoClaim, ReadWasExpired
<1>2. ReqInv /\ [Next]_vars => ReqInv'
  BY <1>1, RequestKeeps, ReleaseKeeps, EnvironmentKeeps DEF Next
<1> QED
  BY InitReq, <1>2, PTL DEF Spec

(* Types hold whatever the requests, the queue's size and the faults. *)
THEOREM TypeCorrect == Spec => []TypeOK
<1>1. ReqInv => TypeOK
  BY DEF ReqInv
<1> QED
  BY <1>1, InvariantHolds, PTL

(* A request to the API never deletes a live claim on its way to a new one,  *)
(* however many requests of one user run at a time (EnsureClaim).            *)
THEOREM LiveClaimsSpared == Spec => RestSparesLive
<1>1. ASSUME ReqInv, [Next]_vars, NEW r \in Reqs, front = "rest", Replaces(r)
      PROVE  cur.phase = "Expired"
  <2>1. cur' # cur /\ pc[r] = "replace" /\ pc'[r] # "replace"
    BY <1>1 DEF Replaces
  <2>2. PICK q \in Reqs : Request(q)
    BY <1>1, <2>1 DEF Next, vars, Solve, QueueRelease, Drain, TakeRelease, Release, ReleaseFails,
                      Restart, Reconciled, AdminDelete, Collected, request
  <2>3. q = r
    BY <1>1, <2>1, <2>2
       DEF Request, AskRun, AskDelete, Ask, ReadClaim, ReplaceByUID, ReplaceByName, WaitGone,
           CreateClaim, Reget, RequireClaim, DeleteClaim, CallFails, Answer, Goto, ReqInv, TypeOK
  <2>4. cur.uid = seen[r]
    BY <1>1, <2>1, <2>2, <2>3
       DEF Request, AskRun, AskDelete, Ask, ReadClaim, ReplaceByUID, ReplaceByName, WaitGone,
           CreateClaim, Reget, RequireClaim, DeleteClaim, CallFails, Removed, ReqInv, GoneIsNoClaim
  <2> QED
    BY <1>1, <2>1, <2>4 DEF ReqInv, ReadWasExpired
<1>2. ReqInv /\ [Next]_vars =>
        [\A r \in Reqs : front = "rest" /\ Replaces(r) => cur.phase = "Expired"]_vars
  BY <1>1
<1> QED
  BY <1>2, InvariantHolds, PTL DEF Spec, RestSparesLive
=============================================================================
