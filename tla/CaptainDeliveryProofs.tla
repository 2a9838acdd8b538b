----------------------- MODULE CaptainDeliveryProofs -----------------------
(***************************************************************************)
(* The invariants of CaptainDelivery, for every number of copies, attempts,*)
(* versions and faults.  The record lemmas and the effect lemmas state     *)
(* once what each action does to the parts the invariants speak of.  Two   *)
(* layers of invariant follow: Base holds of every history, Safe of the    *)
(* histories that crossed nothing.                                         *)
(***************************************************************************)
EXTENDS CaptainDelivery, TLAPS

----------------------------------------------------------------------------
(* Mutations, requests and the screen, field by field. *)

(* The idle mutation. *)
LEMMA IdleMutation ==
  /\ Idle \in Mutations
  /\ Idle.pc = "idle" /\ Idle.kind = "none" /\ Idle.key = 0 /\ Idle.ver = 0
  BY DeliveryAssumption DEF Idle, Mutations, MaybeState

(* The fields of a mutation. *)
LEMMA MutationFields ==
  ASSUME NEW o \in Mutations
  PROVE  /\ o.kind \in {"none", "pickup", "complete", "retry", "replace"}
         /\ o.pc \in {"idle", "token", "kept", "wait", "read", "seen"}
         /\ o.key \in 0..MaxAttempt /\ o.result \in Result \union {"none"}
         /\ o.ver \in 0..MaxVersion /\ o.state \in MaybeState
  BY DEF Mutations

(* The mutations the buttons begin.  *)
LEMMA BegunMutation ==
  ASSUME NEW k \in 0..MaxAttempt
  PROVE  /\ LET o == [Idle EXCEPT !.kind = "pickup", !.pc = "kept"]
            IN o \in Mutations /\ o.kind = "pickup" /\ o.pc = "kept" /\ o.key = 0
         /\ LET o == [Idle EXCEPT !.kind = "retry", !.pc = "kept", !.key = k]
            IN o \in Mutations /\ o.kind = "retry" /\ o.pc = "kept" /\ o.key = k
         /\ LET o == [Idle EXCEPT !.kind = "replace", !.pc = "read", !.key = k]
            IN o \in Mutations /\ o.kind = "replace" /\ o.pc = "read" /\ o.key = k
<1>1. Idle \in Mutations /\ Idle.key = 0
  BY IdleMutation
<1> QED BY <1>1 DEF Mutations, Idle

(* A mutation whose attempt is stored. *)
LEMMA KeptMutation ==
  ASSUME NEW o \in Mutations, NEW k \in 0..MaxAttempt
  PROVE  LET p == [o EXCEPT !.pc = "kept", !.key = k]
         IN p \in Mutations /\ p.kind = o.kind /\ p.pc = "kept" /\ p.key = k
  BY DEF Mutations

(* A mutation whose request left. *)
LEMMA WaitingMutation ==
  ASSUME NEW o \in Mutations
  PROVE  LET p == [o EXCEPT !.pc = "wait"]
         IN p \in Mutations /\ p.kind = o.kind /\ p.pc = "wait" /\ p.key = o.key
  BY DEF Mutations

(* A free slot. *)
LEMMA FreeRequest ==
  Free \in Requests /\ Free.st = "free" /\ Free.key = 0 /\ Free.to = "none"
  BY DeliveryAssumption DEF Free, Requests, MaybeState

(* The fields of a request. *)
LEMMA RequestFields ==
  ASSUME NEW r \in Requests
  PROVE  /\ r.st \in {"free", "sent", "committed", "answered", "refused"}
         /\ r.key \in 0..MaxAttempt /\ r.to \in Activity \union {"none"}
         /\ r.state \in MaybeState /\ r.ver \in 0..MaxVersion
  BY DEF Requests

(* A request that leaves the phone. *)
LEMMA LeavingRequest ==
  ASSUME NEW k \in 0..MaxAttempt, NEW a \in Activity
  PROVE  LET r == [Free EXCEPT !.st = "sent", !.key = k, !.to = a]
         IN r \in Requests /\ r.st = "sent" /\ r.key = k /\ r.to = a
<1>1. Free \in Requests
  BY FreeRequest
<1> QED BY <1>1 DEF Requests, Free

(* Changing who waits keeps the rest of a request. *)
LEMMA Redirected ==
  ASSUME NEW r \in Requests, NEW t \in Activity \union {"none"}
  PROVE  LET s == [r EXCEPT !.to = t]
         IN s \in Requests /\ s.st = r.st /\ s.key = r.key /\ s.to = t
  BY DEF Requests

(* A request that moves on at the server. *)
LEMMA MovedRequest ==
  ASSUME NEW r \in Requests, NEW s \in {"committed", "answered", "refused"}
  PROVE  LET t == [r EXCEPT !.st = s]
         IN t \in Requests /\ t.st = s /\ t.key = r.key /\ t.to = r.to
  BY DEF Requests

(* The empty screen. *)
LEMMA EmptyScreen ==
  /\ NoScreen \in Screens /\ NoScreen.loaded = FALSE /\ NoScreen.pending = 0
  /\ NoScreen.state = "none" /\ NoScreen.ver = 0
  BY DeliveryAssumption DEF NoScreen, Screens, MaybeState

(* The fields of a screen. *)
LEMMA ScreenFields ==
  ASSUME NEW s \in Screens
  PROVE  /\ s.open \in BOOLEAN /\ s.loaded \in BOOLEAN /\ s.ready \in BOOLEAN
         /\ s.pending \in 0..MaxAttempt /\ s.rejected \in BOOLEAN
         /\ s.state \in MaybeState /\ s.ver \in 0..MaxVersion /\ s.task \in MaybeState
  BY DEF Screens

(* The fields of the assignment. *)
LEMMA AssignmentFields ==
  ASSUME NEW r \in Assignments
  PROVE  /\ r.state \in State /\ r.ver \in 1..MaxVersion /\ r.ver \in 0..MaxVersion
         /\ r.state \in MaybeState /\ r.state # "none"
  BY DeliveryAssumption DEF Assignments, State, MaybeState, Result

----------------------------------------------------------------------------
(* What the steps do to the mutations, the requests and the screen.        *)

At(a, pc, kind, key) ==
  /\ op' \in [Activity -> Mutations]
  /\ op'[a].pc = pc /\ op'[a].kind = kind /\ op'[a].key = key
  /\ \A b \in Activity \ {a} : op'[b] = op[b]
Ended(a) ==
  /\ op' \in [Activity -> Mutations] /\ op'[a] = Idle
  /\ \A b \in Activity \ {a} : op'[b] = op[b]
LeftOp ==
  /\ op' \in [Activity -> Mutations] /\ op'["cur"] = Idle
  /\ \/ op["cur"] = Idle /\ op'["old"] = op["old"]
     \/ op["cur"] # Idle /\ op["old"] = Idle /\ op'["old"] = op["cur"]

LeftNet ==
  /\ net' \in [Copy -> Requests]
  /\ \A d \in Copy : /\ net'[d].st = net[d].st /\ net'[d].key = net[d].key
                     /\ net'[d].to = IF net[d].to = "cur" THEN "old" ELSE net[d].to
DeafNet(S) ==
  /\ net' \in [Copy -> Requests]
  /\ \A d \in Copy :
       \/ net'[d] = Free /\ d \in S
       \/ /\ net'[d].st = net[d].st /\ net'[d].key = net[d].key
          /\ net'[d].to = IF d \in S THEN "none" ELSE net[d].to
SentNet(a, k) ==
  /\ net' \in [Copy -> Requests]
  /\ \E c \in Copy : /\ net[c] = Free
                     /\ net'[c].st = "sent" /\ net'[c].key = k /\ net'[c].to = a
                     /\ \A d \in Copy \ {c} : net'[d] = net[d]
FreedNet(c) ==
  /\ net' \in [Copy -> Requests] /\ net'[c] = Free
  /\ \A d \in Copy \ {c} : net'[d] = net[d]
MovedNet(c, S) ==
  /\ net' \in [Copy -> Requests]
  /\ \/ net'[c] = Free
     \/ net'[c].st \in S /\ net'[c].key = net[c].key /\ net'[c].to = net[c].to
  /\ \A d \in Copy \ {c} : net'[d] = net[d]
To(a) == {d \in Copy : net[d].to = a}

SameScreen ==
  /\ screen' \in Screens
  /\ screen'.open = screen.open /\ screen'.loaded = screen.loaded
  /\ screen'.pending = screen.pending
  /\ screen'.state = screen.state /\ screen'.ver = screen.ver
EmptiedScreen ==
  /\ screen' \in Screens /\ ~screen'.loaded /\ screen'.pending = 0
  /\ screen'.state = "none" /\ screen'.ver = 0

(* Unmounted. *)
LEMMA UnmountedEffect ==
  ASSUME op \in [Activity -> Mutations], net \in [Copy -> Requests], Unmounted
  PROVE  LeftOp /\ LeftNet /\ EmptiedScreen /\ load' = NoLoad
<1>1. LeftOp
  BY IdleMutation DEF Unmounted, Busy, Activity, LeftOp
<1> DEFINE f(d) == IF net[d].to = "cur" THEN [net[d] EXCEPT !.to = "old"] ELSE net[d]
<1>2. ASSUME NEW d \in Copy
      PROVE  /\ f(d) \in Requests
             /\ f(d).st = net[d].st /\ f(d).key = net[d].key
             /\ f(d).to = IF net[d].to = "cur" THEN "old" ELSE net[d].to
  <2>1. net[d] \in Requests /\ "old" \in Activity \union {"none"}
    BY DEF Activity
  <2> QED BY <2>1, Redirected
<1>3. net' = [d \in Copy |-> f(d)]
  BY DEF Unmounted
<1> HIDE DEF f
<1>4. LeftNet
  BY <1>2, <1>3 DEF LeftNet
<1>5. EmptiedScreen /\ load' = NoLoad
  BY EmptyScreen DEF Unmounted, EmptiedScreen
<1> QED BY <1>1, <1>4, <1>5

(* Copies nobody listens to any more. *)
LEMMA DeafNetEffect ==
  ASSUME net \in [Copy -> Requests], NEW S \in SUBSET Copy,
         net' = [d \in Copy |-> IF d \notin S THEN net[d]
                                ELSE IF net[d].st \in {"answered", "refused"} THEN Free
                                ELSE [net[d] EXCEPT !.to = "none"]]
  PROVE  DeafNet(S)
<1> DEFINE f(d) == IF d \notin S THEN net[d]
                   ELSE IF net[d].st \in {"answered", "refused"} THEN Free
                   ELSE [net[d] EXCEPT !.to = "none"]
<1>1. ASSUME NEW d \in Copy
      PROVE  /\ f(d) \in Requests
             /\ \/ f(d) = Free /\ d \in S
                \/ /\ f(d).st = net[d].st /\ f(d).key = net[d].key
                   /\ f(d).to = IF d \in S THEN "none" ELSE net[d].to
  <2>1. net[d] \in Requests
    OBVIOUS
  <2> QED BY <2>1, Redirected, FreeRequest
<1>2. net' = [d \in Copy |-> f(d)]
  OBVIOUS
<1> HIDE DEF f
<1> QED BY <1>1, <1>2 DEF DeafNet

(* Kill. *)
LEMMA KillEffect ==
  ASSUME net \in [Copy -> Requests], Kill
  PROVE  /\ op' \in [Activity -> Mutations] /\ \A a \in Activity : op'[a] = Idle
         /\ DeafNet(Copy) /\ EmptiedScreen /\ load' = NoLoad
<1>1. op' \in [Activity -> Mutations] /\ \A a \in Activity : op'[a] = Idle
  BY IdleMutation DEF Kill
<1>2. EmptiedScreen /\ load' = NoLoad
  BY EmptyScreen DEF Kill, EmptiedScreen
<1> DEFINE S == Copy
<1>3. net' = [d \in Copy |-> IF d \notin S THEN net[d]
                             ELSE IF net[d].st \in {"answered", "refused"} THEN Free
                             ELSE [net[d] EXCEPT !.to = "none"]]
  BY DEF Kill
<1>4. S \in SUBSET Copy
  OBVIOUS
<1> HIDE DEF S
<1>5. DeafNet(S)
  BY <1>3, <1>4, DeafNetEffect
<1> QED BY <1>1, <1>2, <1>5 DEF S

(* Reload empties the screen and starts a readback that is not quiet. *)
LEMMA ReloadEffect ==
  ASSUME NEW s \in Screens, Reload(s)
  PROVE  /\ EmptiedScreen /\ screen'.open = s.open
         /\ load' \in Loads /\ load'.pc = "token" /\ ~load'.quiet
<1> DEFINE t == [NoScreen EXCEPT !.open = s.open, !.rejected = s.rejected]
<1>1. /\ t \in Screens /\ t.open = s.open /\ t.loaded = FALSE /\ t.pending = 0
      /\ t.state = "none" /\ t.ver = 0
  BY EmptyScreen, ScreenFields DEF Screens, NoScreen
<1>2. screen' = t /\ load' = [pc |-> "token", quiet |-> FALSE]
  BY DEF Reload
<1> HIDE DEF t
<1>3. EmptiedScreen
  BY <1>1, <1>2 DEF EmptiedScreen
<1> QED BY <1>1, <1>2, <1>3 DEF Loads

(* A change of rejected leaves the rest of the screen alone. *)
LEMMA RejectedEffect ==
  ASSUME screen \in Screens, NEW b \in BOOLEAN, NEW a, Rejected(a, b)
  PROVE  SameScreen
<1>1. screen' = screen \/ screen' = [screen EXCEPT !.rejected = b]
  BY DEF Rejected
<1>2. CASE screen' = screen
  BY <1>2 DEF SameScreen
<1>3. CASE screen' = [screen EXCEPT !.rejected = b]
  BY <1>3 DEF SameScreen, Screens
<1> QED BY <1>1, <1>2, <1>3

(* End. *)
LEMMA EndEffect ==
  ASSUME op \in [Activity -> Mutations], NEW a \in Activity, End(a)
  PROVE  Ended(a)
  BY IdleMutation DEF End, Ended

(* A mutation is put in the place of the idle one. *)
LEMMA SetsMutation ==
  ASSUME op \in [Activity -> Mutations], NEW a \in Activity, NEW o \in Mutations,
         op' = [op EXCEPT ![a] = o]
  PROVE  At(a, o.pc, o.kind, o.key) /\ op'[a] = o
  BY DEF At
(* What the screen is left with when its data is read again. *)
Refreshed(a) ==
  /\ load' \in Loads
  /\ IF a = "cur" THEN /\ EmptiedScreen /\ screen'.open = screen.open
                       /\ load'.pc = "token" /\ ~load'.quiet
     ELSE SameScreen /\ load' = load

(* Forget leaves no attempt stored. *)
LEMMA ForgetEffect ==
  ASSUME screen \in Screens, load \in Loads, NEW a, Forget(a)
  PROVE  stored' = 0 /\ Refreshed(a)
<1> DEFINE s == [screen EXCEPT !.rejected = FALSE]
<1>1. s \in Screens /\ s.open = screen.open
  BY DEF Screens
<1>2. stored' = 0 /\ IF a = "cur" THEN Reload(s) ELSE UNCHANGED <<screen, load>>
  BY DEF Forget
<1> HIDE DEF s
<1>3. CASE a = "cur"
  BY <1>1, <1>2, <1>3, ReloadEffect DEF Refreshed
<1>4. CASE a # "cur"
  BY <1>2, <1>4 DEF Refreshed, SameScreen
<1> QED BY <1>3, <1>4

(* Open and Reread. *)
LEMMA OpenEffect ==
  ASSUME screen \in Screens, Open \/ Reread
  PROVE  /\ EmptiedScreen /\ screen'.open = TRUE
         /\ load' \in Loads /\ load'.pc = "token" /\ ~load'.quiet
         /\ UNCHANGED <<signedIn, op, stored, attempt, net, server, settled, crossed, faults>>
<1> DEFINE s == [NoScreen EXCEPT !.open = TRUE]
<1>1. s \in Screens /\ s.open = TRUE
  BY EmptyScreen DEF Screens, NoScreen
<1>2. Reload(s) \/ (screen.open = TRUE /\ Reload(screen))
  BY ScreenFields DEF Open, Reread
<1> HIDE DEF s
<1>3. EmptiedScreen /\ screen'.open = TRUE /\ load' \in Loads /\ load'.pc = "token" /\ ~load'.quiet
  BY <1>1, <1>2, ReloadEffect
<1> QED BY <1>3 DEF Open, Reread

(* LoadStored. *)
LEMMA LoadStoredEffect ==
  ASSUME screen \in Screens, load \in Loads, stored \in 0..MaxAttempt, LoadStored
  PROVE  /\ screen' \in Screens /\ screen'.open = screen.open
         /\ screen'.loaded /\ screen'.pending = stored
         /\ screen'.state = screen.state /\ screen'.ver = screen.ver
         /\ load' \in Loads /\ load'.pc = "list" /\ signedIn
<1>1. screen' \in Screens /\ screen'.open = screen.open
      /\ screen'.loaded /\ screen'.pending = stored
      /\ screen'.state = screen.state /\ screen'.ver = screen.ver
  BY DEF LoadStored, Screens
<1>2. load' \in Loads /\ load'.pc = "list" /\ signedIn
  BY DEF LoadStored, Loads, Current
<1> QED BY <1>1, <1>2

(* LoadList. *)
LEMMA LoadListEffect ==
  ASSUME screen \in Screens, load \in Loads, assignment \in Assignments, LoadList
  PROVE  /\ screen' \in Screens
         /\ screen'.open = screen.open
         /\ screen'.loaded = screen.loaded /\ screen'.pending = screen.pending
         /\ screen'.state = assignment.state /\ screen'.ver = assignment.ver
         /\ load' \in Loads /\ load'.pc = "task"
<1>1. assignment.state \in MaybeState /\ assignment.ver \in 0..MaxVersion
  BY AssignmentFields
<1>2. screen' \in Screens
         /\ screen'.open = screen.open
         /\ screen'.loaded = screen.loaded /\ screen'.pending = screen.pending
         /\ screen'.state = assignment.state /\ screen'.ver = assignment.ver
  BY <1>1 DEF LoadList, Screens
<1> QED BY <1>2 DEF LoadList, Loads

(* LoadTask. *)
LEMMA LoadTaskEffect ==
  ASSUME screen \in Screens, assignment \in Assignments, LoadTask
  PROVE  SameScreen /\ load' = NoLoad
<1>1. assignment.state \in MaybeState
  BY AssignmentFields
<1> QED BY <1>1 DEF LoadTask, SameScreen, Screens

(* LoadFails. *)
LEMMA LoadFailsEffect ==
  ASSUME screen \in Screens, LoadFails
  PROVE  /\ screen' \in Screens /\ screen'.open = screen.open
         /\ screen'.loaded = screen.loaded /\ screen'.pending = screen.pending
         /\ screen'.state = "none" \/ (screen'.state = screen.state /\ screen'.ver = screen.ver)
         /\ load' = NoLoad
<1>1. 0 \in 0..MaxVersion /\ "none" \in MaybeState
  BY DeliveryAssumption DEF MaybeState
<1>2. CASE screen' = screen
  BY <1>2 DEF LoadFails
<1>3. CASE screen' = [screen EXCEPT !.state = "none", !.ver = 0, !.task = "none"]
  BY <1>1, <1>3 DEF LoadFails, Screens
<1> QED BY <1>2, <1>3 DEF LoadFails

(* The four buttons. *)
LEMMA BeginEffect ==
  ASSUME op \in [Activity -> Mutations], screen \in Screens
  PROVE  /\ pickup => At("cur", "kept", "pickup", 0)
         /\ \A r \in Result : complete(r) =>
              /\ At("cur", "token", "complete", 0)
              /\ op'["cur"].ver = screen.ver /\ op'["cur"].result = r
         /\ retryPendingCompletion => At("cur", "kept", "retry", screen.pending)
         /\ replaceRejectedCompletion => At("cur", "read", "replace", screen.pending)
<1>1. screen.pending \in 0..MaxAttempt /\ screen.ver \in 0..MaxVersion /\ "cur" \in Activity
  BY ScreenFields DEF Activity
<1>2. ASSUME pickup PROVE At("cur", "kept", "pickup", 0)
  <2> DEFINE o == [Idle EXCEPT !.kind = "pickup", !.pc = "kept"]
  <2>1. o \in Mutations /\ o.kind = "pickup" /\ o.pc = "kept" /\ o.key = 0
    BY <1>1, BegunMutation
  <2>2. op' = [op EXCEPT !["cur"] = o]
    BY <1>2 DEF pickup, Begin
  <2> HIDE DEF o
  <2> QED BY <1>1, <2>1, <2>2 DEF At
<1>3. ASSUME NEW r \in Result, complete(r)
      PROVE  /\ At("cur", "token", "complete", 0)
             /\ op'["cur"].ver = screen.ver /\ op'["cur"].result = r
  <2> DEFINE o == [Idle EXCEPT !.kind = "complete", !.pc = "token", !.result = r, !.ver = screen.ver]
  <2>1. /\ o \in Mutations /\ o.kind = "complete" /\ o.pc = "token" /\ o.key = 0
        /\ o.ver = screen.ver /\ o.result = r
    BY <1>1, IdleMutation DEF Mutations, Idle, Result
  <2>2. op' = [op EXCEPT !["cur"] = o]
    BY <1>3 DEF complete, Begin
  <2> HIDE DEF o
  <2> QED BY <1>1, <2>1, <2>2 DEF At
<1>4. ASSUME retryPendingCompletion PROVE At("cur", "kept", "retry", screen.pending)
  <2> DEFINE o == [Idle EXCEPT !.kind = "retry", !.pc = "kept", !.key = screen.pending]
  <2>1. o \in Mutations /\ o.kind = "retry" /\ o.pc = "kept" /\ o.key = screen.pending
    BY <1>1, BegunMutation
  <2>2. op' = [op EXCEPT !["cur"] = o]
    BY <1>4 DEF retryPendingCompletion, Begin
  <2> HIDE DEF o
  <2> QED BY <1>1, <2>1, <2>2 DEF At
<1>5. ASSUME replaceRejectedCompletion PROVE At("cur", "read", "replace", screen.pending)
  <2> DEFINE o == [Idle EXCEPT !.kind = "replace", !.pc = "read", !.key = screen.pending]
  <2>1. o \in Mutations /\ o.kind = "replace" /\ o.pc = "read" /\ o.key = screen.pending
    BY <1>1, BegunMutation
  <2>2. op' = [op EXCEPT !["cur"] = o]
    BY <1>5 DEF replaceRejectedCompletion, Begin
  <2> HIDE DEF o
  <2> QED BY <1>1, <2>1, <2>2 DEF At
<1> QED BY <1>2, <1>3, <1>4, <1>5

Button ==
  \/ pickup \/ retryPendingCompletion \/ replaceRejectedCompletion
  \/ \E r \in Result : complete(r)

(* What no button changes. *)
LEMMA ButtonFrame ==
  ASSUME screen \in Screens, Button
  PROVE  /\ SameScreen /\ screen.loaded /\ signedIn /\ op["cur"] = Idle
         /\ UNCHANGED <<signedIn, load, stored, attempt, net, server, settled, crossed, faults>>
<1>1. SameScreen
  <2>1. screen' = screen \/ screen' = [screen EXCEPT !.rejected = FALSE]
    BY DEF Button, pickup, retryPendingCompletion, replaceRejectedCompletion, complete
  <2> QED BY <2>1 DEF SameScreen, Screens
<1>2. screen.loaded /\ signedIn /\ op["cur"] = Idle
  BY DEF Button, pickup, retryPendingCompletion, replaceRejectedCompletion, complete,
         CanAct, CanResume, Busy
<1>3. UNCHANGED <<signedIn, load, stored, attempt, net, server, settled, crossed, faults>>
  BY DEF Button, pickup, retryPendingCompletion, replaceRejectedCompletion, complete, Begin
<1> QED BY <1>1, <1>2, <1>3

(* Keep: the attempt is the first one not used. *)
LEMMA KeepEffect ==
  ASSUME op \in [Activity -> Mutations], attempt \in [Attempt -> Attempts], screen \in Screens,
         NEW a \in Activity, Keep(a)
  PROVE  /\ op[a].pc = "token"
         /\ UNCHANGED <<signedIn, load, net, server, settled, crossed>>
         /\ \/ /\ SameScreen /\ faults' = faults
               /\ \E k \in Attempt :
                    /\ attempt[k].ver = 0 /\ \A j \in Attempt \ Used : k <= j
                    /\ attempt' \in [Attempt -> Attempts]
                    /\ attempt'[k].ver = op[a].ver /\ attempt'[k].result = op[a].result
                    /\ \A i \in Attempt \ {k} : attempt'[i] = attempt[i]
                    /\ stored' = k /\ At(a, "kept", op[a].kind, k)
            \/ Ended(a) /\ SameScreen /\ UNCHANGED <<stored, attempt>>
<1>1. op[a].pc = "token" /\ UNCHANGED <<signedIn, load, net, server, settled, crossed>>
  BY DEF Keep
<1>2. ASSUME NEW k \in Attempt \ Used, \A j \in Attempt \ Used : k <= j,
             attempt' = [attempt EXCEPT ![k] = [result |-> op[a].result, ver |-> op[a].ver]],
             op' = [op EXCEPT ![a].pc = "kept", ![a].key = k]
      PROVE  /\ attempt[k].ver = 0
             /\ attempt' \in [Attempt -> Attempts]
             /\ attempt'[k].ver = op[a].ver /\ attempt'[k].result = op[a].result
             /\ \A i \in Attempt \ {k} : attempt'[i] = attempt[i]
             /\ At(a, "kept", op[a].kind, k)
  <2> DEFINE q == [result |-> op[a].result, ver |-> op[a].ver]
             o == [op[a] EXCEPT !.pc = "kept", !.key = k]
  <2>1. attempt[k].ver = 0
    BY DEF Used
  <2>2. q \in Attempts /\ q.ver = op[a].ver /\ q.result = op[a].result
    BY MutationFields DEF Attempts
  <2>3. attempt' = [attempt EXCEPT ![k] = q]
    BY <1>2
  <2>4. k \in 0..MaxAttempt
    BY DeliveryAssumption DEF Attempt
  <2>5. o \in Mutations /\ o.kind = op[a].kind /\ o.pc = "kept" /\ o.key = k
    BY <2>4, KeptMutation
  <2>6. op' = [op EXCEPT ![a] = o]
    BY <1>2
  <2> HIDE DEF q, o
  <2>7. /\ attempt' \in [Attempt -> Attempts]
        /\ attempt'[k].ver = op[a].ver /\ attempt'[k].result = op[a].result
        /\ \A i \in Attempt \ {k} : attempt'[i] = attempt[i]
    BY <2>2, <2>3
  <2>8. At(a, "kept", op[a].kind, k)
    BY <2>5, <2>6 DEF At
  <2> QED BY <2>1, <2>7, <2>8
<1>3. \/ /\ screen' = screen /\ faults' = faults
         /\ \E k \in Attempt \ Used :
              /\ \A j \in Attempt \ Used : k <= j
              /\ attempt' = [attempt EXCEPT ![k] = [result |-> op[a].result, ver |-> op[a].ver]]
              /\ stored' = k
              /\ op' = [op EXCEPT ![a].pc = "kept", ![a].key = k]
      \/ End(a) /\ (Rejected(a, FALSE) \/ UNCHANGED screen) /\ UNCHANGED <<stored, attempt>>
  BY DEF Keep, NoFault
<1>4. CASE End(a) /\ (Rejected(a, FALSE) \/ UNCHANGED screen) /\ UNCHANGED <<stored, attempt>>
  <2>1. Ended(a)
    BY <1>4, EndEffect
  <2>2. SameScreen
    BY <1>4, RejectedEffect DEF SameScreen
  <2> QED BY <1>1, <1>4, <2>1, <2>2
<1>5. CASE /\ screen' = screen /\ faults' = faults
           /\ \E k \in Attempt \ Used :
                /\ \A j \in Attempt \ Used : k <= j
                /\ attempt' = [attempt EXCEPT ![k] = [result |-> op[a].result, ver |-> op[a].ver]]
                /\ stored' = k
                /\ op' = [op EXCEPT ![a].pc = "kept", ![a].key = k]
  <2>1. SameScreen
    BY <1>5 DEF SameScreen
  <2>2. PICK k \in Attempt \ Used :
              /\ \A j \in Attempt \ Used : k <= j
              /\ attempt' = [attempt EXCEPT ![k] = [result |-> op[a].result, ver |-> op[a].ver]]
              /\ stored' = k
              /\ op' = [op EXCEPT ![a].pc = "kept", ![a].key = k]
    BY <1>5
  <2>3. /\ attempt[k].ver = 0
        /\ attempt' \in [Attempt -> Attempts]
        /\ attempt'[k].ver = op[a].ver /\ attempt'[k].result = op[a].result
        /\ \A i \in Attempt \ {k} : attempt'[i] = attempt[i]
        /\ At(a, "kept", op[a].kind, k)
    BY <2>2, <1>2
  <2> QED BY <1>1, <1>5, <2>1, <2>2, <2>3
<1> QED BY <1>3, <1>4, <1>5

(* Send. *)
LEMMA SendEffect ==
  ASSUME op \in [Activity -> Mutations], net \in [Copy -> Requests], screen \in Screens,
         NEW a \in Activity, Send(a)
  PROVE  /\ op[a].pc = "kept"
         /\ UNCHANGED <<signedIn, load, stored, attempt, server, settled, crossed>>
         /\ screen' \in Screens /\ screen'.open = screen.open
         /\ screen'.loaded = screen.loaded
         /\ screen'.state = screen.state /\ screen'.ver = screen.ver
         /\ \/ /\ SentNet(a, op[a].key) /\ At(a, "wait", op[a].kind, op[a].key)
               /\ screen'.pending = IF a = "cur" /\ op[a].kind = "complete"
                                    THEN op[a].key ELSE screen.pending
            \/ /\ Ended(a) /\ SameScreen /\ UNCHANGED net
               /\ ~signedIn \/ op[a].kind # "complete"
<1>0. op[a] \in Mutations /\ op[a].key \in 0..MaxAttempt
  BY MutationFields
<1>1. op[a].pc = "kept" /\ UNCHANGED <<signedIn, load, stored, attempt, server, settled, crossed>>
  BY DEF Send
<1> DEFINE Sends == \E c \in Copy :
             /\ net[c] = Free
             /\ net' = [net EXCEPT ![c] = [Free EXCEPT !.st = "sent", !.key = op[a].key, !.to = a]]
           shown == IF a = "cur" /\ op[a].kind = "complete"
                    THEN [screen EXCEPT !.pending = op[a].key, !.rejected = FALSE] ELSE screen
<1>2. \/ Sends /\ op' = [op EXCEPT ![a].pc = "wait"] /\ screen' = shown
      \/ /\ End(a) /\ UNCHANGED net /\ (~signedIn \/ op[a].kind # "complete")
         /\ \/ UNCHANGED screen
            \/ Rejected(a, IF op[a].kind = "retry" THEN FALSE ELSE screen.rejected)
  BY DEF Send
<1>3. CASE /\ End(a) /\ UNCHANGED net /\ (~signedIn \/ op[a].kind # "complete")
           /\ \/ UNCHANGED screen
              \/ Rejected(a, IF op[a].kind = "retry" THEN FALSE ELSE screen.rejected)
  <2>1. Ended(a)
    BY <1>3, EndEffect
  <2> DEFINE b == IF op[a].kind = "retry" THEN FALSE ELSE screen.rejected
  <2>2. b \in BOOLEAN /\ (UNCHANGED screen \/ Rejected(a, b))
    BY <1>3, ScreenFields
  <2> HIDE DEF b
  <2>3. SameScreen
    BY <2>2, RejectedEffect DEF SameScreen
  <2> QED BY <1>1, <1>3, <2>1, <2>3 DEF SameScreen
<1>4. CASE Sends /\ op' = [op EXCEPT ![a].pc = "wait"] /\ screen' = shown
  <2>1. SentNet(a, op[a].key)
    <3> DEFINE m == [Free EXCEPT !.st = "sent", !.key = op[a].key, !.to = a]
    <3>1. m \in Requests /\ m.st = "sent" /\ m.key = op[a].key /\ m.to = a
      BY <1>0, LeavingRequest
    <3>2. \E c \in Copy : net[c] = Free /\ net' = [net EXCEPT ![c] = m]
      BY <1>4
    <3> HIDE DEF m
    <3> QED BY <3>1, <3>2 DEF SentNet
  <2>2. At(a, "wait", op[a].kind, op[a].key)
    <3> DEFINE o == [op[a] EXCEPT !.pc = "wait"]
    <3>1. o \in Mutations /\ o.kind = op[a].kind /\ o.pc = "wait" /\ o.key = op[a].key
      BY WaitingMutation
    <3>2. op' = [op EXCEPT ![a] = o]
      BY <1>4
    <3> HIDE DEF o
    <3> QED BY <3>1, <3>2 DEF At
  <2>3. /\ screen' \in Screens /\ screen'.open = screen.open
        /\ screen'.loaded = screen.loaded
        /\ screen'.state = screen.state /\ screen'.ver = screen.ver
        /\ screen'.pending = IF a = "cur" /\ op[a].kind = "complete"
                             THEN op[a].key ELSE screen.pending
    BY <1>0, <1>4 DEF Screens
  <2> QED BY <1>1, <2>1, <2>2, <2>3
<1> QED BY <1>2, <1>3, <1>4

(* GiveUp. *)
LEMMA GiveUpEffect ==
  ASSUME op \in [Activity -> Mutations], net \in [Copy -> Requests], screen \in Screens,
         NEW a \in Activity, GiveUp(a)
  PROVE  /\ Ended(a) /\ DeafNet(To(a)) /\ SameScreen
         /\ UNCHANGED <<signedIn, load, stored, attempt, server, settled, crossed>>
<1>1. Ended(a)
  BY EndEffect DEF GiveUp
<1>2. net' = [d \in Copy |-> IF d \notin To(a) THEN net[d]
                             ELSE IF net[d].st \in {"answered", "refused"} THEN Free
                             ELSE [net[d] EXCEPT !.to = "none"]]
  BY DEF GiveUp, To
<1>3. To(a) \in SUBSET Copy
  BY DEF To
<1>4. DeafNet(To(a))
  BY <1>2, <1>3, DeafNetEffect
<1>5. Rejected(a, FALSE) \/ UNCHANGED screen
  BY DEF GiveUp
<1>6. SameScreen
  BY <1>5, RejectedEffect DEF SameScreen
<1> QED BY <1>1, <1>4, <1>6 DEF GiveUp

(* Receive: an attempt is settled only by an answer that confirms it, and  *)
(* forgotten only once it is settled.                                      *)
LEMMA ReceiveEffect ==
  ASSUME op \in [Activity -> Mutations], net \in [Copy -> Requests], screen \in Screens,
         load \in Loads, NEW a \in Activity, NEW c \in Copy, Receive(a, c)
  PROVE  /\ Ended(a) /\ FreedNet(c) /\ net[c].to = a /\ op[a].pc = "wait"
         /\ UNCHANGED <<signedIn, attempt, server, crossed>>
         /\ \/ SameScreen /\ load' = load /\ stored' = stored /\ settled' = settled
            \/ Refreshed(a) /\ stored' = stored /\ settled' = settled
            \/ /\ op[a].key # 0 /\ net[c].st = "answered" /\ settled' = settled \union {op[a].key}
               /\ \/ SameScreen /\ load' = load /\ stored' = stored
                  \/ Refreshed(a) /\ stored' = 0
<1>1. Ended(a)
  BY EndEffect DEF Receive
<1>2. FreedNet(c)
  BY FreeRequest DEF Receive, FreedNet
<1>3. net[c].to = a /\ op[a].pc = "wait" /\ UNCHANGED <<signedIn, attempt, server, crossed>>
  BY DEF Receive
<1>4. \/ UNCHANGED <<screen, load, stored, settled>>
      \/ (IF a = "cur" THEN Reload(screen) ELSE UNCHANGED <<screen,
         load>>) /\ UNCHANGED <<stored, settled>>
      \/ (Rejected(a, TRUE) \/ Rejected(a, FALSE)) /\ UNCHANGED <<load, stored, settled>>
      \/ /\ op[a].key # 0 /\ net[c].st = "answered" /\ settled' = settled \union {op[a].key}
         /\ \/ Forget(a)
            \/ Rejected(a, FALSE) /\ UNCHANGED <<load, stored>>
  BY DEF Receive
<1>5. CASE UNCHANGED <<screen, load, stored, settled>>
  BY <1>1, <1>2, <1>3, <1>5 DEF SameScreen
<1>6. CASE (IF a = "cur" THEN Reload(screen) ELSE UNCHANGED <<screen,
   load>>) /\ UNCHANGED <<stored, settled>>
  <2>1. Refreshed(a)
    BY <1>6, ReloadEffect DEF Refreshed, SameScreen
  <2> QED BY <1>1, <1>2, <1>3, <1>6, <2>1
<1>7. CASE (Rejected(a, TRUE) \/ Rejected(a, FALSE)) /\ UNCHANGED <<load, stored, settled>>
  <2>1. SameScreen
    BY <1>7, RejectedEffect
  <2> QED BY <1>1, <1>2, <1>3, <1>7, <2>1
<1>8. CASE /\ op[a].key # 0 /\ net[c].st = "answered" /\ settled' = settled \union {op[a].key}
           /\ \/ Forget(a)
              \/ Rejected(a, FALSE) /\ UNCHANGED <<load, stored>>
  <2>1. CASE Forget(a)
    BY <1>1, <1>2, <1>3, <1>8, <2>1, ForgetEffect
  <2>2. CASE Rejected(a, FALSE) /\ UNCHANGED <<load, stored>>
    <3>1. SameScreen
      BY <2>2, RejectedEffect
    <3> QED BY <1>1, <1>2, <1>3, <1>8, <2>2, <3>1
  <2> QED BY <1>8, <2>1, <2>2
<1> QED BY <1>4, <1>5, <1>6, <1>7, <1>8

(* ReadForReplace. *)
LEMMA ReadForReplaceEffect ==
  ASSUME op \in [Activity -> Mutations], assignment \in Assignments,
         NEW a \in Activity, ReadForReplace(a)
  PROVE  /\ op[a].pc = "read"
         /\ UNCHANGED <<signedIn, screen, load, stored, attempt, net, server, settled>>
         /\ \/ /\ At(a, "seen", op[a].kind, op[a].key) /\ op'[a].ver = assignment.ver
               /\ crossed' = (crossed \/ Running(op[a].key))
            \/ Ended(a) /\ crossed' = crossed
<1>1. op[a].pc = "read" /\ UNCHANGED <<signedIn, screen, load, stored, attempt, net, server,
   settled>>
  BY DEF ReadForReplace
<1> DEFINE o == [op[a] EXCEPT !.pc = "seen", !.state = assignment.state, !.ver = assignment.ver]
<1>0. assignment.state \in State /\ assignment.ver \in 0..MaxVersion /\ op[a] \in Mutations
  BY AssignmentFields
<1>2. o \in Mutations /\ o.kind = op[a].kind /\ o.pc = "seen" /\ o.key = op[a].key /\ o.ver = assignment.ver
  BY <1>0 DEF Mutations, MaybeState
<1>3. \/ op' = [op EXCEPT ![a] = o] /\ crossed' = (crossed \/ Running(op[a].key))
      \/ End(a) /\ crossed' = crossed
  BY DEF ReadForReplace
<1> HIDE DEF o
<1>4. CASE op' = [op EXCEPT ![a] = o] /\ crossed' = (crossed \/ Running(op[a].key))
  <2>1. At(a, "seen", op[a].kind, op[a].key) /\ op'[a].ver = assignment.ver
    BY <1>2, <1>4 DEF At
  <2> QED BY <1>1, <1>4, <2>1
<1>5. CASE End(a) /\ crossed' = crossed
  BY <1>1, <1>5, EndEffect
<1> QED BY <1>3, <1>4, <1>5

(* Replace. *)
LEMMA ReplaceEffect ==
  ASSUME op \in [Activity -> Mutations], screen \in Screens, load \in Loads,
         NEW a \in Activity, Replace(a)
  PROVE  /\ op[a].pc = "seen" /\ Ended(a)
         /\ UNCHANGED <<signedIn, attempt, net, server, settled, crossed>>
         /\ \/ SameScreen /\ load' = load /\ stored' = stored
            \/ Unexecuted(op[a]) /\ Refreshed(a) /\ stored' = 0
<1>1. op[a].pc = "seen" /\ Ended(a) /\ UNCHANGED <<signedIn, attempt, net, server, settled,
   crossed>>
  BY EndEffect DEF Replace
<1>2. \/ Unexecuted(op[a]) /\ Forget(a)
      \/ (UNCHANGED screen \/ Rejected(a, FALSE)) /\ UNCHANGED <<load, stored>>
  BY DEF Replace
<1>3. CASE Unexecuted(op[a]) /\ Forget(a)
  BY <1>1, <1>3, ForgetEffect
<1>4. CASE (UNCHANGED screen \/ Rejected(a, FALSE)) /\ UNCHANGED <<load, stored>>
  <2>1. SameScreen
    BY <1>4, RejectedEffect DEF SameScreen
  <2> QED BY <1>1, <1>4, <2>1
<1> QED BY <1>2, <1>3, <1>4

(* Answer. *)
LEMMA AnswerEffect ==
  ASSUME net \in [Copy -> Requests], NEW c \in Copy, NEW m \in Requests,
         m.key = net[c].key, m.to = net[c].to, Answer(c, m)
  PROVE  MovedNet(c, {m.st})
  BY FreeRequest DEF Answer, MovedNet

(* Refused. *)
LEMMA RefusedRequest ==
  ASSUME net \in [Copy -> Requests], NEW c \in Copy
  PROVE  /\ Refused(c) \in Requests /\ Refused(c).st = "refused"
         /\ Refused(c).key = net[c].key /\ Refused(c).to = net[c].to
  BY MovedRequest DEF Refused

(* CompleteCaptainPickup. *)
LEMMA PickupEffect ==
  ASSUME net \in [Copy -> Requests], assignment \in Assignments, NEW c \in Copy,
         CompleteCaptainPickup(c)
  PROVE  /\ net[c].key = 0 /\ MovedNet(c, {"answered", "refused"})
         /\ UNCHANGED <<phone, done, settled, crossed, faults>>
         /\ \/ assignment' = assignment
            \/ assignment' \in Assignments /\ assignment'.ver = assignment.ver + 1
<1>1. net[c].key = 0 /\ UNCHANGED <<phone, done, settled, crossed, faults>>
  BY DEF CompleteCaptainPickup
<1> DEFINE m == [net[c] EXCEPT !.st = "answered"]
<1>2. m \in Requests /\ m.st = "answered" /\ m.key = net[c].key /\ m.to = net[c].to
  BY MovedRequest
<1>3. \/ /\ assignment' = [state |-> "in_custody", ver |-> assignment.ver + 1]
         /\ assignment.ver < MaxVersion /\ Answer(c, m)
      \/ Answer(c, Refused(c)) /\ assignment' = assignment
  BY DEF CompleteCaptainPickup
<1> HIDE DEF m
<1>4. CASE Answer(c, Refused(c)) /\ assignment' = assignment
  <2>1. MovedNet(c, {"refused"})
    BY <1>4, AnswerEffect, RefusedRequest
  <2> QED BY <1>1, <1>4, <2>1 DEF MovedNet
<1>5. CASE /\ assignment' = [state |-> "in_custody", ver |-> assignment.ver + 1]
           /\ assignment.ver < MaxVersion /\ Answer(c, m)
  <2>1. MovedNet(c, {"answered"})
    BY <1>2, <1>5, AnswerEffect
  <2>2. assignment.ver + 1 \in 1..MaxVersion
    BY <1>5, AssignmentFields, DeliveryAssumption
  <2>3. assignment' \in Assignments /\ assignment'.ver = assignment.ver + 1
    BY <1>5, <2>2 DEF Assignments, State
  <2> QED BY <1>1, <2>1, <2>3 DEF MovedNet
<1> QED BY <1>3, <1>4, <1>5

(* CompleteCaptainAssignment: an attempt is executed once, on the version  *)
(* it was confirmed for.                                                   *)
LEMMA CompletionEffect ==
  ASSUME net \in [Copy -> Requests], assignment \in Assignments,
         attempt \in [Attempt -> Attempts], NEW c \in Copy, CompleteCaptainAssignment(c)
  PROVE  /\ net[c].st = "sent" /\ net[c].key \in Attempt
         /\ UNCHANGED <<phone, settled, crossed, faults>>
         /\ \/ net[c].key \in done /\ MovedNet(c, {"committed"}) /\ UNCHANGED server
            \/ /\ net[c].key \notin done /\ attempt[net[c].key].ver = assignment.ver
               /\ MovedNet(c, {"committed"}) /\ done' = done \union {net[c].key}
               /\ attempt[net[c].key].result = "none" \/ assignment' \in Assignments
               /\ assignment'.ver = assignment.ver + 1
            \/ MovedNet(c, {"refused"}) /\ UNCHANGED server
<1>1. net[c].st = "sent" /\ net[c].key # 0 /\ UNCHANGED <<phone, settled, crossed, faults>>
  BY DEF CompleteCaptainAssignment
<1>2. net[c].key \in Attempt
  BY <1>1, RequestFields, DeliveryAssumption DEF Attempt
<1> DEFINE k == net[c].key
           m == [net[c] EXCEPT !.st = "committed"]
<1>3. m \in Requests /\ m.st = "committed" /\ m.key = net[c].key /\ m.to = net[c].to
  BY MovedRequest
<1>4. \/ k \in done /\ net' = [net EXCEPT ![c] = m] /\ UNCHANGED server
      \/ /\ k \notin done /\ Completes(k) /\ assignment.ver < MaxVersion
         /\ assignment' = [state |-> attempt[k].result, ver |-> assignment.ver + 1]
         /\ done' = done \union {k} /\ net' = [net EXCEPT ![c] = m]
      \/ Answer(c, Refused(c)) /\ UNCHANGED server
  BY DEF CompleteCaptainAssignment, Replays
<1> HIDE DEF m
<1>5. net' = [net EXCEPT ![c] = m] => MovedNet(c, {"committed"})
  BY <1>3 DEF MovedNet
<1>6. CASE k \in done /\ net' = [net EXCEPT ![c] = m] /\ UNCHANGED server
  BY <1>1, <1>2, <1>5, <1>6
<1>7. CASE Answer(c, Refused(c)) /\ UNCHANGED server
  <2>1. MovedNet(c, {"refused"})
    BY <1>7, AnswerEffect, RefusedRequest
  <2> QED BY <1>1, <1>2, <1>7, <2>1
<1>8. CASE /\ k \notin done /\ Completes(k) /\ assignment.ver < MaxVersion
           /\ assignment' = [state |-> attempt[k].result, ver |-> assignment.ver + 1]
           /\ done' = done \union {k} /\ net' = [net EXCEPT ![c] = m]
  <2>1. attempt[k].ver = assignment.ver
    BY <1>8 DEF Completes
  <2>2. assignment.ver + 1 \in 1..MaxVersion /\ attempt[k] \in Attempts
    BY <1>2, <1>8, AssignmentFields, DeliveryAssumption
  <2>3. attempt[k].result = "none" \/ assignment' \in Assignments
    BY <1>8, <2>2 DEF Assignments, Attempts, State
  <2>4. assignment'.ver = assignment.ver + 1
    BY <1>8
  <2> QED BY <1>1, <1>2, <1>5, <1>8, <2>1, <2>3, <2>4
<1> QED BY <1>4, <1>6, <1>7, <1>8

(* Respond. *)
LEMMA RespondEffect ==
  ASSUME net \in [Copy -> Requests], assignment \in Assignments, NEW c \in Copy, Respond(c)
  PROVE  /\ net[c].st = "committed" /\ MovedNet(c, {"answered"})
         /\ UNCHANGED <<phone, server, settled, crossed, faults>>
<1> DEFINE m == [net[c] EXCEPT !.st = "answered", !.state = assignment.state, !.ver = assignment.ver]
<1>0. assignment.state \in State /\ assignment.ver \in 0..MaxVersion /\ net[c] \in Requests
  BY AssignmentFields
<1>1. m \in Requests /\ m.st = "answered" /\ m.key = net[c].key /\ m.to = net[c].to
  BY <1>0 DEF Requests, MaybeState
<1>2. Answer(c, m) /\ net[c].st = "committed" /\ UNCHANGED <<phone, server, settled, crossed,
   faults>>
  BY DEF Respond
<1> HIDE DEF m
<1> QED BY <1>1, <1>2, AnswerEffect

(* Refuse and Lose. *)
LEMMA LoseEffect ==
  ASSUME net \in [Copy -> Requests], NEW c \in Copy, Refuse(c) \/ Lose(c)
  PROVE  MovedNet(c, {"refused"}) /\ UNCHANGED <<phone, server, settled, crossed>>
<1>1. CASE Refuse(c)
  BY <1>1, AnswerEffect, RefusedRequest DEF Refuse
<1>2. CASE Lose(c)
  <2>1. MovedNet(c, {"refused"})
    BY <1>2, FreeRequest DEF Lose, MovedNet
  <2> QED BY <1>2, <2>1 DEF Lose
<1> QED BY <1>1, <1>2

----------------------------------------------------------------------------
(* Layer 1: types, and what holds of any history: which attempt a mutation *)
(* and a request name, who listens, and what the server has done.          *)

(* A mutation names an attempt once it is stored.                          *)
Keyed ==
  \A a \in Activity :
    /\ op[a].pc = "idle" => op[a] = Idle
    /\ op[a].pc = "token" => /\ op[a].kind = "complete" /\ op[a].key = 0
                             /\ op[a].ver # 0 /\ op[a].result # "none"
    /\ op[a].pc \in {"read", "seen"} => op[a].key # 0
    /\ op[a].pc = "kept" /\ op[a].kind = "complete" => op[a].key # 0

(* A mutation listens to at most one copy, of its own attempt.             *)
Listening ==
  /\ \A c \in Copy, a \in Activity :
       net[c].to = a => op[a].pc = "wait" /\ op[a].key = net[c].key
  /\ \A c, d \in Copy : net[c].to # "none" /\ net[c].to = net[d].to => c = d

(* Only a captain who is signed in sees data and acts on it.               *)
Mounted ==
  /\ screen.loaded => signedIn /\ screen.open
  /\ load.pc # "none" => screen.open
  /\ op["cur"] # Idle => screen.loaded
  /\ load.pc = "token" /\ ~load.quiet => ~screen.loaded
  /\ load.pc \in {"list", "task"} => screen.loaded
  /\ screen.state # "none" => screen.loaded /\ screen.ver # 0

(* Whatever names an attempt names one the captain confirmed.              *)
Named ==
  /\ stored # 0 => stored \in Used
  /\ screen.pending # 0 => screen.pending \in Used
  /\ \A a \in Activity : op[a].key # 0 => op[a].key \in Used
  /\ \A c \in Copy : net[c].key # 0 => net[c].key \in Used

(* Attempts are confirmed one after the other.                             *)
InOrder ==
  /\ \A k \in Used : attempt[k].result # "none"
  /\ \A j \in Used, i \in Attempt : i < j => i \in Used

(* An executed attempt moved the assignment past its version; an answer    *)
(* speaks of an executed attempt, and so does a confirmation.              *)
Executed ==
  /\ done \subseteq Used /\ \A k \in done : attempt[k].ver < assignment.ver
  /\ \A c \in Copy : net[c].key # 0 /\ net[c].st \in {"committed", "answered"} => net[c].key \in done
  /\ settled \subseteq done

Base == TypeOK /\ Keyed /\ Listening /\ Mounted /\ Named /\ InOrder /\ Executed

(* Layer 1 holds initially. *)
LEMMA BaseInit == DeliveryInit => Base
<1> SUFFICES ASSUME DeliveryInit PROVE Base
  OBVIOUS
<1>1. TypeOK
  <2>1. /\ NoScreen \in Screens /\ NoLoad \in Loads /\ Idle \in Mutations /\ Free \in Requests
        /\ [result |-> "none", ver |-> 0] \in Attempts
        /\ [state |-> "assigned", ver |-> 1] \in Assignments
        /\ 0 \in 0..MaxAttempt /\ 0 \in 0..MaxFaults
    BY EmptyScreen, IdleMutation, FreeRequest, DeliveryAssumption
       DEF NoLoad, Loads, Attempts, Assignments, State
  <2> QED BY <2>1 DEF DeliveryInit, TypeOK
<1>2. Keyed /\ Listening
  BY IdleMutation, FreeRequest DEF DeliveryInit, Keyed, Listening, Activity
<1>3. Mounted
  BY EmptyScreen DEF DeliveryInit, Mounted, NoLoad, Activity
<1>4. Used = {}
  BY DEF DeliveryInit, Used
<1>5. Named /\ InOrder /\ Executed
  BY <1>4, IdleMutation, FreeRequest, EmptyScreen DEF DeliveryInit, Named, InOrder, Executed
<1> QED BY <1>1, <1>2, <1>3, <1>5 DEF Base

(* Keep, when it goes on. *)
KeepsNew(a) ==
  \E k \in Attempt :
    /\ attempt[k].ver = 0 /\ \A j \in Attempt \ Used : k <= j
    /\ attempt' \in [Attempt -> Attempts]
    /\ attempt'[k].ver = op[a].ver /\ attempt'[k].result = op[a].result
    /\ \A i \in Attempt \ {k} : attempt'[i] = attempt[i]
    /\ stored' = k /\ At(a, "kept", op[a].kind, k)

(* Every step keeps layer 1. *)
LEMMA BaseStep == Base /\ [DeliveryNext]_deliveryVars => Base'
<1> SUFFICES ASSUME Base, [DeliveryNext]_deliveryVars PROVE Base'
  OBVIOUS
<1>0. /\ op \in [Activity -> Mutations] /\ net \in [Copy -> Requests]
      /\ screen \in Screens /\ load \in Loads /\ signedIn \in BOOLEAN
      /\ stored \in 0..MaxAttempt /\ attempt \in [Attempt -> Attempts]
      /\ assignment \in Assignments /\ done \subseteq Attempt /\ settled \subseteq Attempt
      /\ crossed \in BOOLEAN /\ faults \in 0..MaxFaults
  BY DEF Base, TypeOK
<1>v. /\ 0 \in 0..MaxAttempt /\ 0 \in 0..MaxFaults /\ Activity = {"cur", "old"}
      /\ assignment.ver \in Nat /\ assignment.ver # 0 /\ \A k \in Attempt : attempt[k].ver \in Nat
  BY <1>0, DeliveryAssumption DEF Activity, Assignments, Attempts
<1>b. Keyed /\ Listening /\ Mounted /\ Named /\ InOrder /\ Executed
  BY DEF Base
<1>i. /\ Idle \in Mutations /\ Idle.pc = "idle" /\ Idle.key = 0
      /\ Free \in Requests /\ Free.st = "free" /\ Free.key = 0 /\ Free.to = "none"
      /\ "cur" \in Activity /\ "old" \in Activity /\ "cur" # "old" /\ "none" \notin Activity
      /\ NoLoad \in Loads /\ NoLoad.pc = "none"
  BY IdleMutation, FreeRequest DEF Activity, NoLoad, Loads
<1>1. CASE Open \/ Reread
  <2>1. /\ EmptiedScreen
        /\ screen'.open
        /\ load' \in Loads
        /\ load'.pc = "token"
        /\ ~load'.quiet
        /\ ~screen.open \/ ~screen.loaded
    BY <1>0, <1>1, OpenEffect DEF Open, Reread
  <2>2. UNCHANGED <<op, net, signedIn, stored, attempt, assignment, done, settled, crossed, faults>>
    BY <1>1 DEF Open, Reread, server, phone
  <2>3. TypeOK'
    <3>1. screen' \in Screens
      BY <1>0, <1>v, <1>i, <2>1 DEF EmptiedScreen
    <3>2. load' \in Loads
      BY <1>0, <1>v, <1>i, <2>1 DEF EmptiedScreen, Loads
    <3> QED BY <1>0, <2>2, <3>1, <3>2 DEF TypeOK
  <2>4. Keyed'
    BY <1>b, <2>2 DEF Keyed
  <2>5. Listening'
    BY <1>b, <2>2 DEF Listening
  <2>6. Mounted'
    BY <1>0, <1>v, <1>b, <1>i, <2>1, <2>2 DEF Mounted, EmptiedScreen
  <2>7. Named'
    BY <1>0, <1>v, <1>b, <1>i, <2>1, <2>2 DEF Named, EmptiedScreen, Used
  <2>8. InOrder'
    BY <1>b, <2>2 DEF InOrder, Used
  <2>9. Executed'
    BY <1>b, <2>2 DEF Executed, Used
  <2> QED BY <2>3, <2>4, <2>5, <2>6, <2>7, <2>8, <2>9 DEF Base
<1>2. CASE Leave \/ SignOut
  <2>1. /\ LeftOp
        /\ LeftNet
        /\ EmptiedScreen
        /\ load' = NoLoad
    BY <1>0, <1>2, UnmountedEffect DEF Leave, SignOut
  <2>2. UNCHANGED <<stored, attempt, assignment, done, settled, crossed>>
    BY <1>2 DEF Leave, SignOut, server, phone
  <2>3. TypeOK'
    <3>1. op' \in [Activity -> Mutations]
      BY <1>0, <1>v, <1>i, <2>1 DEF LeftOp, LeftNet, EmptiedScreen, NoLoad
    <3>2. net' \in [Copy -> Requests]
      BY <1>0, <1>v, <1>i, <2>1 DEF LeftOp, LeftNet, EmptiedScreen, NoLoad
    <3>3. screen' \in Screens
      BY <1>0, <1>v, <1>i, <2>1 DEF LeftOp, LeftNet, EmptiedScreen, NoLoad
    <3>4. load' \in Loads
      BY <1>0, <1>v, <1>i, <2>1 DEF LeftOp, LeftNet, EmptiedScreen, NoLoad, Loads
    <3>5. signedIn' \in BOOLEAN
      BY <1>0, <1>2 DEF Leave, SignOut
    <3>6. faults' \in 0..MaxFaults
      <4>1. Fault \/ faults' = faults
        BY <1>2 DEF Leave, SignOut, NoFault
      <4> QED BY <1>0, <4>1, DeliveryAssumption DEF Fault
    <3> QED BY <1>0, <2>2, <3>1, <3>2, <3>3, <3>4, <3>5, <3>6 DEF TypeOK
  <2>4. Keyed'
    BY <1>0, <1>v, <1>b, <1>i, <2>1, <2>2 DEF Keyed, LeftOp, LeftNet, EmptiedScreen, NoLoad
  <2>5. Listening'
    BY <1>0, <1>v, <1>b, <1>i, <2>1, <2>2 DEF Listening, LeftOp, LeftNet, EmptiedScreen, NoLoad
  <2>6. Mounted'
    BY <1>0, <1>v, <1>b, <1>i, <2>1, <2>2 DEF Mounted, LeftOp, LeftNet, EmptiedScreen, NoLoad
  <2>7. Named'
    BY <1>0, <1>v, <1>b, <1>i, <2>1, <2>2 DEF Named, LeftOp, LeftNet, EmptiedScreen, NoLoad, Used
  <2>8. InOrder'
    BY <1>b, <2>2 DEF InOrder, Used
  <2>9. Executed'
    BY <1>0, <1>v, <1>b, <1>i, <2>1, <2>2 DEF Executed, LeftOp, LeftNet, EmptiedScreen, NoLoad, Used
  <2> QED BY <2>3, <2>4, <2>5, <2>6, <2>7, <2>8, <2>9 DEF Base
<1>3. CASE SignIn
  <2>1. signedIn' = TRUE
    BY <1>0, <1>3 DEF SignIn
  <2>2. UNCHANGED <<op, net, screen, load, stored, attempt, assignment, done, settled, crossed,
     faults>>
    BY <1>3 DEF SignIn, server, phone
  <2>3. TypeOK'
    <3>1. signedIn' \in BOOLEAN
      BY <1>0, <1>3 DEF SignIn
    <3> QED BY <1>0, <2>2, <3>1 DEF TypeOK
  <2>4. Keyed'
    BY <1>b, <2>2 DEF Keyed
  <2>5. Listening'
    BY <1>b, <2>2 DEF Listening
  <2>6. Mounted'
    BY <1>0, <1>v, <1>b, <1>i, <2>1, <2>2 DEF Mounted
  <2>7. Named'
    BY <1>b, <2>2 DEF Named, Used
  <2>8. InOrder'
    BY <1>b, <2>2 DEF InOrder, Used
  <2>9. Executed'
    BY <1>b, <2>2 DEF Executed, Used
  <2> QED BY <2>3, <2>4, <2>5, <2>6, <2>7, <2>8, <2>9 DEF Base
<1>4. CASE Kill
  <2>1. /\ op' \in [Activity -> Mutations]
        /\ \A a \in Activity : op'[a] = Idle
        /\ DeafNet(Copy)
        /\ EmptiedScreen
        /\ load' = NoLoad
    BY <1>0, <1>4, KillEffect
  <2>2. UNCHANGED <<signedIn, stored, attempt, assignment, done, settled, crossed>>
    BY <1>4 DEF Kill, server, phone
  <2>3. TypeOK'
    <3>1. op' \in [Activity -> Mutations]
      BY <1>0, <1>v, <1>i, <2>1 DEF DeafNet, EmptiedScreen, NoLoad
    <3>2. net' \in [Copy -> Requests]
      BY <1>0, <1>v, <1>i, <2>1 DEF DeafNet, EmptiedScreen, NoLoad
    <3>3. screen' \in Screens
      BY <1>0, <1>v, <1>i, <2>1 DEF DeafNet, EmptiedScreen, NoLoad
    <3>4. load' \in Loads
      BY <1>0, <1>v, <1>i, <2>1 DEF DeafNet, EmptiedScreen, NoLoad, Loads
    <3>5. faults' \in 0..MaxFaults
      <4>1. Fault \/ faults' = faults
        BY <1>4 DEF Kill, NoFault
      <4> QED BY <1>0, <4>1, DeliveryAssumption DEF Fault
    <3> QED BY <1>0, <2>2, <3>1, <3>2, <3>3, <3>4, <3>5 DEF TypeOK
  <2>4. Keyed'
    BY <1>0, <1>v, <1>b, <1>i, <2>1, <2>2 DEF Keyed, DeafNet, EmptiedScreen, NoLoad
  <2>5. Listening'
    BY <1>0, <1>v, <1>b, <1>i, <2>1, <2>2 DEF Listening, DeafNet, EmptiedScreen, NoLoad
  <2>6. Mounted'
    BY <1>0, <1>v, <1>b, <1>i, <2>1, <2>2 DEF Mounted, DeafNet, EmptiedScreen, NoLoad
  <2>7. Named'
    BY <1>0, <1>v, <1>b, <1>i, <2>1, <2>2 DEF Named, DeafNet, EmptiedScreen, NoLoad, Used
  <2>8. InOrder'
    BY <1>b, <2>2 DEF InOrder, Used
  <2>9. Executed'
    BY <1>0, <1>v, <1>b, <1>i, <2>1, <2>2 DEF Executed, DeafNet, EmptiedScreen, NoLoad, Used
  <2> QED BY <2>3, <2>4, <2>5, <2>6, <2>7, <2>8, <2>9 DEF Base
<1>5. CASE Poll
  <2>1. /\ load' = [pc |-> "token", quiet |-> TRUE]
        /\ screen.open
    BY <1>0, <1>5 DEF Poll
  <2>2. UNCHANGED <<op, net, screen, signedIn, stored, attempt, assignment, done, settled,
     crossed, faults>>
    BY <1>5 DEF Poll, server, phone
  <2>3. TypeOK'
    <3>1. load' \in Loads
      BY <1>0, <1>v, <1>i, <2>1 DEF Loads
    <3> QED BY <1>0, <2>2, <3>1 DEF TypeOK
  <2>4. Keyed'
    BY <1>b, <2>2 DEF Keyed
  <2>5. Listening'
    BY <1>b, <2>2 DEF Listening
  <2>6. Mounted'
    BY <1>0, <1>v, <1>b, <1>i, <2>1, <2>2 DEF Mounted
  <2>7. Named'
    BY <1>b, <2>2 DEF Named, Used
  <2>8. InOrder'
    BY <1>b, <2>2 DEF InOrder, Used
  <2>9. Executed'
    BY <1>b, <2>2 DEF Executed, Used
  <2> QED BY <2>3, <2>4, <2>5, <2>6, <2>7, <2>8, <2>9 DEF Base
<1>6. CASE LoadStored
  <2>1. /\ screen' \in Screens
        /\ screen'.open = screen.open
        /\ screen'.loaded
        /\ screen'.pending = stored
        /\ screen'.state = screen.state
        /\ screen'.ver = screen.ver
        /\ load' \in Loads
        /\ load'.pc = "list"
        /\ load.pc = "token"
        /\ signedIn
    BY <1>0, <1>6, LoadStoredEffect DEF LoadStored
  <2>2. UNCHANGED <<op, net, signedIn, stored, attempt, assignment, done, settled, faults>>
    BY <1>6 DEF LoadStored, server, phone
  <2>3. TypeOK'
    <3>1. screen' \in Screens
      BY <1>0, <1>v, <1>i, <2>1
    <3>2. load' \in Loads
      BY <1>0, <1>v, <1>i, <2>1 DEF Loads
    <3>3. crossed' \in BOOLEAN
      BY <1>0, <1>6 DEF LoadStored, Running
    <3> QED BY <1>0, <2>2, <3>1, <3>2, <3>3 DEF TypeOK
  <2>4. Keyed'
    BY <1>b, <2>2 DEF Keyed
  <2>5. Listening'
    BY <1>b, <2>2 DEF Listening
  <2>6. Mounted'
    BY <1>0, <1>v, <1>b, <1>i, <2>1, <2>2 DEF Mounted
  <2>7. Named'
    BY <1>0, <1>v, <1>b, <1>i, <2>1, <2>2 DEF Named, Used
  <2>8. InOrder'
    BY <1>b, <2>2 DEF InOrder, Used
  <2>9. Executed'
    BY <1>b, <2>2 DEF Executed, Used
  <2> QED BY <2>3, <2>4, <2>5, <2>6, <2>7, <2>8, <2>9 DEF Base
<1>7. CASE LoadList
  <2>1. /\ screen' \in Screens
        /\ screen'.open = screen.open
        /\ screen'.loaded = screen.loaded
        /\ screen'.pending = screen.pending
        /\ screen'.ver = assignment.ver
        /\ load' \in Loads
        /\ load'.pc = "task"
        /\ load.pc = "list"
    BY <1>0, <1>7, LoadListEffect DEF LoadList
  <2>2. UNCHANGED <<op, net, signedIn, stored, attempt, assignment, done, settled, crossed, faults>>
    BY <1>7 DEF LoadList, server, phone
  <2>3. TypeOK'
    <3>1. screen' \in Screens
      BY <1>0, <1>v, <1>i, <2>1
    <3>2. load' \in Loads
      BY <1>0, <1>v, <1>i, <2>1 DEF Loads
    <3> QED BY <1>0, <2>2, <3>1, <3>2 DEF TypeOK
  <2>4. Keyed'
    BY <1>b, <2>2 DEF Keyed
  <2>5. Listening'
    BY <1>b, <2>2 DEF Listening
  <2>6. Mounted'
    BY <1>0, <1>v, <1>b, <1>i, <2>1, <2>2 DEF Mounted
  <2>7. Named'
    BY <1>0, <1>v, <1>b, <1>i, <2>1, <2>2 DEF Named, Used
  <2>8. InOrder'
    BY <1>b, <2>2 DEF InOrder, Used
  <2>9. Executed'
    BY <1>b, <2>2 DEF Executed, Used
  <2> QED BY <2>3, <2>4, <2>5, <2>6, <2>7, <2>8, <2>9 DEF Base
<1>8. CASE LoadTask
  <2>1. /\ SameScreen
        /\ load' = NoLoad
    BY <1>0, <1>8, LoadTaskEffect
  <2>2. UNCHANGED <<op, net, signedIn, stored, attempt, assignment, done, settled, crossed, faults>>
    BY <1>8 DEF LoadTask, server, phone
  <2>3. TypeOK'
    <3>1. screen' \in Screens
      BY <1>0, <1>v, <1>i, <2>1 DEF SameScreen, NoLoad
    <3>2. load' \in Loads
      BY <1>0, <1>v, <1>i, <2>1 DEF SameScreen, NoLoad, Loads
    <3> QED BY <1>0, <2>2, <3>1, <3>2 DEF TypeOK
  <2>4. Keyed'
    BY <1>b, <2>2 DEF Keyed
  <2>5. Listening'
    BY <1>b, <2>2 DEF Listening
  <2>6. Mounted'
    BY <1>0, <1>v, <1>b, <1>i, <2>1, <2>2 DEF Mounted, SameScreen, NoLoad
  <2>7. Named'
    BY <1>0, <1>v, <1>b, <1>i, <2>1, <2>2 DEF Named, SameScreen, NoLoad, Used
  <2>8. InOrder'
    BY <1>b, <2>2 DEF InOrder, Used
  <2>9. Executed'
    BY <1>b, <2>2 DEF Executed, Used
  <2> QED BY <2>3, <2>4, <2>5, <2>6, <2>7, <2>8, <2>9 DEF Base
<1>9. CASE LoadFails
  <2>1. /\ screen' \in Screens
        /\ screen'.open = screen.open
        /\ screen'.loaded = screen.loaded
        /\ screen'.pending = screen.pending
        /\ screen'.state = "none" \/ (screen'.state = screen.state /\ screen'.ver = screen.ver)
        /\ load' = NoLoad
    BY <1>0, <1>9, LoadFailsEffect
  <2>2. UNCHANGED <<op, net, signedIn, stored, attempt, assignment, done, settled, crossed>>
    BY <1>9 DEF LoadFails, server, phone
  <2>3. TypeOK'
    <3>1. screen' \in Screens
      BY <1>0, <1>v, <1>i, <2>1 DEF NoLoad
    <3>2. load' \in Loads
      BY <1>0, <1>v, <1>i, <2>1 DEF NoLoad, Loads
    <3>3. faults' \in 0..MaxFaults
      <4>1. Fault \/ faults' = faults
        BY <1>9 DEF LoadFails, NoFault
      <4> QED BY <1>0, <4>1, DeliveryAssumption DEF Fault
    <3> QED BY <1>0, <2>2, <3>1, <3>2, <3>3 DEF TypeOK
  <2>4. Keyed'
    BY <1>b, <2>2 DEF Keyed
  <2>5. Listening'
    BY <1>b, <2>2 DEF Listening
  <2>6. Mounted'
    BY <1>0, <1>v, <1>b, <1>i, <2>1, <2>2 DEF Mounted, NoLoad
  <2>7. Named'
    BY <1>0, <1>v, <1>b, <1>i, <2>1, <2>2 DEF Named, NoLoad, Used
  <2>8. InOrder'
    BY <1>b, <2>2 DEF InOrder, Used
  <2>9. Executed'
    BY <1>b, <2>2 DEF Executed, Used
  <2> QED BY <2>3, <2>4, <2>5, <2>6, <2>7, <2>8, <2>9 DEF Base
<1>10. CASE Button
  <2>1. /\ SameScreen
        /\ screen.loaded
        /\ op["cur"] = Idle
        /\ \/ At("cur", "kept", "pickup", 0)
           \/ At("cur", "token", "complete",
              0) /\ op'["cur"].ver = screen.ver /\ op'["cur"].result # "none" /\ screen.state # "none"
           \/ screen.pending # 0 /\ (At("cur", "kept", "retry", screen.pending) \/ At("cur",
              "read", "replace", screen.pending))
    BY <1>0, <1>10, ButtonFrame, BeginEffect DEF Button, complete, CanAct, CanResume,
       retryPendingCompletion, replaceRejectedCompletion, Result
  <2>2. UNCHANGED <<net, load, signedIn, stored, attempt, assignment, done, settled, crossed,
     faults>>
    BY <1>0, <1>10, ButtonFrame DEF server
  <2>3. TypeOK'
    <3>1. op' \in [Activity -> Mutations]
      BY <1>0, <1>v, <1>i, <2>1 DEF SameScreen, At, Mounted
    <3>2. screen' \in Screens
      BY <1>0, <1>v, <1>i, <2>1 DEF SameScreen, At, Mounted
    <3> QED BY <1>0, <2>2, <3>1, <3>2 DEF TypeOK
  <2>4. Keyed'
    BY <1>0, <1>v, <1>b, <1>i, <2>1, <2>2 DEF Keyed, SameScreen, At, Mounted
  <2>5. Listening'
    BY <1>0, <1>v, <1>b, <1>i, <2>1, <2>2 DEF Listening, SameScreen, At, Mounted
  <2>6. Mounted'
    BY <1>0, <1>v, <1>b, <1>i, <2>1, <2>2 DEF Mounted, SameScreen, At
  <2>7. Named'
    BY <1>0, <1>v, <1>b, <1>i, <2>1, <2>2 DEF Named, SameScreen, At, Mounted, Used
  <2>8. InOrder'
    BY <1>b, <2>2 DEF InOrder, Used
  <2>9. Executed'
    BY <1>b, <2>2 DEF Executed, Used
  <2> QED BY <2>3, <2>4, <2>5, <2>6, <2>7, <2>8, <2>9 DEF Base
<1>11. ASSUME NEW a \in Activity, Keep(a) PROVE Base'
  <2>1. /\ op[a].pc = "token"
        /\ SameScreen
        /\ \/ KeepsNew(a)
           \/ Ended(a) /\ UNCHANGED <<stored, attempt>>
    BY <1>0, <1>11, KeepEffect DEF KeepsNew
  <2>2. UNCHANGED <<net, load, signedIn, assignment, done, settled, crossed>>
    BY <1>11 DEF Keep, server, phone
  <2>3. TypeOK'
    <3>1. op' \in [Activity -> Mutations]
      BY <1>0, <1>v, <1>i, <2>1 DEF SameScreen, KeepsNew, At, Ended, Attempt
    <3>2. screen' \in Screens
      BY <1>0, <1>v, <1>i, <2>1 DEF SameScreen, KeepsNew, At, Ended, Attempt
    <3>3. stored' \in 0..MaxAttempt
      BY <1>0, <1>v, <1>i, <2>1 DEF SameScreen, KeepsNew, At, Ended, Attempt
    <3>4. attempt' \in [Attempt -> Attempts]
      BY <1>0, <1>v, <1>i, <2>1 DEF SameScreen, KeepsNew, At, Ended, Attempt
    <3>5. faults' \in 0..MaxFaults
      <4>1. Fault \/ faults' = faults
        BY <1>11 DEF Keep, NoFault
      <4> QED BY <1>0, <4>1, DeliveryAssumption DEF Fault
    <3> QED BY <1>0, <2>2, <3>1, <3>2, <3>3, <3>4, <3>5 DEF TypeOK
  <2>4. Keyed'
    BY <1>0, <1>v, <1>b, <1>i, <2>1, <2>2 DEF Keyed, SameScreen, KeepsNew, At, Ended, Attempt
  <2>5. Listening'
    BY <1>0, <1>v, <1>b, <1>i, <2>1, <2>2 DEF Listening, SameScreen, KeepsNew, At, Ended, Attempt
  <2>6. Mounted'
    BY <1>0, <1>v, <1>b, <1>i, <2>1, <2>2 DEF Mounted, SameScreen, KeepsNew, At, Ended, Attempt
  <2>7. Named'
    <3>0. CASE Ended(a) /\ UNCHANGED <<stored, attempt>>
      BY <1>0, <1>b, <1>i, <2>1, <2>2, <3>0 DEF Named, Ended, SameScreen, Used
    <3>1. CASE KeepsNew(a)
      <4>1. PICK k \in Attempt :
              /\ attempt[k].ver = 0 /\ \A j \in Attempt \ Used : k <= j
              /\ attempt' \in [Attempt -> Attempts]
              /\ attempt'[k].ver = op[a].ver /\ attempt'[k].result = op[a].result
              /\ \A i \in Attempt \ {k} : attempt'[i] = attempt[i]
              /\ stored' = k /\ At(a, "kept", op[a].kind, k)
        BY <3>1 DEF KeepsNew
      <4>2. op[a].ver # 0 /\ op[a].result # "none"
        BY <1>b, <2>1 DEF Keyed
      <4>3. Used' = Used \union {k} /\ k \notin Used
        BY <4>1, <4>2 DEF Used
      <4> QED BY <1>b, <2>1, <2>2, <4>1, <4>3 DEF Named, At, SameScreen
    <3> QED BY <2>1, <3>0, <3>1
  <2>8. InOrder'
    <3>0. CASE Ended(a) /\ UNCHANGED <<stored, attempt>>
      BY <1>0, <1>b, <1>i, <2>1, <2>2, <3>0 DEF InOrder, Ended, SameScreen, Used
    <3>1. CASE KeepsNew(a)
      <4>1. PICK k \in Attempt :
              /\ attempt[k].ver = 0 /\ \A j \in Attempt \ Used : k <= j
              /\ attempt' \in [Attempt -> Attempts]
              /\ attempt'[k].ver = op[a].ver /\ attempt'[k].result = op[a].result
              /\ \A i \in Attempt \ {k} : attempt'[i] = attempt[i]
              /\ stored' = k /\ At(a, "kept", op[a].kind, k)
        BY <3>1 DEF KeepsNew
      <4>2. op[a].ver # 0 /\ op[a].result # "none"
        BY <1>b, <2>1 DEF Keyed
      <4>3. Used' = Used \union {k} /\ k \notin Used
        BY <4>1, <4>2 DEF Used
      <4>4. \A j \in Used : attempt'[j].result # "none"
        BY <1>b, <4>1, <4>3 DEF InOrder, Used
      <4>5. \A i \in Attempt : i < k => i \in Used
        BY <4>1 DEF Attempt
      <4>6. \A j \in Used, i \in Attempt : i < j => i \in Used
        BY <1>b DEF InOrder
      <4> QED BY <4>1, <4>2, <4>3, <4>4, <4>5, <4>6 DEF InOrder
    <3> QED BY <2>1, <3>0, <3>1
  <2>9. Executed'
    <3>0. CASE Ended(a) /\ UNCHANGED <<stored, attempt>>
      BY <1>0, <1>b, <1>i, <2>1, <2>2, <3>0 DEF Executed, Ended, SameScreen, Used
    <3>1. CASE KeepsNew(a)
      <4>1. PICK k \in Attempt :
              /\ attempt[k].ver = 0 /\ \A j \in Attempt \ Used : k <= j
              /\ attempt' \in [Attempt -> Attempts]
              /\ attempt'[k].ver = op[a].ver /\ attempt'[k].result = op[a].result
              /\ \A i \in Attempt \ {k} : attempt'[i] = attempt[i]
              /\ stored' = k /\ At(a, "kept", op[a].kind, k)
        BY <3>1 DEF KeepsNew
      <4>2. op[a].ver # 0 /\ op[a].result # "none"
        BY <1>b, <2>1 DEF Keyed
      <4>3. Used' = Used \union {k} /\ k \notin Used
        BY <4>1, <4>2 DEF Used
      <4>4. \A j \in done : attempt'[j] = attempt[j]
        BY <1>0, <1>b, <4>1, <4>3 DEF Executed
      <4> QED BY <1>b, <2>2, <4>3, <4>4 DEF Executed
    <3> QED BY <2>1, <3>0, <3>1
  <2> QED BY <2>3, <2>4, <2>5, <2>6, <2>7, <2>8, <2>9 DEF Base
<1>12. ASSUME NEW a \in Activity, Send(a) PROVE Base'
  <2>1. /\ op[a].pc = "kept"
        /\ screen' \in Screens
        /\ screen'.open = screen.open
        /\ screen'.loaded = screen.loaded
        /\ screen'.state = screen.state
        /\ screen'.ver = screen.ver
        /\ screen'.pending \in {screen.pending, op[a].key}
        /\ \/ SentNet(a, op[a].key) /\ At(a, "wait", op[a].kind, op[a].key)
           \/ Ended(a) /\ UNCHANGED net
    BY <1>0, <1>12, SendEffect DEF SameScreen
  <2>2. UNCHANGED <<load, signedIn, stored, attempt, assignment, done, settled, crossed>>
    BY <1>12 DEF Send, server, phone
  <2>3. TypeOK'
    <3>1. op' \in [Activity -> Mutations]
      BY <1>0, <1>v, <1>i, <2>1 DEF SentNet, At, Ended
    <3>2. net' \in [Copy -> Requests]
      BY <1>0, <1>v, <1>i, <2>1 DEF SentNet, At, Ended
    <3>3. screen' \in Screens
      BY <1>0, <1>v, <1>i, <2>1 DEF SentNet, At, Ended
    <3>4. faults' \in 0..MaxFaults
      <4>1. Fault \/ faults' = faults
        BY <1>12 DEF Send, NoFault
      <4> QED BY <1>0, <4>1, DeliveryAssumption DEF Fault
    <3> QED BY <1>0, <2>2, <3>1, <3>2, <3>3, <3>4 DEF TypeOK
  <2>4. Keyed'
    BY <1>0, <1>v, <1>b, <1>i, <2>1, <2>2 DEF Keyed, SentNet, At, Ended
  <2>5. Listening'
    BY <1>0, <1>v, <1>b, <1>i, <2>1, <2>2 DEF Listening, SentNet, At, Ended
  <2>6. Mounted'
    BY <1>0, <1>v, <1>b, <1>i, <2>1, <2>2 DEF Mounted, SentNet, At, Ended
  <2>7. Named'
    BY <1>0, <1>v, <1>b, <1>i, <2>1, <2>2 DEF Named, SentNet, At, Ended, Used
  <2>8. InOrder'
    BY <1>b, <2>2 DEF InOrder, Used
  <2>9. Executed'
    BY <1>0, <1>v, <1>b, <1>i, <2>1, <2>2 DEF Executed, SentNet, At, Ended, Used
  <2> QED BY <2>3, <2>4, <2>5, <2>6, <2>7, <2>8, <2>9 DEF Base
<1>13. ASSUME NEW a \in Activity, GiveUp(a) PROVE Base'
  <2>1. /\ Ended(a)
        /\ DeafNet(To(a))
        /\ SameScreen
    BY <1>0, <1>13, GiveUpEffect
  <2>2. UNCHANGED <<load, signedIn, stored, attempt, assignment, done, settled, crossed>>
    BY <1>13 DEF GiveUp, server, phone
  <2>3. TypeOK'
    <3>1. op' \in [Activity -> Mutations]
      BY <1>0, <1>v, <1>i, <2>1 DEF Ended, DeafNet, To, SameScreen
    <3>2. net' \in [Copy -> Requests]
      BY <1>0, <1>v, <1>i, <2>1 DEF Ended, DeafNet, To, SameScreen
    <3>3. screen' \in Screens
      BY <1>0, <1>v, <1>i, <2>1 DEF Ended, DeafNet, To, SameScreen
    <3>4. faults' \in 0..MaxFaults
      <4>1. Fault \/ faults' = faults
        BY <1>13 DEF GiveUp, NoFault
      <4> QED BY <1>0, <4>1, DeliveryAssumption DEF Fault
    <3> QED BY <1>0, <2>2, <3>1, <3>2, <3>3, <3>4 DEF TypeOK
  <2>4. Keyed'
    BY <1>0, <1>v, <1>b, <1>i, <2>1, <2>2 DEF Keyed, Ended, DeafNet, To, SameScreen
  <2>5. Listening'
    BY <1>0, <1>v, <1>b, <1>i, <2>1, <2>2 DEF Listening, Ended, DeafNet, To, SameScreen
  <2>6. Mounted'
    BY <1>0, <1>v, <1>b, <1>i, <2>1, <2>2 DEF Mounted, Ended, DeafNet, To, SameScreen
  <2>7. Named'
    BY <1>0, <1>v, <1>b, <1>i, <2>1, <2>2 DEF Named, Ended, DeafNet, To, SameScreen, Used
  <2>8. InOrder'
    BY <1>b, <2>2 DEF InOrder, Used
  <2>9. Executed'
    BY <1>0, <1>v, <1>b, <1>i, <2>1, <2>2 DEF Executed, Ended, DeafNet, To, SameScreen, Used
  <2> QED BY <2>3, <2>4, <2>5, <2>6, <2>7, <2>8, <2>9 DEF Base
<1>14. ASSUME NEW a \in Activity, NEW c \in Copy, Receive(a, c) PROVE Base'
  <2>1. /\ Ended(a)
        /\ FreedNet(c)
        /\ net[c].to = a
        /\ op[a].pc = "wait"
        /\ stored' \in {0, stored}
        /\ settled' \subseteq settled \union done
        /\ \/ SameScreen /\ load' = load
           \/ a = "cur" /\ EmptiedScreen /\ screen'.open = screen.open /\ load' \in Loads /\ load'.pc = "token" /\ ~load'.quiet
    <3>1. net[c].to = a /\ op[a].key = net[c].key
      BY <1>b, <1>14, ReceiveEffect, <1>0 DEF Listening
    <3>2. net[c].st = "answered" /\ op[a].key # 0 => op[a].key \in done
      BY <1>b, <3>1 DEF Executed
    <3> QED BY <1>0, <1>14, <3>2, ReceiveEffect DEF Refreshed
  <2>2. UNCHANGED <<signedIn, attempt, assignment, done, crossed>>
    BY <1>14 DEF Receive, server, phone
  <2>3. TypeOK'
    <3>1. op' \in [Activity -> Mutations]
      BY <1>0, <1>v, <1>i, <2>1 DEF Ended, FreedNet, SameScreen, EmptiedScreen
    <3>2. net' \in [Copy -> Requests]
      BY <1>0, <1>v, <1>i, <2>1 DEF Ended, FreedNet, SameScreen, EmptiedScreen
    <3>3. screen' \in Screens
      BY <1>0, <1>v, <1>i, <2>1 DEF Ended, FreedNet, SameScreen, EmptiedScreen
    <3>4. load' \in Loads
      BY <1>0, <1>v, <1>i, <2>1 DEF Ended, FreedNet, SameScreen, EmptiedScreen, Loads
    <3>5. stored' \in 0..MaxAttempt
      BY <1>0, <1>v, <1>i, <2>1 DEF Ended, FreedNet, SameScreen, EmptiedScreen
    <3>6. settled' \subseteq Attempt
      BY <1>0, <1>v, <1>i, <2>1 DEF Ended, FreedNet, SameScreen, EmptiedScreen
    <3>7. faults' \in 0..MaxFaults
      <4>1. Fault \/ faults' = faults
        BY <1>14 DEF Receive, NoFault
      <4> QED BY <1>0, <4>1, DeliveryAssumption DEF Fault
    <3> QED BY <1>0, <2>2, <3>1, <3>2, <3>3, <3>4, <3>5, <3>6, <3>7 DEF TypeOK
  <2>4. Keyed'
    BY <1>0, <1>v, <1>b, <1>i, <2>1, <2>2 DEF Keyed, Ended, FreedNet, SameScreen, EmptiedScreen
  <2>5. Listening'
    BY <1>0, <1>v, <1>b, <1>i, <2>1, <2>2 DEF Listening, Ended, FreedNet, SameScreen, EmptiedScreen
  <2>6. Mounted'
    BY <1>0, <1>v, <1>b, <1>i, <2>1, <2>2 DEF Mounted, Ended, FreedNet, SameScreen, EmptiedScreen
  <2>7. Named'
    BY <1>0, <1>v, <1>b, <1>i, <2>1, <2>2 DEF Named, Ended, FreedNet, SameScreen, EmptiedScreen,
       Used
  <2>8. InOrder'
    BY <1>b, <2>2 DEF InOrder, Used
  <2>9. Executed'
    BY <1>0, <1>v, <1>b, <1>i, <2>1, <2>2 DEF Executed, Ended, FreedNet, SameScreen,
       EmptiedScreen, Used
  <2> QED BY <2>3, <2>4, <2>5, <2>6, <2>7, <2>8, <2>9 DEF Base
<1>15. ASSUME NEW a \in Activity, ReadForReplace(a) PROVE Base'
  <2>1. /\ op[a].pc = "read"
        /\ At(a, "seen", op[a].kind, op[a].key) \/ Ended(a)
    BY <1>0, <1>15, ReadForReplaceEffect
  <2>2. UNCHANGED <<net, screen, load, signedIn, stored, attempt, assignment, done, settled>>
    BY <1>15 DEF ReadForReplace, server, phone
  <2>3. TypeOK'
    <3>1. op' \in [Activity -> Mutations]
      BY <1>0, <1>v, <1>i, <2>1 DEF At, Ended
    <3>2. crossed' \in BOOLEAN
      BY <1>0, <1>15 DEF ReadForReplace, Running
    <3>3. faults' \in 0..MaxFaults
      <4>1. Fault \/ faults' = faults
        BY <1>15 DEF ReadForReplace, NoFault
      <4> QED BY <1>0, <4>1, DeliveryAssumption DEF Fault
    <3> QED BY <1>0, <2>2, <3>1, <3>2, <3>3 DEF TypeOK
  <2>4. Keyed'
    BY <1>0, <1>v, <1>b, <1>i, <2>1, <2>2 DEF Keyed, At, Ended
  <2>5. Listening'
    BY <1>0, <1>v, <1>b, <1>i, <2>1, <2>2 DEF Listening, At, Ended
  <2>6. Mounted'
    BY <1>0, <1>v, <1>b, <1>i, <2>1, <2>2 DEF Mounted, At, Ended
  <2>7. Named'
    BY <1>0, <1>v, <1>b, <1>i, <2>1, <2>2 DEF Named, At, Ended, Used
  <2>8. InOrder'
    BY <1>b, <2>2 DEF InOrder, Used
  <2>9. Executed'
    BY <1>b, <2>2 DEF Executed, Used
  <2> QED BY <2>3, <2>4, <2>5, <2>6, <2>7, <2>8, <2>9 DEF Base
<1>16. ASSUME NEW a \in Activity, Replace(a) PROVE Base'
  <2>1. /\ op[a].pc = "seen"
        /\ Ended(a)
        /\ stored' \in {0, stored}
        /\ \/ SameScreen /\ load' = load
           \/ a = "cur" /\ EmptiedScreen /\ screen'.open = screen.open /\ load' \in Loads /\ load'.pc = "token" /\ ~load'.quiet
    BY <1>0, <1>16, ReplaceEffect DEF Refreshed
  <2>2. UNCHANGED <<net, signedIn, attempt, assignment, done, settled, crossed>>
    BY <1>16 DEF Replace, server, phone
  <2>3. TypeOK'
    <3>1. op' \in [Activity -> Mutations]
      BY <1>0, <1>v, <1>i, <2>1 DEF Ended, SameScreen, EmptiedScreen
    <3>2. screen' \in Screens
      BY <1>0, <1>v, <1>i, <2>1 DEF Ended, SameScreen, EmptiedScreen
    <3>3. load' \in Loads
      BY <1>0, <1>v, <1>i, <2>1 DEF Ended, SameScreen, EmptiedScreen, Loads
    <3>4. stored' \in 0..MaxAttempt
      BY <1>0, <1>v, <1>i, <2>1 DEF Ended, SameScreen, EmptiedScreen
    <3>5. faults' \in 0..MaxFaults
      <4>1. Fault \/ faults' = faults
        BY <1>16 DEF Replace, NoFault
      <4> QED BY <1>0, <4>1, DeliveryAssumption DEF Fault
    <3> QED BY <1>0, <2>2, <3>1, <3>2, <3>3, <3>4, <3>5 DEF TypeOK
  <2>4. Keyed'
    BY <1>0, <1>v, <1>b, <1>i, <2>1, <2>2 DEF Keyed, Ended, SameScreen, EmptiedScreen
  <2>5. Listening'
    BY <1>0, <1>v, <1>b, <1>i, <2>1, <2>2 DEF Listening, Ended, SameScreen, EmptiedScreen
  <2>6. Mounted'
    BY <1>0, <1>v, <1>b, <1>i, <2>1, <2>2 DEF Mounted, Ended, SameScreen, EmptiedScreen
  <2>7. Named'
    BY <1>0, <1>v, <1>b, <1>i, <2>1, <2>2 DEF Named, Ended, SameScreen, EmptiedScreen, Used
  <2>8. InOrder'
    BY <1>b, <2>2 DEF InOrder, Used
  <2>9. Executed'
    BY <1>b, <2>2 DEF Executed, Used
  <2> QED BY <2>3, <2>4, <2>5, <2>6, <2>7, <2>8, <2>9 DEF Base
<1>17. CASE RecoverCaptainAssignment
  <2>1. /\ assignment' \in Assignments
        /\ assignment'.ver = assignment.ver + 1
    BY <1>0, <1>17, AssignmentFields, DeliveryAssumption DEF RecoverCaptainAssignment,
       Assignments, State
  <2>2. UNCHANGED <<op, net, screen, load, signedIn, stored, attempt, done, settled, crossed,
     faults>>
    BY <1>17 DEF RecoverCaptainAssignment, server, phone
  <2>3. TypeOK'
    <3>1. assignment' \in Assignments
      BY <1>0, <1>v, <1>i, <2>1
    <3> QED BY <1>0, <2>2, <3>1 DEF TypeOK
  <2>4. Keyed'
    BY <1>b, <2>2 DEF Keyed
  <2>5. Listening'
    BY <1>b, <2>2 DEF Listening
  <2>6. Mounted'
    BY <1>b, <2>2 DEF Mounted
  <2>7. Named'
    BY <1>b, <2>2 DEF Named, Used
  <2>8. InOrder'
    BY <1>b, <2>2 DEF InOrder, Used
  <2>9. Executed'
    BY <1>0, <1>v, <1>b, <1>i, <2>1, <2>2 DEF Executed, Used
  <2> QED BY <2>3, <2>4, <2>5, <2>6, <2>7, <2>8, <2>9 DEF Base
<1>18. ASSUME NEW c \in Copy, CompleteCaptainPickup(c) PROVE Base'
  <2>1. /\ net[c].key = 0
        /\ MovedNet(c, {"answered", "refused"})
        /\ \/ assignment' = assignment
           \/ assignment' \in Assignments /\ assignment'.ver = assignment.ver + 1
    BY <1>0, <1>18, PickupEffect
  <2>2. UNCHANGED <<op, screen, load, signedIn, stored, attempt, done, settled, crossed, faults>>
    BY <1>18 DEF CompleteCaptainPickup, server, phone
  <2>3. TypeOK'
    <3>1. net' \in [Copy -> Requests]
      BY <1>0, <1>v, <1>i, <2>1 DEF MovedNet
    <3>2. assignment' \in Assignments
      BY <1>0, <1>v, <1>i, <2>1 DEF MovedNet
    <3> QED BY <1>0, <2>2, <3>1, <3>2 DEF TypeOK
  <2>4. Keyed'
    BY <1>b, <2>2 DEF Keyed
  <2>5. Listening'
    BY <1>0, <1>v, <1>b, <1>i, <2>1, <2>2 DEF Listening, MovedNet
  <2>6. Mounted'
    BY <1>b, <2>2 DEF Mounted
  <2>7. Named'
    BY <1>0, <1>v, <1>b, <1>i, <2>1, <2>2 DEF Named, MovedNet, Used
  <2>8. InOrder'
    BY <1>b, <2>2 DEF InOrder, Used
  <2>9. Executed'
    BY <1>0, <1>v, <1>b, <1>i, <2>1, <2>2 DEF Executed, MovedNet, Used
  <2> QED BY <2>3, <2>4, <2>5, <2>6, <2>7, <2>8, <2>9 DEF Base
<1>19. ASSUME NEW c \in Copy, CompleteCaptainAssignment(c) PROVE Base'
  <2>1. /\ net[c].key \in Used
        /\ \/ net[c].key \in done /\ MovedNet(c, {"committed"}) /\ UNCHANGED server
           \/ /\ attempt[net[c].key].ver = assignment.ver /\ MovedNet(c, {"committed"})
              /\ done' = done \union {net[c].key}
              /\ assignment' \in Assignments /\ assignment'.ver = assignment.ver + 1
           \/ MovedNet(c, {"refused"}) /\ UNCHANGED server
    <3>1. net[c].key \in Attempt /\ net[c].key \in Used
      BY <1>0, <1>b, <1>19, CompletionEffect, DeliveryAssumption DEF Named, Attempt
    <3>2. attempt[net[c].key].result # "none"
      BY <1>b, <3>1 DEF InOrder
    <3>3. \/ net[c].key \in done /\ MovedNet(c, {"committed"}) /\ UNCHANGED server
          \/ /\ net[c].key \notin done /\ attempt[net[c].key].ver = assignment.ver
             /\ MovedNet(c, {"committed"}) /\ done' = done \union {net[c].key}
             /\ attempt[net[c].key].result = "none" \/ assignment' \in Assignments
             /\ assignment'.ver = assignment.ver + 1
          \/ MovedNet(c, {"refused"}) /\ UNCHANGED server
      BY <1>0, <1>19, CompletionEffect
    <3>4. CASE net[c].key \in done /\ MovedNet(c, {"committed"}) /\ UNCHANGED server
      BY <3>1, <3>4
    <3>5. CASE MovedNet(c, {"refused"}) /\ UNCHANGED server
      BY <3>1, <3>5
    <3>6. CASE /\ net[c].key \notin done /\ attempt[net[c].key].ver = assignment.ver
               /\ MovedNet(c, {"committed"}) /\ done' = done \union {net[c].key}
               /\ attempt[net[c].key].result = "none" \/ assignment' \in Assignments
               /\ assignment'.ver = assignment.ver + 1
      BY <3>1, <3>2, <3>6
    <3> QED BY <3>3, <3>4, <3>5, <3>6
  <2>2. UNCHANGED <<op, screen, load, signedIn, stored, attempt, settled, crossed, faults>>
    BY <1>19 DEF CompleteCaptainAssignment, server, phone
  <2>3. TypeOK'
    <3>1. net' \in [Copy -> Requests]
      BY <1>0, <1>v, <1>i, <2>1 DEF MovedNet, server
    <3>2. assignment' \in Assignments
      BY <1>0, <1>v, <1>i, <2>1 DEF MovedNet, server
    <3>3. done' \subseteq Attempt
      BY <1>0, <1>v, <1>i, <2>1 DEF MovedNet, server, Used
    <3> QED BY <1>0, <2>2, <3>1, <3>2, <3>3 DEF TypeOK
  <2>4. Keyed'
    BY <1>b, <2>2 DEF Keyed
  <2>5. Listening'
    BY <1>0, <1>v, <1>b, <1>i, <2>1, <2>2 DEF Listening, MovedNet, server
  <2>6. Mounted'
    BY <1>b, <2>2 DEF Mounted
  <2>7. Named'
    BY <1>0, <1>v, <1>b, <1>i, <2>1, <2>2 DEF Named, MovedNet, server, Used
  <2>8. InOrder'
    BY <1>b, <2>2 DEF InOrder, Used
  <2>9. Executed'
    BY <1>0, <1>v, <1>b, <1>i, <2>1, <2>2 DEF Executed, MovedNet, server, Used
  <2> QED BY <2>3, <2>4, <2>5, <2>6, <2>7, <2>8, <2>9 DEF Base
<1>20. ASSUME NEW c \in Copy, Respond(c) PROVE Base'
  <2>1. /\ net[c].st = "committed"
        /\ MovedNet(c, {"answered"})
    BY <1>0, <1>20, RespondEffect
  <2>2. UNCHANGED <<op, screen, load, signedIn, stored, attempt, assignment, done, settled,
     crossed, faults>>
    BY <1>20 DEF Respond, server, phone
  <2>3. TypeOK'
    <3>1. net' \in [Copy -> Requests]
      BY <1>0, <1>v, <1>i, <2>1 DEF MovedNet
    <3> QED BY <1>0, <2>2, <3>1 DEF TypeOK
  <2>4. Keyed'
    BY <1>b, <2>2 DEF Keyed
  <2>5. Listening'
    BY <1>0, <1>v, <1>b, <1>i, <2>1, <2>2 DEF Listening, MovedNet
  <2>6. Mounted'
    BY <1>b, <2>2 DEF Mounted
  <2>7. Named'
    BY <1>0, <1>v, <1>b, <1>i, <2>1, <2>2 DEF Named, MovedNet, Used
  <2>8. InOrder'
    BY <1>b, <2>2 DEF InOrder, Used
  <2>9. Executed'
    BY <1>0, <1>v, <1>b, <1>i, <2>1, <2>2 DEF Executed, MovedNet, Used
  <2> QED BY <2>3, <2>4, <2>5, <2>6, <2>7, <2>8, <2>9 DEF Base
<1>21. ASSUME NEW c \in Copy, Refuse(c) \/ Lose(c) PROVE Base'
  <2>1. MovedNet(c, {"refused"})
    BY <1>0, <1>21, LoseEffect
  <2>2. UNCHANGED <<op, screen, load, signedIn, stored, attempt, assignment, done, settled,
     crossed>>
    BY <1>21 DEF Refuse, Lose, server, phone
  <2>3. TypeOK'
    <3>1. net' \in [Copy -> Requests]
      BY <1>0, <1>v, <1>i, <2>1 DEF MovedNet
    <3>2. faults' \in 0..MaxFaults
      <4>1. Fault \/ faults' = faults
        BY <1>21 DEF Refuse, Lose, NoFault
      <4> QED BY <1>0, <4>1, DeliveryAssumption DEF Fault
    <3> QED BY <1>0, <2>2, <3>1, <3>2 DEF TypeOK
  <2>4. Keyed'
    BY <1>b, <2>2 DEF Keyed
  <2>5. Listening'
    BY <1>0, <1>v, <1>b, <1>i, <2>1, <2>2 DEF Listening, MovedNet
  <2>6. Mounted'
    BY <1>b, <2>2 DEF Mounted
  <2>7. Named'
    BY <1>0, <1>v, <1>b, <1>i, <2>1, <2>2 DEF Named, MovedNet, Used
  <2>8. InOrder'
    BY <1>b, <2>2 DEF InOrder, Used
  <2>9. Executed'
    BY <1>0, <1>v, <1>b, <1>i, <2>1, <2>2 DEF Executed, MovedNet, Used
  <2> QED BY <2>3, <2>4, <2>5, <2>6, <2>7, <2>8, <2>9 DEF Base
<1>22. CASE UNCHANGED deliveryVars
  BY <1>22, <1>b, <1>0 DEF deliveryVars, Base, TypeOK, Keyed, Listening, Mounted, Named, InOrder,
     Executed, Used
<1> QED
  BY <1>1, <1>2, <1>3, <1>4, <1>5, <1>6, <1>7, <1>8, <1>9, <1>10, <1>11, <1>12, <1>13, <1>14,
     <1>15, <1>16, <1>17, <1>18, <1>19, <1>20, <1>21, <1>22 DEF DeliveryNext, Screen, Server, Button

----------------------------------------------------------------------------
(* Layer 2: what holds until a screen is opened over a running mutation or *)
(* an attempt is given up while a copy of it still runs.                   *)

(* A mutation an earlier screen left behind has no screen over it.         *)
Alone == op["old"] # Idle => ~screen.loaded

(* A mutation that names an attempt names the stored one.                  *)
Holds == \A a \in Activity : op[a].key # 0 => stored = op[a].key

(* A new attempt is confirmed while none is stored, and for a version that *)
(* no executed attempt ended.                                              *)
Fresh ==
  \A a \in Activity : op[a].pc = "token" =>
    stored = 0 /\ \A k \in done : attempt[k].ver < op[a].ver

(* A screen with data shows the stored attempt.                            *)
Agree ==
  screen.loaded /\ ~(op["cur"].kind = "complete" /\ op["cur"].pc = "kept") =>
    screen.pending = stored

(* A readback found the attempt at rest, after whatever it had done.       *)
Seen ==
  \A a \in Activity : op[a].pc = "seen" =>
    /\ ~Running(op[a].key)
    /\ op[a].key \in done => attempt[op[a].key].ver < op[a].ver

(* The stored attempt is the last one confirmed.                           *)
Latest == stored # 0 => \A j \in Used : j <= stored

(* AttemptAccounted, without its exception.                                *)
Accounted == \A k \in Attempt : k \in done \/ Running(k) => k \in settled \/ stored = k

(* The assignment a screen lists is past what was executed, the stored     *)
(* attempt excepted.                                                       *)
Read ==
  screen.state # "none" => \A k \in done : k = stored \/ attempt[k].ver < screen.ver

(* DecidedOnce, without its exception.                                     *)
Once == \A k \in done, j \in Used : j > k => attempt[j].ver # attempt[k].ver

Safe == /\ Alone /\ Holds /\ Fresh /\ Agree /\ Seen
        /\ Latest /\ Accounted /\ Read /\ Once

(* Layer 2 holds initially. *)
LEMMA SafeInit == DeliveryInit => Safe
<1> SUFFICES ASSUME DeliveryInit PROVE Safe
  OBVIOUS
<1>1. Used = {} /\ \A k \in Attempt : ~Running(k)
  BY FreeRequest DEF DeliveryInit, Used, Running
<1>2. Alone /\ Holds /\ Fresh /\ Agree /\ Seen
  BY IdleMutation, EmptyScreen DEF DeliveryInit, Alone, Holds, Fresh, Agree, Seen, Activity
<1>3. Latest /\ Accounted /\ Read /\ Once
  BY <1>1, EmptyScreen DEF DeliveryInit, Latest, Accounted, Read, Once
<1> QED BY <1>2, <1>3 DEF Safe

(* What has been crossed stays crossed.                                    *)
LEMMA CrossedStays == crossed /\ [DeliveryNext]_deliveryVars => crossed'
  BY DEF DeliveryNext, Screen, Server, deliveryVars, Open, Leave, SignOut, SignIn, Kill, Poll,
         Reread, LoadStored, LoadList, LoadTask, LoadFails, pickup, complete,
         retryPendingCompletion, replaceRejectedCompletion, Begin, Keep, Send, GiveUp, Receive,
         ReadForReplace, Replace, RecoverCaptainAssignment, CompleteCaptainPickup,
         CompleteCaptainAssignment, Respond, Refuse, Lose

(* A mutation runs alone.                                                  *)
LEMMA OneAtATime ==
  ASSUME Base, Alone, NEW a \in Activity, NEW b \in Activity, op[a] # Idle, b # a
  PROVE  op[b] = Idle
  BY DEF Base, Mounted, Alone, Activity

(* Keep of attempt k. *)
KeptNew(a, k) ==
  /\ attempt[k].ver = 0
  /\ attempt'[k].ver = op[a].ver
  /\ \A i \in Attempt \ {k} : attempt'[i] = attempt[i]
  /\ stored' = k /\ At(a, "kept", op[a].kind, k)

(* Every step that crosses nothing keeps layer 2. *)
LEMMA SafeStep ==
  Base /\ Safe /\ ~crossed' /\ [DeliveryNext]_deliveryVars => Safe'
<1> SUFFICES ASSUME Base, Safe, ~crossed', [DeliveryNext]_deliveryVars PROVE Safe'
  OBVIOUS
<1>0. /\ op \in [Activity -> Mutations] /\ net \in [Copy -> Requests]
      /\ screen \in Screens /\ load \in Loads /\ signedIn \in BOOLEAN
      /\ stored \in 0..MaxAttempt /\ attempt \in [Attempt -> Attempts]
      /\ assignment \in Assignments /\ done \subseteq Attempt /\ settled \subseteq Attempt
  BY DEF Base, TypeOK
<1>v. /\ Activity = {"cur", "old"} /\ \A a \in Activity : op[a].key \in 0..MaxAttempt
      /\ \A k \in Attempt : attempt[k].ver \in Nat
      /\ 0 \notin Attempt /\ \A k \in 1..MaxAttempt : k \in Attempt
  BY <1>0, MutationFields, DeliveryAssumption DEF Activity, Attempt, Attempts
<1>b. Keyed /\ Listening /\ Mounted /\ Named /\ InOrder /\ Executed
  BY DEF Base
<1>s. Alone /\ Holds /\ Fresh /\ Agree /\ Seen /\ Latest /\ Accounted /\ Read /\ Once
  BY DEF Safe
<1>i. /\ Idle.pc = "idle" /\ Idle.kind = "none" /\ Idle.key = 0 /\ Free.st = "free"
      /\ Free.key = 0
      /\ "cur" \in Activity /\ "old" \in Activity /\ "cur" # "old"
  BY IdleMutation, FreeRequest DEF Activity
<1>k. \A a \in Activity : op[a].pc \in {"read", "seen"} => op[a].key \in Attempt
  BY <1>v, <1>b DEF Keyed, Attempt
<1>o. \A a, b \in Activity : op[a].pc # "idle" /\ b # a => op[b] = Idle
  BY <1>s, <1>i, OneAtATime
<1>1. CASE Open \/ Reread
  <2>1. EmptiedScreen
    BY <1>0, <1>1, OpenEffect
  <2>2. UNCHANGED <<op, net, signedIn, stored, attempt, assignment, done, settled, crossed>>
    BY <1>1 DEF Open, Reread, Reload, server, phone
  <2>3. Alone'
    BY <1>0, <1>v, <1>b, <1>s, <1>i, <2>1, <2>2 DEF Alone, EmptiedScreen
  <2>4. Holds'
    BY <1>s, <2>2 DEF Holds
  <2>5. Fresh'
    BY <1>s, <2>2 DEF Fresh
  <2>6. Agree'
    BY <1>0, <1>v, <1>b, <1>s, <1>i, <2>1, <2>2 DEF Agree, EmptiedScreen
  <2>7. Seen'
    BY <1>s, <2>2 DEF Seen, Running
  <2>8. Latest'
    BY <1>s, <2>2 DEF Latest, Used
  <2>9. Accounted'
    BY <1>s, <2>2 DEF Accounted, Running
  <2>10. Read'
    BY <1>0, <1>v, <1>b, <1>s, <1>i, <2>1, <2>2 DEF Read, EmptiedScreen
  <2>11. Once'
    BY <1>s, <2>2 DEF Once, Used
  <2> QED BY <2>3, <2>4, <2>5, <2>6, <2>7, <2>8, <2>9, <2>10, <2>11 DEF Safe
<1>2. CASE Leave \/ SignOut
  <2>1. LeftOp /\ LeftNet /\ EmptiedScreen
    BY <1>0, <1>2, UnmountedEffect DEF Leave, SignOut
  <2>2. UNCHANGED <<stored, attempt, assignment, done, settled, crossed>>
    BY <1>2 DEF Leave, SignOut, server, phone
  <2>3. \A k \in Attempt : Running(k)' => Running(k)
    BY <1>0, <1>v, <1>i, <2>1 DEF Running, LeftNet
  <2>4. Alone'
    BY <1>0, <1>v, <1>b, <1>s, <1>i, <2>1, <2>2 DEF Alone, LeftOp, EmptiedScreen
  <2>5. Holds'
    BY <1>0, <1>v, <1>b, <1>s, <1>i, <2>1, <2>2 DEF Holds, LeftOp, EmptiedScreen
  <2>6. Fresh'
    BY <1>0, <1>v, <1>b, <1>s, <1>i, <2>1, <2>2 DEF Fresh, LeftOp, EmptiedScreen
  <2>7. Agree'
    BY <1>0, <1>v, <1>b, <1>s, <1>i, <2>1, <2>2 DEF Agree, LeftOp, EmptiedScreen
  <2>8. Seen'
    BY <1>0, <1>v, <1>b, <1>s, <1>i, <1>k, <2>1, <2>2, <2>3 DEF Seen, LeftOp, EmptiedScreen
  <2>9. Latest'
    BY <1>s, <2>2 DEF Latest, Used
  <2>10. Accounted'
    BY <1>0, <1>v, <1>b, <1>s, <1>i, <2>1, <2>2, <2>3 DEF Accounted, LeftOp, EmptiedScreen
  <2>11. Read'
    BY <1>0, <1>v, <1>b, <1>s, <1>i, <2>1, <2>2 DEF Read, LeftOp, EmptiedScreen
  <2>12. Once'
    BY <1>s, <2>2 DEF Once, Used
  <2> QED BY <2>4, <2>5, <2>6, <2>7, <2>8, <2>9, <2>10, <2>11, <2>12 DEF Safe
<1>3. CASE SignIn
  <2>1. UNCHANGED <<op, net, screen, load, stored, attempt, assignment, done, settled, crossed>>
    BY <1>3 DEF SignIn, server, phone
  <2>2. Alone'
    BY <1>s, <2>1 DEF Alone
  <2>3. Holds'
    BY <1>s, <2>1 DEF Holds
  <2>4. Fresh'
    BY <1>s, <2>1 DEF Fresh
  <2>5. Agree'
    BY <1>s, <2>1 DEF Agree
  <2>6. Seen'
    BY <1>s, <2>1 DEF Seen, Running
  <2>7. Latest'
    BY <1>s, <2>1 DEF Latest, Used
  <2>8. Accounted'
    BY <1>s, <2>1 DEF Accounted, Running
  <2>9. Read'
    BY <1>s, <2>1 DEF Read
  <2>10. Once'
    BY <1>s, <2>1 DEF Once, Used
  <2> QED BY <2>2, <2>3, <2>4, <2>5, <2>6, <2>7, <2>8, <2>9, <2>10 DEF Safe
<1>4. CASE Kill
  <2>1. /\ op' \in [Activity -> Mutations] /\ \A a \in Activity : op'[a] = Idle
        /\ DeafNet(Copy) /\ EmptiedScreen
    BY <1>0, <1>4, KillEffect
  <2>2. UNCHANGED <<signedIn, stored, attempt, assignment, done, settled, crossed>>
    BY <1>4 DEF Kill, server, phone
  <2>3. \A k \in Attempt : Running(k)' => Running(k)
    BY <1>0, <1>v, <1>i, <2>1 DEF Running, DeafNet
  <2>4. Alone'
    BY <1>0, <1>v, <1>b, <1>s, <1>i, <2>1, <2>2 DEF Alone, EmptiedScreen
  <2>5. Holds'
    BY <1>0, <1>v, <1>b, <1>s, <1>i, <2>1, <2>2 DEF Holds, EmptiedScreen
  <2>6. Fresh'
    BY <1>0, <1>v, <1>b, <1>s, <1>i, <2>1, <2>2 DEF Fresh, EmptiedScreen
  <2>7. Agree'
    BY <1>0, <1>v, <1>b, <1>s, <1>i, <2>1, <2>2 DEF Agree, EmptiedScreen
  <2>8. Seen'
    BY <1>0, <1>v, <1>b, <1>s, <1>i, <1>k, <2>1, <2>2, <2>3 DEF Seen, EmptiedScreen
  <2>9. Latest'
    BY <1>s, <2>2 DEF Latest, Used
  <2>10. Accounted'
    BY <1>0, <1>v, <1>b, <1>s, <1>i, <2>1, <2>2, <2>3 DEF Accounted, EmptiedScreen
  <2>11. Read'
    BY <1>0, <1>v, <1>b, <1>s, <1>i, <2>1, <2>2 DEF Read, EmptiedScreen
  <2>12. Once'
    BY <1>s, <2>2 DEF Once, Used
  <2> QED BY <2>4, <2>5, <2>6, <2>7, <2>8, <2>9, <2>10, <2>11, <2>12 DEF Safe
<1>5. CASE Poll
  <2>1. UNCHANGED <<op, net, screen, signedIn, stored, attempt, assignment, done, settled, crossed>>
    BY <1>5 DEF Poll, server, phone
  <2>2. Alone'
    BY <1>s, <2>1 DEF Alone
  <2>3. Holds'
    BY <1>s, <2>1 DEF Holds
  <2>4. Fresh'
    BY <1>s, <2>1 DEF Fresh
  <2>5. Agree'
    BY <1>s, <2>1 DEF Agree
  <2>6. Seen'
    BY <1>s, <2>1 DEF Seen, Running
  <2>7. Latest'
    BY <1>s, <2>1 DEF Latest, Used
  <2>8. Accounted'
    BY <1>s, <2>1 DEF Accounted, Running
  <2>9. Read'
    BY <1>s, <2>1 DEF Read
  <2>10. Once'
    BY <1>s, <2>1 DEF Once, Used
  <2> QED BY <2>2, <2>3, <2>4, <2>5, <2>6, <2>7, <2>8, <2>9, <2>10 DEF Safe
<1>6. CASE LoadStored
  <2>1. /\ screen'.loaded /\ screen'.pending = stored /\ screen'.state = screen.state
        /\ screen'.ver = screen.ver /\ op["old"] = Idle
    BY <1>0, <1>6, LoadStoredEffect DEF LoadStored
  <2>2. UNCHANGED <<op, net, signedIn, stored, attempt, assignment, done, settled>>
    BY <1>6 DEF LoadStored, server, phone
  <2>3. Alone'
    BY <1>0, <1>v, <1>b, <1>s, <1>i, <2>1, <2>2 DEF Alone
  <2>4. Holds'
    BY <1>s, <2>2 DEF Holds
  <2>5. Fresh'
    BY <1>s, <2>2 DEF Fresh
  <2>6. Agree'
    BY <1>0, <1>v, <1>b, <1>s, <1>i, <2>1, <2>2 DEF Agree
  <2>7. Seen'
    BY <1>s, <2>2 DEF Seen, Running
  <2>8. Latest'
    BY <1>s, <2>2 DEF Latest, Used
  <2>9. Accounted'
    BY <1>s, <2>2 DEF Accounted, Running
  <2>10. Read'
    BY <1>0, <1>v, <1>b, <1>s, <1>i, <2>1, <2>2 DEF Read
  <2>11. Once'
    BY <1>s, <2>2 DEF Once, Used
  <2> QED BY <2>3, <2>4, <2>5, <2>6, <2>7, <2>8, <2>9, <2>10, <2>11 DEF Safe
<1>7. CASE LoadList
  <2>1. /\ screen'.loaded = screen.loaded /\ screen'.pending = screen.pending
        /\ screen'.ver = assignment.ver
    BY <1>0, <1>7, LoadListEffect
  <2>2. UNCHANGED <<op, net, signedIn, stored, attempt, assignment, done, settled, crossed>>
    BY <1>7 DEF LoadList, server, phone
  <2>3. Alone'
    BY <1>0, <1>v, <1>b, <1>s, <1>i, <2>1, <2>2 DEF Alone
  <2>4. Holds'
    BY <1>s, <2>2 DEF Holds
  <2>5. Fresh'
    BY <1>s, <2>2 DEF Fresh
  <2>6. Agree'
    BY <1>0, <1>v, <1>b, <1>s, <1>i, <2>1, <2>2 DEF Agree
  <2>7. Seen'
    BY <1>s, <2>2 DEF Seen, Running
  <2>8. Latest'
    BY <1>s, <2>2 DEF Latest, Used
  <2>9. Accounted'
    BY <1>s, <2>2 DEF Accounted, Running
  <2>10. Read'
    BY <1>0, <1>v, <1>b, <1>s, <1>i, <2>1, <2>2 DEF Read, Executed
  <2>11. Once'
    BY <1>s, <2>2 DEF Once, Used
  <2> QED BY <2>3, <2>4, <2>5, <2>6, <2>7, <2>8, <2>9, <2>10, <2>11 DEF Safe
<1>8. CASE LoadTask
  <2>1. SameScreen
    BY <1>0, <1>8, LoadTaskEffect
  <2>2. UNCHANGED <<op, net, signedIn, stored, attempt, assignment, done, settled, crossed>>
    BY <1>8 DEF LoadTask, server, phone
  <2>3. Alone'
    BY <1>0, <1>v, <1>b, <1>s, <1>i, <2>1, <2>2 DEF Alone, SameScreen
  <2>4. Holds'
    BY <1>s, <2>2 DEF Holds
  <2>5. Fresh'
    BY <1>s, <2>2 DEF Fresh
  <2>6. Agree'
    BY <1>0, <1>v, <1>b, <1>s, <1>i, <2>1, <2>2 DEF Agree, SameScreen
  <2>7. Seen'
    BY <1>s, <2>2 DEF Seen, Running
  <2>8. Latest'
    BY <1>s, <2>2 DEF Latest, Used
  <2>9. Accounted'
    BY <1>s, <2>2 DEF Accounted, Running
  <2>10. Read'
    BY <1>0, <1>v, <1>b, <1>s, <1>i, <2>1, <2>2 DEF Read, SameScreen
  <2>11. Once'
    BY <1>s, <2>2 DEF Once, Used
  <2> QED BY <2>3, <2>4, <2>5, <2>6, <2>7, <2>8, <2>9, <2>10, <2>11 DEF Safe
<1>9. CASE LoadFails
  <2>1. /\ screen'.loaded = screen.loaded /\ screen'.pending = screen.pending
        /\ screen'.state = "none" \/ (screen'.state = screen.state /\ screen'.ver = screen.ver)
    BY <1>0, <1>9, LoadFailsEffect
  <2>2. UNCHANGED <<op, net, signedIn, stored, attempt, assignment, done, settled, crossed>>
    BY <1>9 DEF LoadFails, server, phone
  <2>3. Alone'
    BY <1>0, <1>v, <1>b, <1>s, <1>i, <2>1, <2>2 DEF Alone
  <2>4. Holds'
    BY <1>s, <2>2 DEF Holds
  <2>5. Fresh'
    BY <1>s, <2>2 DEF Fresh
  <2>6. Agree'
    BY <1>0, <1>v, <1>b, <1>s, <1>i, <2>1, <2>2 DEF Agree
  <2>7. Seen'
    BY <1>s, <2>2 DEF Seen, Running
  <2>8. Latest'
    BY <1>s, <2>2 DEF Latest, Used
  <2>9. Accounted'
    BY <1>s, <2>2 DEF Accounted, Running
  <2>10. Read'
    BY <1>0, <1>v, <1>b, <1>s, <1>i, <2>1, <2>2 DEF Read
  <2>11. Once'
    BY <1>s, <2>2 DEF Once, Used
  <2> QED BY <2>3, <2>4, <2>5, <2>6, <2>7, <2>8, <2>9, <2>10, <2>11 DEF Safe
<1>10. CASE Button
  <2>1. /\ SameScreen /\ screen.loaded /\ op["cur"] = Idle /\ screen.pending = stored
        /\ \/ At("cur", "kept", "pickup", 0)
           \/ /\ At("cur", "token", "complete", 0) /\ op'["cur"].ver = screen.ver
              /\ screen.pending = 0 /\ screen.state # "none"
           \/ At("cur", "kept", "retry", screen.pending)
           \/ At("cur", "read", "replace", screen.pending)
    <3>1. SameScreen /\ screen.loaded /\ op["cur"] = Idle
      BY <1>0, <1>10, ButtonFrame
    <3>2. screen.pending = stored
      BY <1>s, <1>i, <3>1 DEF Agree
    <3> QED BY <1>0, <1>10, <3>1, <3>2, BeginEffect DEF Button, complete, CanAct, MayConfirm
  <2>2. UNCHANGED <<net, load, signedIn, stored, attempt, assignment, done, settled, crossed>>
    BY <1>0, <1>10, ButtonFrame DEF server
  <2>3. Alone'
    BY <1>0, <1>v, <1>b, <1>s, <1>i, <2>1, <2>2 DEF Alone, SameScreen, At
  <2>4. Holds'
    BY <1>0, <1>v, <1>b, <1>s, <1>i, <2>1, <2>2 DEF Holds, SameScreen, At
  <2>5. Fresh'
    BY <1>0, <1>v, <1>b, <1>s, <1>i, <2>1, <2>2 DEF Fresh, SameScreen, At, Read
  <2>6. Agree'
    BY <1>0, <1>v, <1>b, <1>s, <1>i, <2>1, <2>2 DEF Agree, SameScreen, At
  <2>7. Seen'
    BY <1>0, <1>v, <1>b, <1>s, <1>i, <1>k, <2>1, <2>2 DEF Seen, SameScreen, At, Running
  <2>8. Latest'
    BY <1>s, <2>2 DEF Latest, Used
  <2>9. Accounted'
    BY <1>s, <2>2 DEF Accounted, Running
  <2>10. Read'
    BY <1>0, <1>v, <1>b, <1>s, <1>i, <2>1, <2>2 DEF Read, SameScreen, At
  <2>11. Once'
    BY <1>s, <2>2 DEF Once, Used
  <2> QED BY <2>3, <2>4, <2>5, <2>6, <2>7, <2>8, <2>9, <2>10, <2>11 DEF Safe
<1>11. ASSUME NEW a \in Activity, Keep(a) PROVE Safe'
  <2>1. /\ op[a].pc = "token" /\ SameScreen
        /\ KeepsNew(a) \/ (Ended(a) /\ UNCHANGED <<stored, attempt>>)
    BY <1>0, <1>11, KeepEffect DEF KeepsNew
  <2>2. UNCHANGED <<net, load, signedIn, assignment, done, settled, crossed>>
    BY <1>11 DEF Keep, server, phone
  <2>3. Alone'
    <3>0. CASE Ended(a) /\ UNCHANGED <<stored, attempt>>
      BY <1>0, <1>v, <1>b, <1>s, <1>i, <1>o, <2>1, <2>2, <3>0 DEF Alone, Ended, SameScreen, Used,
         Running
    <3>1. CASE KeepsNew(a)
      <4>1. PICK k \in Attempt : KeptNew(a, k)
        BY <3>1 DEF KeepsNew, KeptNew
      <4> QED BY <1>0, <1>v, <1>s, <1>i, <1>o, <2>1, <4>1 DEF Alone, KeptNew, At, SameScreen
    <3> QED BY <2>1, <3>0, <3>1
  <2>4. Holds'
    <3>0. CASE Ended(a) /\ UNCHANGED <<stored, attempt>>
      BY <1>0, <1>v, <1>b, <1>s, <1>i, <1>o, <2>1, <2>2, <3>0 DEF Holds, Ended, SameScreen, Used,
         Running
    <3>1. CASE KeepsNew(a)
      <4>1. PICK k \in Attempt : KeptNew(a, k)
        BY <3>1 DEF KeepsNew, KeptNew
      <4> QED BY <1>0, <1>v, <1>s, <1>i, <1>o, <2>1, <4>1 DEF Holds, KeptNew, At
    <3> QED BY <2>1, <3>0, <3>1
  <2>5. Fresh'
    <3>0. CASE Ended(a) /\ UNCHANGED <<stored, attempt>>
      BY <1>0, <1>v, <1>b, <1>s, <1>i, <1>o, <2>1, <2>2, <3>0 DEF Fresh, Ended, SameScreen, Used,
         Running
    <3>1. CASE KeepsNew(a)
      <4>1. PICK k \in Attempt : KeptNew(a, k)
        BY <3>1 DEF KeepsNew, KeptNew
      <4> QED BY <1>0, <1>v, <1>s, <1>i, <1>o, <2>1, <4>1 DEF Fresh, KeptNew, At
    <3> QED BY <2>1, <3>0, <3>1
  <2>6. Agree'
    <3>0. CASE Ended(a) /\ UNCHANGED <<stored, attempt>>
      BY <1>0, <1>v, <1>b, <1>s, <1>i, <1>o, <2>1, <2>2, <3>0 DEF Agree, Ended, SameScreen, Used,
         Running
    <3>1. CASE KeepsNew(a)
      <4>1. PICK k \in Attempt : KeptNew(a, k)
        BY <3>1 DEF KeepsNew, KeptNew
      <4>2. op[a].kind = "complete"
        BY <1>b, <2>1 DEF Keyed
      <4> QED BY <1>0, <1>v, <1>s, <1>i, <1>o, <2>1, <4>1, <4>2 DEF Agree, Alone, KeptNew, At,
         SameScreen
    <3> QED BY <2>1, <3>0, <3>1
  <2>7. Seen'
    <3>0. CASE Ended(a) /\ UNCHANGED <<stored, attempt>>
      BY <1>0, <1>v, <1>b, <1>s, <1>i, <1>o, <2>1, <2>2, <3>0 DEF Seen, Ended, SameScreen, Used,
         Running
    <3>1. CASE KeepsNew(a)
      <4>1. PICK k \in Attempt : KeptNew(a, k)
        BY <3>1 DEF KeepsNew, KeptNew
      <4> QED BY <1>0, <1>v, <1>s, <1>i, <1>o, <2>1, <2>2, <4>1 DEF Seen, KeptNew, At
    <3> QED BY <2>1, <3>0, <3>1
  <2>8. Latest'
    <3>0. CASE Ended(a) /\ UNCHANGED <<stored, attempt>>
      BY <1>0, <1>v, <1>b, <1>s, <1>i, <1>o, <2>1, <2>2, <3>0 DEF Latest, Ended, SameScreen,
         Used, Running
    <3>1. CASE KeepsNew(a)
      <4>1. PICK k \in Attempt : KeptNew(a, k)
        BY <3>1 DEF KeepsNew, KeptNew
      <4>2. \A j \in Used : j < k
        <5> SUFFICES ASSUME NEW j \in Used, ~(j < k) PROVE FALSE
          OBVIOUS
        <5>1. k \notin Used /\ j \in Attempt /\ j # k
          BY <4>1 DEF KeptNew, Used
        <5>2. k < j
          BY <5>1, DeliveryAssumption DEF Attempt
        <5> QED BY <1>b, <5>1, <5>2 DEF InOrder
      <4>3. Used' \subseteq Used \union {k} /\ Used \subseteq Attempt
        BY <4>1 DEF Used, KeptNew
      <4>4. \A j \in Used' : j <= k
        BY <4>2, <4>3, DeliveryAssumption DEF Attempt
      <4> QED BY <4>1, <4>4 DEF Latest, KeptNew
    <3> QED BY <2>1, <3>0, <3>1
  <2>9. Accounted'
    <3>0. CASE Ended(a) /\ UNCHANGED <<stored, attempt>>
      BY <1>0, <1>v, <1>b, <1>s, <1>i, <1>o, <2>1, <2>2, <3>0 DEF Accounted, Ended, SameScreen,
         Used, Running
    <3>1. CASE KeepsNew(a)
      <4>1. PICK k \in Attempt : KeptNew(a, k)
        BY <3>1 DEF KeepsNew, KeptNew
      <4>2. stored = 0
        BY <1>s, <2>1 DEF Fresh
      <4> QED BY <1>v, <1>s, <2>2, <4>2 DEF Accounted, Running
    <3> QED BY <2>1, <3>0, <3>1
  <2>10. Read'
    <3>0. CASE Ended(a) /\ UNCHANGED <<stored, attempt>>
      BY <1>0, <1>v, <1>b, <1>s, <1>i, <1>o, <2>1, <2>2, <3>0 DEF Read, Ended, SameScreen, Used,
         Running
    <3>1. CASE KeepsNew(a)
      <4>1. PICK k \in Attempt : KeptNew(a, k)
        BY <3>1 DEF KeepsNew, KeptNew
      <4>2. stored = 0 /\ k \notin done
        BY <1>s, <1>b, <2>1, <4>1 DEF Fresh, KeptNew, Executed, Used
      <4> QED BY <1>0, <1>v, <1>s, <2>1, <2>2, <4>1, <4>2 DEF Read, KeptNew, SameScreen
    <3> QED BY <2>1, <3>0, <3>1
  <2>11. Once'
    <3>0. CASE Ended(a) /\ UNCHANGED <<stored, attempt>>
      BY <1>0, <1>v, <1>b, <1>s, <1>i, <1>o, <2>1, <2>2, <3>0 DEF Once, Ended, SameScreen, Used,
         Running
    <3>1. CASE KeepsNew(a)
      <4>1. PICK k \in Attempt : KeptNew(a, k)
        BY <3>1 DEF KeepsNew, KeptNew
      <4>2. k \notin done /\ \A i \in done : attempt[i].ver < op[a].ver
        BY <1>s, <1>b, <2>1, <4>1 DEF Fresh, KeptNew, Executed, Used
      <4>3. Used' \subseteq Used \union {k} /\ Used \subseteq Attempt /\ k \notin Used
        BY <4>1 DEF Used, KeptNew
      <4>4. attempt'[k].ver = op[a].ver /\ \A i \in done : attempt'[i] = attempt[i] /\ i \in Attempt
        BY <1>0, <4>1, <4>2 DEF KeptNew
      <4>5. \A i \in done : attempt'[i].ver # attempt'[k].ver
        BY <1>0, <1>v, <4>2, <4>4, MutationFields, DeliveryAssumption
      <4>6. \A i \in done, j \in Used : j > i => attempt'[j].ver # attempt'[i].ver
        BY <1>s, <4>1, <4>3, <4>4 DEF Once, KeptNew
      <4> QED BY <2>2, <4>3, <4>5, <4>6 DEF Once
    <3> QED BY <2>1, <3>0, <3>1
  <2> QED BY <2>3, <2>4, <2>5, <2>6, <2>7, <2>8, <2>9, <2>10, <2>11 DEF Safe
<1>12. ASSUME NEW a \in Activity, Send(a) PROVE Safe'
  <2>1. /\ op[a].pc = "kept"
        /\ screen'.loaded = screen.loaded /\ screen'.state = screen.state
        /\ screen'.ver = screen.ver
        /\ \/ /\ SentNet(a, op[a].key) /\ At(a, "wait", op[a].kind, op[a].key)
              /\ screen'.pending = IF a = "cur" /\ op[a].kind = "complete"
                                   THEN op[a].key ELSE screen.pending
           \/ /\ Ended(a) /\ UNCHANGED net /\ screen'.pending = screen.pending
              /\ ~signedIn \/ op[a].kind # "complete"
    BY <1>0, <1>12, SendEffect DEF SameScreen
  <2>2. UNCHANGED <<load, signedIn, stored, attempt, assignment, done, settled, crossed>>
    BY <1>12 DEF Send, server, phone
  <2>3. \A k \in Attempt : Running(k)' => Running(k) \/ k = op[a].key
    BY <1>0, <1>v, <1>i, <2>1 DEF Running, SentNet
  <2>4. Alone'
    BY <1>0, <1>v, <1>b, <1>s, <1>i, <1>o, <2>1, <2>2 DEF Alone, At, Ended
  <2>5. Holds'
    BY <1>0, <1>v, <1>b, <1>s, <1>i, <1>o, <2>1, <2>2 DEF Holds, At, Ended
  <2>6. Fresh'
    BY <1>0, <1>v, <1>b, <1>s, <1>i, <1>o, <2>1, <2>2 DEF Fresh, At, Ended
  <2>7. Agree'
    BY <1>0, <1>v, <1>b, <1>s, <1>i, <1>o, <2>1, <2>2 DEF Agree, At, Ended, Alone, Keyed, Holds,
       Mounted
  <2>8. Seen'
    BY <1>0, <1>v, <1>b, <1>s, <1>i, <1>k, <1>o, <2>1, <2>2, <2>3 DEF Seen, At, Ended
  <2>9. Latest'
    BY <1>s, <2>2 DEF Latest, Used
  <2>10. Accounted'
    BY <1>0, <1>v, <1>b, <1>s, <1>i, <1>o, <2>1, <2>2, <2>3 DEF Accounted, At, Ended, Holds
  <2>11. Read'
    BY <1>0, <1>v, <1>b, <1>s, <1>i, <1>o, <2>1, <2>2 DEF Read, At, Ended
  <2>12. Once'
    BY <1>s, <2>2 DEF Once, Used
  <2> QED BY <2>4, <2>5, <2>6, <2>7, <2>8, <2>9, <2>10, <2>11, <2>12 DEF Safe
<1>13. ASSUME NEW a \in Activity, GiveUp(a) PROVE Safe'
  <2>1. op[a].pc = "wait" /\ Ended(a) /\ DeafNet(To(a)) /\ SameScreen
    BY <1>0, <1>13, GiveUpEffect DEF GiveUp
  <2>2. UNCHANGED <<load, signedIn, stored, attempt, assignment, done, settled, crossed>>
    BY <1>13 DEF GiveUp, server, phone
  <2>3. \A k \in Attempt : Running(k)' => Running(k)
    BY <1>0, <1>v, <1>i, <2>1 DEF Running, DeafNet
  <2>4. Alone'
    BY <1>0, <1>v, <1>b, <1>s, <1>i, <1>o, <2>1, <2>2 DEF Alone, Ended, SameScreen
  <2>5. Holds'
    BY <1>0, <1>v, <1>b, <1>s, <1>i, <1>o, <2>1, <2>2 DEF Holds, Ended, SameScreen
  <2>6. Fresh'
    BY <1>0, <1>v, <1>b, <1>s, <1>i, <1>o, <2>1, <2>2 DEF Fresh, Ended, SameScreen
  <2>7. Agree'
    BY <1>0, <1>v, <1>b, <1>s, <1>i, <1>o, <2>1, <2>2 DEF Agree, Ended, SameScreen
  <2>8. Seen'
    BY <1>0, <1>v, <1>b, <1>s, <1>i, <1>k, <1>o, <2>1, <2>2, <2>3 DEF Seen, Ended, SameScreen
  <2>9. Latest'
    BY <1>s, <2>2 DEF Latest, Used
  <2>10. Accounted'
    BY <1>0, <1>v, <1>b, <1>s, <1>i, <1>o, <2>1, <2>2, <2>3 DEF Accounted, Ended, SameScreen
  <2>11. Read'
    BY <1>0, <1>v, <1>b, <1>s, <1>i, <1>o, <2>1, <2>2 DEF Read, Ended, SameScreen
  <2>12. Once'
    BY <1>s, <2>2 DEF Once, Used
  <2> QED BY <2>4, <2>5, <2>6, <2>7, <2>8, <2>9, <2>10, <2>11, <2>12 DEF Safe
<1>14. ASSUME NEW a \in Activity, NEW c \in Copy, Receive(a, c) PROVE Safe'
  <2>1. /\ op[a].pc = "wait" /\ op[a] # Idle /\ Ended(a) /\ FreedNet(c)
        /\ a = "old" => ~screen.loaded
        /\ \/ /\ SameScreen \/ EmptiedScreen
              /\ stored' = stored /\ settled' = settled
           \/ /\ op[a].key # 0 /\ settled' = settled \union {op[a].key}
              /\ stored' = stored /\ SameScreen
           \/ /\ op[a].key # 0 /\ settled' = settled \union {op[a].key}
              /\ stored' = 0 /\ screen'.state = "none" /\ ~screen'.loaded
    <3>1. /\ Ended(a) /\ FreedNet(c) /\ op[a].pc = "wait"
          /\ \/ SameScreen /\ load' = load /\ stored' = stored /\ settled' = settled
             \/ Refreshed(a) /\ stored' = stored /\ settled' = settled
             \/ /\ op[a].key # 0 /\ settled' = settled \union {op[a].key}
                /\ \/ SameScreen /\ load' = load /\ stored' = stored
                   \/ Refreshed(a) /\ stored' = 0
      BY <1>0, <1>14, ReceiveEffect
    <3>2. op[a] # Idle /\ (a = "old" => ~screen.loaded)
      BY <1>s, <1>i, <3>1 DEF Alone
    <3>3. Refreshed(a) => /\ SameScreen \/ EmptiedScreen
                          /\ screen'.state = "none" /\ ~screen'.loaded
      BY <1>v, <1>b, <3>2 DEF Refreshed, SameScreen, EmptiedScreen, Mounted
    <3> QED BY <3>1, <3>2, <3>3
  <2>2. UNCHANGED <<signedIn, attempt, assignment, done, crossed>>
    BY <1>14 DEF Receive, server, phone
  <2>3. \A k \in Attempt : Running(k)' => Running(k)
    BY <1>0, <1>v, <1>i, <2>1 DEF Running, FreedNet
  <2>4. Alone'
    BY <1>0, <1>v, <1>b, <1>s, <1>i, <1>o, <2>1, <2>2 DEF Alone, Ended, SameScreen, EmptiedScreen
  <2>5. Holds'
    BY <1>0, <1>v, <1>b, <1>s, <1>i, <1>o, <2>1, <2>2 DEF Holds, Ended, SameScreen, EmptiedScreen
  <2>6. Fresh'
    BY <1>0, <1>v, <1>b, <1>s, <1>i, <1>o, <2>1, <2>2 DEF Fresh, Ended, SameScreen, EmptiedScreen
  <2>7. Agree'
    BY <1>0, <1>v, <1>b, <1>s, <1>i, <1>o, <2>1, <2>2 DEF Agree, Ended, SameScreen, EmptiedScreen
  <2>8. Seen'
    BY <1>0, <1>v, <1>b, <1>s, <1>i, <1>k, <1>o, <2>1, <2>2, <2>3
       DEF Seen, Ended, SameScreen, EmptiedScreen
  <2>9. Latest'
    BY <1>0, <1>v, <1>b, <1>s, <1>i, <1>o, <2>1, <2>2 DEF Latest, Ended, SameScreen,
       EmptiedScreen, Used
  <2>10. Accounted'
    BY <1>0, <1>v, <1>b, <1>s, <1>i, <1>o, <2>1, <2>2, <2>3 DEF Accounted, Ended, SameScreen,
       EmptiedScreen, Holds
  <2>11. Read'
    BY <1>0, <1>v, <1>b, <1>s, <1>i, <1>o, <2>1, <2>2 DEF Read, Ended, SameScreen, EmptiedScreen
  <2>12. Once'
    BY <1>s, <2>2 DEF Once, Used
  <2> QED BY <2>4, <2>5, <2>6, <2>7, <2>8, <2>9, <2>10, <2>11, <2>12 DEF Safe
<1>15. ASSUME NEW a \in Activity, ReadForReplace(a) PROVE Safe'
  <2>1. /\ op[a].pc = "read"
        /\ \/ /\ At(a, "seen", op[a].kind, op[a].key) /\ op'[a].ver = assignment.ver
              /\ ~Running(op[a].key)
           \/ Ended(a)
    BY <1>0, <1>15, ReadForReplaceEffect
  <2>2. UNCHANGED <<net, screen, load, signedIn, stored, attempt, assignment, done, settled>>
    BY <1>15 DEF ReadForReplace, server, phone
  <2>3. Alone'
    BY <1>0, <1>v, <1>b, <1>s, <1>i, <1>o, <2>1, <2>2 DEF Alone, At, Ended
  <2>4. Holds'
    BY <1>0, <1>v, <1>b, <1>s, <1>i, <1>o, <2>1, <2>2 DEF Holds, At, Ended
  <2>5. Fresh'
    BY <1>0, <1>v, <1>b, <1>s, <1>i, <1>o, <2>1, <2>2 DEF Fresh, At, Ended
  <2>6. Agree'
    BY <1>0, <1>v, <1>b, <1>s, <1>i, <1>o, <2>1, <2>2 DEF Agree, At, Ended
  <2>7. Seen'
    BY <1>0, <1>v, <1>b, <1>s, <1>i, <1>k, <1>o, <2>1, <2>2 DEF Seen, At, Ended, Running, Executed
  <2>8. Latest'
    BY <1>s, <2>2 DEF Latest, Used
  <2>9. Accounted'
    BY <1>s, <2>2 DEF Accounted, Running
  <2>10. Read'
    BY <1>s, <2>2 DEF Read
  <2>11. Once'
    BY <1>s, <2>2 DEF Once, Used
  <2> QED BY <2>3, <2>4, <2>5, <2>6, <2>7, <2>8, <2>9, <2>10, <2>11 DEF Safe
<1>16. ASSUME NEW a \in Activity, Replace(a) PROVE Safe'
  <2>1. /\ op[a].pc = "seen" /\ Ended(a)
        /\ \/ SameScreen /\ stored' = stored
           \/ /\ stored' = 0 /\ screen'.state = "none" /\ ~screen'.loaded
              /\ op[a].ver = attempt[op[a].key].ver
    <3>1. /\ op[a].pc = "seen" /\ Ended(a)
          /\ \/ SameScreen /\ load' = load /\ stored' = stored
             \/ Unexecuted(op[a]) /\ Refreshed(a) /\ stored' = 0
      BY <1>0, <1>16, ReplaceEffect
    <3>2. a = "old" => ~screen.loaded
      BY <1>s, <1>i, <3>1 DEF Alone
    <3>3. Refreshed(a) => screen'.state = "none" /\ ~screen'.loaded
      BY <1>v, <1>b, <3>2 DEF Refreshed, SameScreen, EmptiedScreen, Mounted
    <3> QED BY <3>1, <3>3 DEF Unexecuted
  <2>2. UNCHANGED <<net, signedIn, attempt, assignment, done, settled, crossed>>
    BY <1>16 DEF Replace, server, phone
  <2>3. Alone'
    BY <1>0, <1>v, <1>b, <1>s, <1>i, <1>o, <2>1, <2>2 DEF Alone, Ended, SameScreen
  <2>4. Holds'
    BY <1>0, <1>v, <1>b, <1>s, <1>i, <1>o, <2>1, <2>2 DEF Holds, Ended, SameScreen
  <2>5. Fresh'
    BY <1>0, <1>v, <1>b, <1>s, <1>i, <1>o, <2>1, <2>2 DEF Fresh, Ended, SameScreen
  <2>6. Agree'
    BY <1>0, <1>v, <1>b, <1>s, <1>i, <1>o, <2>1, <2>2 DEF Agree, Ended, SameScreen
  <2>7. Seen'
    BY <1>0, <1>v, <1>b, <1>s, <1>i, <1>k, <1>o, <2>1, <2>2 DEF Seen, Ended, SameScreen, Running
  <2>8. Latest'
    BY <1>0, <1>v, <1>b, <1>s, <1>i, <1>o, <2>1, <2>2 DEF Latest, Ended, SameScreen, Used
  <2>9. Accounted'
    <3>1. op[a].key \in Attempt /\ stored = op[a].key /\ ~Running(stored)
      BY <1>v, <1>b, <1>s, <2>1, DeliveryAssumption DEF Keyed, Holds, Seen
    <3>2. CASE stored' = stored
      BY <1>s, <2>2, <3>2 DEF Accounted, Running
    <3>3. CASE op[a].ver = attempt[op[a].key].ver
      <4>1. stored \notin done
        BY <1>v, <1>s, <2>1, <3>1, <3>3 DEF Seen
      <4>2. \A k \in Attempt : k \in done \/ Running(k) => k \in settled
        BY <1>s, <3>1, <4>1 DEF Accounted
      <4> QED BY <2>2, <4>2 DEF Accounted, Running
    <3> QED BY <2>1, <3>2, <3>3
  <2>10. Read'
    BY <1>0, <1>v, <1>b, <1>s, <1>i, <1>o, <2>1, <2>2 DEF Read, Ended, SameScreen
  <2>11. Once'
    BY <1>s, <2>2 DEF Once, Used
  <2> QED BY <2>3, <2>4, <2>5, <2>6, <2>7, <2>8, <2>9, <2>10, <2>11 DEF Safe
<1>17. CASE RecoverCaptainAssignment
  <2>1. UNCHANGED <<op, net, screen, load, signedIn, stored, attempt, done, settled, crossed>>
    BY <1>17 DEF RecoverCaptainAssignment, server, phone
  <2>2. Alone'
    BY <1>s, <2>1 DEF Alone
  <2>3. Holds'
    BY <1>s, <2>1 DEF Holds
  <2>4. Fresh'
    BY <1>s, <2>1 DEF Fresh
  <2>5. Agree'
    BY <1>s, <2>1 DEF Agree
  <2>6. Seen'
    BY <1>s, <2>1 DEF Seen, Running
  <2>7. Latest'
    BY <1>s, <2>1 DEF Latest, Used
  <2>8. Accounted'
    BY <1>s, <2>1 DEF Accounted, Running
  <2>9. Read'
    BY <1>s, <2>1 DEF Read
  <2>10. Once'
    BY <1>s, <2>1 DEF Once, Used
  <2> QED BY <2>2, <2>3, <2>4, <2>5, <2>6, <2>7, <2>8, <2>9, <2>10 DEF Safe
<1>18. ASSUME NEW c \in Copy, CompleteCaptainPickup(c) PROVE Safe'
  <2>1. MovedNet(c, {"answered", "refused"})
    BY <1>0, <1>18, PickupEffect
  <2>2. UNCHANGED <<op, screen, load, signedIn, stored, attempt, done, settled, crossed>>
    BY <1>18 DEF CompleteCaptainPickup, server, phone
  <2>3. \A k \in Attempt : Running(k)' => Running(k)
    <3>1. net[c].st = "sent"
      BY <1>18 DEF CompleteCaptainPickup
    <3> QED BY <1>0, <1>v, <1>i, <2>1, <3>1 DEF Running, MovedNet
  <2>4. Alone'
    BY <1>s, <2>2 DEF Alone
  <2>5. Holds'
    BY <1>s, <2>2 DEF Holds
  <2>6. Fresh'
    BY <1>s, <2>2 DEF Fresh
  <2>7. Agree'
    BY <1>s, <2>2 DEF Agree
  <2>8. Seen'
    BY <1>0, <1>v, <1>b, <1>s, <1>i, <1>k, <2>1, <2>2, <2>3 DEF Seen
  <2>9. Latest'
    BY <1>s, <2>2 DEF Latest, Used
  <2>10. Accounted'
    BY <1>0, <1>v, <1>b, <1>s, <1>i, <2>1, <2>2, <2>3 DEF Accounted
  <2>11. Read'
    BY <1>s, <2>2 DEF Read
  <2>12. Once'
    BY <1>s, <2>2 DEF Once, Used
  <2> QED BY <2>4, <2>5, <2>6, <2>7, <2>8, <2>9, <2>10, <2>11, <2>12 DEF Safe
<1>19. ASSUME NEW c \in Copy, CompleteCaptainAssignment(c) PROVE Safe'
  <2> DEFINE key == net[c].key
  <2>1. UNCHANGED <<op, screen, load, signedIn, stored, attempt, settled, crossed>>
    BY <1>19 DEF CompleteCaptainAssignment, phone
  <2>2. /\ net[c].st = "sent" /\ key \in Attempt
        /\ \/ UNCHANGED done /\ (MovedNet(c, {"committed"}) \/ MovedNet(c, {"refused"}))
           \/ key \notin done /\ done' = done \union {key} /\ MovedNet(c, {"committed"})
    BY <1>0, <1>19, CompletionEffect DEF server
  <2>3. Running(key)
    BY <2>2 DEF Running
  <2>4. \A k \in Attempt : Running(k)' => Running(k)
    BY <1>0, <1>v, <1>i, <2>2 DEF Running, MovedNet
  <2>5. key \notin done => stored = key
    BY <1>b, <1>s, <2>2, <2>3 DEF Accounted, Executed
  <2> HIDE DEF key
  <2>6. done' \subseteq done \union {stored}
    BY <2>2, <2>5
  <2>7. key \notin done => \A a \in Activity : op[a].pc # "token" /\ op[a].pc # "seen"
    <3>1. \A a \in Activity : op[a].pc = "token" => stored = 0
      BY <1>s DEF Fresh
    <3>2. \A a \in Activity : op[a].pc = "seen" => stored = op[a].key /\ ~Running(op[a].key)
      BY <1>b, <1>s DEF Keyed, Holds, Seen
    <3> QED BY <1>v, <2>2, <2>3, <2>5, <3>1, <3>2
  <2>8. Alone' /\ Holds' /\ Agree' /\ Latest'
    BY <1>s, <2>1 DEF Alone, Holds, Agree, Latest, Used
  <2>9. Fresh' /\ Seen'
    <3>1. CASE done' = done
      BY <1>v, <1>k, <1>s, <2>1, <2>4, <3>1 DEF Fresh, Seen
    <3>2. CASE key \notin done
      BY <1>v, <2>1, <2>7, <3>2 DEF Fresh, Seen
    <3> QED BY <2>2, <3>1, <3>2
  <2>10. Accounted'
    BY <1>s, <2>1, <2>4, <2>6 DEF Accounted
  <2>11. Read'
    BY <1>s, <2>1, <2>6 DEF Read
  <2>12. Once'
    <3>1. CASE done' = done
      BY <1>s, <2>1, <3>1 DEF Once, Used
    <3>2. CASE key \notin done
      <4>1. \A j \in Used : j \in Attempt /\ j <= stored
        BY <1>s, <1>v, <2>2, <2>5, <3>2 DEF Latest, Used
      <4>2. \A j \in Used : ~(j > stored)
        BY <1>0, <4>1, DeliveryAssumption DEF Attempt
      <4> QED BY <1>s, <2>1, <2>6, <4>2 DEF Once, Used
    <3> QED BY <2>2, <3>1, <3>2
  <2> QED BY <2>8, <2>9, <2>10, <2>11, <2>12 DEF Safe
<1>20. ASSUME NEW c \in Copy, Respond(c) PROVE Safe'
  <2>1. MovedNet(c, {"answered"})
    BY <1>0, <1>20, RespondEffect
  <2>2. UNCHANGED <<op, screen, load, signedIn, stored, attempt, assignment, done, settled,
     crossed>>
    BY <1>20 DEF Respond, server, phone
  <2>3. \A k \in Attempt : Running(k)' => Running(k)
    BY <1>0, <1>v, <1>i, <2>1 DEF Running, MovedNet
  <2>4. Alone'
    BY <1>s, <2>2 DEF Alone
  <2>5. Holds'
    BY <1>s, <2>2 DEF Holds
  <2>6. Fresh'
    BY <1>s, <2>2 DEF Fresh
  <2>7. Agree'
    BY <1>s, <2>2 DEF Agree
  <2>8. Seen'
    BY <1>0, <1>v, <1>b, <1>s, <1>i, <1>k, <2>1, <2>2, <2>3 DEF Seen
  <2>9. Latest'
    BY <1>s, <2>2 DEF Latest, Used
  <2>10. Accounted'
    BY <1>0, <1>v, <1>b, <1>s, <1>i, <2>1, <2>2, <2>3 DEF Accounted
  <2>11. Read'
    BY <1>s, <2>2 DEF Read
  <2>12. Once'
    BY <1>s, <2>2 DEF Once, Used
  <2> QED BY <2>4, <2>5, <2>6, <2>7, <2>8, <2>9, <2>10, <2>11, <2>12 DEF Safe
<1>21. ASSUME NEW c \in Copy, Refuse(c) \/ Lose(c) PROVE Safe'
  <2>1. MovedNet(c, {"refused"})
    BY <1>0, <1>21, LoseEffect
  <2>2. UNCHANGED <<op, screen, load, signedIn, stored, attempt, assignment, done, settled,
     crossed>>
    BY <1>21 DEF Refuse, Lose, server, phone
  <2>3. \A k \in Attempt : Running(k)' => Running(k)
    BY <1>0, <1>v, <1>i, <2>1 DEF Running, MovedNet
  <2>4. Alone'
    BY <1>s, <2>2 DEF Alone
  <2>5. Holds'
    BY <1>s, <2>2 DEF Holds
  <2>6. Fresh'
    BY <1>s, <2>2 DEF Fresh
  <2>7. Agree'
    BY <1>s, <2>2 DEF Agree
  <2>8. Seen'
    BY <1>0, <1>v, <1>b, <1>s, <1>i, <1>k, <2>1, <2>2, <2>3 DEF Seen
  <2>9. Latest'
    BY <1>s, <2>2 DEF Latest, Used
  <2>10. Accounted'
    BY <1>0, <1>v, <1>b, <1>s, <1>i, <2>1, <2>2, <2>3 DEF Accounted
  <2>11. Read'
    BY <1>s, <2>2 DEF Read
  <2>12. Once'
    BY <1>s, <2>2 DEF Once, Used
  <2> QED BY <2>4, <2>5, <2>6, <2>7, <2>8, <2>9, <2>10, <2>11, <2>12 DEF Safe
<1>22. CASE UNCHANGED deliveryVars
  BY <1>22, <1>s DEF deliveryVars, Safe, Alone, Holds, Fresh, Agree, Seen, Latest, Accounted, Read,
     Once, Used, Running
<1> QED
  BY <1>1, <1>2, <1>3, <1>4, <1>5, <1>6, <1>7, <1>8, <1>9, <1>10, <1>11, <1>12, <1>13, <1>14,
     <1>15, <1>16, <1>17, <1>18, <1>19, <1>20, <1>21, <1>22 DEF DeliveryNext, Screen, Server, Button

(* The inductive invariant.                                                *)
DeliveryInv == Base /\ (crossed \/ Safe)

(* It holds in every reachable state.                                      *)
LEMMA Invariance == DeliverySpec => []DeliveryInv
<1>1. DeliveryInit => DeliveryInv
  BY BaseInit, SafeInit DEF DeliveryInv
<1>2. DeliveryInv /\ [DeliveryNext]_deliveryVars => DeliveryInv'
  BY BaseStep, SafeStep, CrossedStays DEF DeliveryInv
<1> QED BY <1>1, <1>2, PTL DEF DeliverySpec

(* Types.                                                                  *)
THEOREM DeliveryTypes == DeliverySpec => []TypeOK
<1>1. DeliveryInv => TypeOK
  BY DEF DeliveryInv, Base
<1> QED BY <1>1, Invariance, PTL

(* Whatever the server executed or may still execute is known to the       *)
(* phone: captain-deliveries.tsx stores an attempt before it sends it and  *)
(* lets go of it for a confirmation or a readback that excludes it.        *)
THEOREM ResultAccounted == DeliverySpec => []AttemptAccounted
<1>1. DeliveryInv => AttemptAccounted
  BY DEF DeliveryInv, Safe, Accounted, AttemptAccounted
<1> QED BY <1>1, Invariance, PTL

(* Nor does the screen take a second decision on a delivery that an        *)
(* earlier one has ended, whatever was lost and however often the app died.*)
THEOREM OneDecision == DeliverySpec => []DecidedOnce
<1>1. DeliveryInv => DecidedOnce
  BY DEF DeliveryInv, Safe, Once, DecidedOnce
<1> QED BY <1>1, Invariance, PTL
=============================================================================
