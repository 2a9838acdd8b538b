------------------------ MODULE CartCheckoutProofs ------------------------
(***************************************************************************)
(* Theorems about CartCheckout, for any totals, copies, attempts and       *)
(* bounds.  The steps are first restated field by field (records are       *)
(* opened once), then the invariant is proved in three layers:             *)
(*   1. types, and which attempt an activity and a request are about;      *)
(*   2. the transaction of the server (Placed), which gives one order at   *)
(*      the confirmed total, whatever the phone does;                      *)
(*   3. the attempt on the phone (Safe), which gives that every intent is  *)
(*      accounted for, as long as no screen is opened over a running       *)
(*      checkout.                                                          *)
(***************************************************************************)
EXTENDS CartCheckout, TLAPS, FiniteSetTheorems

----------------------------------------------------------------------------
(* Requests and activities, field by field. *)

(* A free slot. *)
LEMMA FreeRequest ==
  /\ Free \in Request
  /\ Free.st = "free" /\ Free.key = 0 /\ Free.to = "none" /\ Free.why = "none"
  BY BoundsAssumption DEF Free, Request

(* The fields of a request. *)
LEMMA RequestFields ==
  ASSUME NEW r \in Request
  PROVE  /\ r.st \in {"free", "sent", "resolved", "held", "paid", "undo", "answered"}
         /\ r.key \in 0..MaxAttempt /\ r.to \in Activity \union {"none"}
         /\ r.why \in Answers \union {"none"}
  BY DEF Request

(* Changing who waits keeps the rest of a request. *)
LEMMA Redirected ==
  ASSUME NEW r \in Request, NEW t \in Activity \union {"none"}
  PROVE  LET s == [r EXCEPT !.to = t]
         IN s \in Request /\ s.st = r.st /\ s.key = r.key /\ s.to = t /\ s.why = r.why
  BY DEF Request

(* Moving a copy on keeps the rest of its request. *)
LEMMA Entered ==
  ASSUME NEW r \in Request, NEW s \in {"sent", "resolved", "held", "paid", "undo"}
  PROVE  LET t == [r EXCEPT !.st = s]
         IN t \in Request /\ t.st = s /\ t.key = r.key /\ t.to = r.to /\ t.why = r.why
  BY DEF Request

(* An answer keeps what it answers. *)
LEMMA Replied ==
  ASSUME NEW r \in Request, NEW w \in Answers
  PROVE  LET s == [r EXCEPT !.st = "answered", !.why = w]
         IN s \in Request /\ s.st = "answered" /\ s.key = r.key /\ s.to = r.to /\ s.why = w
  BY DEF Request

(* A request that leaves the phone. *)
LEMMA FreshRequest ==
  ASSUME NEW k \in 0..MaxAttempt, NEW a \in Activity
  PROVE  LET s == [st |-> "sent", key |-> k, to |-> a, why |-> "none"]
         IN s \in Request /\ s.st = "sent" /\ s.key = k /\ s.to = a /\ s.why = "none"
  BY DEF Request

(* The request of a copy after a step of the server. *)
Becomes(c, m) ==
  /\ net' = [net EXCEPT ![c] = m]
  /\ m \in Request
  /\ \/ m = Free
     \/ m.st # "free" /\ m.key = net[c].key /\ m.to = net[c].to

(* Answer changes one request. *)
LEMMA AnswerBecomes ==
  ASSUME net \in [Copy -> Request], NEW c \in Copy, NEW w \in Answers, Answer(c, w)
  PROVE  /\ \E m : Becomes(c, m) /\ (m = Free \/ (m.st = "answered" /\ m.why = w /\ net[c].to # "none"))
         /\ overtaken' = (overtaken \/ (w = "refused" /\ MayFollow(c)))
<1>1. CASE net[c].to = "none"
  <2>1. Becomes(c, Free)
    BY <1>1, FreeRequest DEF Answer, Becomes
  <2> QED BY <2>1, <1>1 DEF Answer
<1>2. CASE net[c].to # "none"
  <2> DEFINE m == [net[c] EXCEPT !.st = "answered", !.why = w]
  <2>1. m \in Request /\ m.st = "answered" /\ m.key = net[c].key /\ m.to = net[c].to /\ m.why = w
    BY Replied
  <2>2. net' = [net EXCEPT ![c] = m]
    BY <1>2 DEF Answer
  <2> HIDE DEF m
  <2>3. Becomes(c, m)
    BY <2>1, <2>2 DEF Becomes
  <2> QED BY <1>2, <2>1, <2>3 DEF Answer
<1> QED BY <1>1, <1>2

(* Enter changes one request. *)
LEMMA EnterBecomes ==
  ASSUME net \in [Copy -> Request], NEW c \in Copy,
         NEW s \in {"resolved", "held", "paid", "undo"}, Enter(c, s)
  PROVE  /\ \E m : Becomes(c, m) /\ m.st = s /\ m.why = net[c].why
         /\ overtaken' = overtaken
<1> DEFINE m == [net[c] EXCEPT !.st = s]
<1>1. m \in Request /\ m.st = s /\ m.key = net[c].key /\ m.to = net[c].to /\ m.why = net[c].why
  <2>1. net[c] \in Request
    OBVIOUS
  <2>2. s \in {"sent", "resolved", "held", "paid", "undo"}
    OBVIOUS
  <2> QED BY <2>1, <2>2, Entered
<1>2. net' = [net EXCEPT ![c] = m] /\ overtaken' = overtaken
  BY DEF Enter
<1> HIDE DEF m
<1>3. Becomes(c, m)
  BY <1>1, <1>2 DEF Becomes
<1> QED BY <1>1, <1>2, <1>3

ServerAt(c) ==
  \/ Resolve(c) \/ CreateOrder(c) \/ ProvisionPayment(c) \/ Commit(c)
  \/ Rollback(c) \/ Compensate(c) \/ Lose(c)

(* A step of the server changes the request of its copy only. *)
LEMMA ServerBecomes ==
  ASSUME net \in [Copy -> Request], NEW c \in Copy, ServerAt(c)
  PROVE  (\E m : Becomes(c, m)) /\ net[c].st # "free" /\ UNCHANGED phone
<1>1. "order" \in Answers /\ "closed" \in Answers /\ "unknown" \in Answers
      /\ "refused" \in Answers /\ "reconciled" \in Answers /\ "note" \in Answers
  BY DEF Answers, Definitive
<1>2. ASSUME NEW w \in Answers, Answer(c, w) PROVE \E m : Becomes(c, m)
  BY <1>2, AnswerBecomes
<1>3. ASSUME NEW s \in {"resolved", "held", "paid", "undo"}, Enter(c, s) PROVE \E m : Becomes(c, m)
  BY <1>3, EnterBecomes
<1>4. CASE Resolve(c)
  BY <1>1, <1>2, <1>3, <1>4 DEF Resolve, ResolveAttempt, Reconcile
<1>5. CASE CreateOrder(c)
  BY <1>1, <1>2, <1>3, <1>5 DEF CreateOrder, Reconcile
<1>6. CASE ProvisionPayment(c)
  BY <1>1, <1>2, <1>3, <1>6 DEF ProvisionPayment, externalMutationOutcome
<1>7. CASE Commit(c)
  BY <1>1, <1>2, <1>3, <1>7 DEF Commit
<1>8. CASE Rollback(c)
  BY <1>3, <1>8 DEF Rollback
<1>9. CASE Compensate(c)
  BY <1>1, <1>2, <1>9 DEF Compensate
<1>10. CASE Lose(c)
  <2>1. Becomes(c, Free)
    BY <1>10, FreeRequest DEF Lose, Becomes
  <2> QED BY <2>1, <1>10 DEF Lose
<1> QED BY <1>4, <1>5, <1>6, <1>7, <1>8, <1>9, <1>10 DEF ServerAt

(* The fields of an activity. *)
LEMMA OpFields ==
  ASSUME NEW r \in Op
  PROVE  /\ r.pc \in {"idle", "read", "order", "cart", "prepare", "kept", "wait", "readback"}
         /\ r.kind \in {"none", "load", "checkout"} /\ r.key \in 0..MaxAttempt
         /\ r.why \in Answers \union {"none", "lost"}
  BY DEF Op

(* An idle activity. *)
LEMMA IdleOp ==
  /\ Idle \in Op
  /\ Idle.pc = "idle" /\ Idle.kind = "none" /\ Idle.key = 0 /\ Idle.why = "none"
  BY BoundsAssumption DEF Idle, Op

(* The activity that StartLoad begins. *)
LEMMA LoadOp ==
  LET s == [Idle EXCEPT !.pc = "read", !.kind = "load"]
  IN s \in Op /\ s.pc = "read" /\ s.kind = "load" /\ s.key = 0 /\ s.why = "none"
  BY IdleOp DEF Op, Idle

(* The activity that Confirm begins. *)
LEMMA ConfirmOp ==
  ASSUME NEW k \in Attempt
  PROVE  LET s == [Idle EXCEPT !.pc = "prepare", !.kind = "checkout", !.key = k]
         IN s \in Op /\ s.pc = "prepare" /\ s.kind = "checkout" /\ s.key = k /\ s.why = "none"
<1>1. k \in 0..MaxAttempt
  BY BoundsAssumption DEF Attempt
<1> QED BY <1>1 DEF Op, Idle

(* An activity whose request leaves. *)
LEMMA SentOp ==
  ASSUME NEW r \in Op, NEW k \in 0..MaxAttempt
  PROVE  LET s == [r EXCEPT !.pc = "wait", !.key = k]
         IN s \in Op /\ s.pc = "wait" /\ s.kind = r.kind /\ s.key = k /\ s.why = r.why
  BY DEF Op

(* An activity that has its answer. *)
LEMMA ReadbackOp ==
  ASSUME NEW r \in Op, NEW w \in Answers \union {"none", "lost"}
  PROVE  LET s == [r EXCEPT !.pc = "readback", !.why = w]
         IN s \in Op /\ s.pc = "readback" /\ s.kind = r.kind /\ s.key = r.key /\ s.why = w
  BY DEF Op

----------------------------------------------------------------------------
(* What the steps of the phone do to its activities and to the requests,   *)
(* field by field.                                                         *)

At(a, pc, kind, key, why) ==
  /\ run' \in [Activity -> Op]
  /\ run'[a].pc = pc /\ run'[a].kind = kind /\ run'[a].key = key /\ run'[a].why = why
  /\ \A b \in Activity \ {a} : run'[b] = run[b]

Stopped(a) == At(a, "idle", "none", 0, "none") /\ run'[a] = Idle
LeftRun ==
  /\ run' \in [Activity -> Op] /\ run'["cur"] = Idle
  /\ \/ run'["old"] = run["old"] /\ run["cur"].pc \in {"idle", "read", "order", "cart"}
     \/ run["old"] = Idle /\ run'["old"] = run["cur"]
KilledRun == run' \in [Activity -> Op] /\ \A a \in Activity : run'[a] = Idle

LeftNet ==
  /\ net' \in [Copy -> Request]
  /\ \A d \in Copy : /\ net'[d].st = net[d].st /\ net'[d].key = net[d].key
                     /\ net'[d].why = net[d].why
                     /\ net'[d].to = IF net[d].to = "cur" THEN "old" ELSE net[d].to
DeafNet(S) ==
  /\ net' \in [Copy -> Request]
  /\ \A d \in Copy :
       \/ net'[d] = Free /\ net[d].st = "answered" /\ d \in S
       \/ /\ net'[d].st = net[d].st /\ net'[d].key = net[d].key
          /\ net'[d].why = net[d].why
          /\ net'[d].to = IF d \in S THEN "none" ELSE net[d].to
          /\ d \in S => net[d].st # "answered"
SentNet(a, k) ==
  /\ net' \in [Copy -> Request]
  /\ \E c \in Copy : /\ net[c] = Free
                     /\ net'[c].st = "sent" /\ net'[c].key = k
                     /\ net'[c].to = a /\ net'[c].why = "none"
                     /\ \A d \in Copy \ {c} : net'[d] = net[d]
FreedNet(c) ==
  /\ net' \in [Copy -> Request] /\ net'[c] = Free
  /\ \A d \in Copy \ {c} : net'[d] = net[d]
To(a) == {d \in Copy : net[d].to = a}

(* Unmounted, on the activities. *)
LEMMA LeftRunEffect ==
  ASSUME run \in [Activity -> Op], Unmounted
  PROVE  LeftRun /\ screen' = NoScreen
  BY IdleOp DEF Unmounted, Overtakes, Activity, Quiet, LeftRun

(* Unmounted, on the requests. *)
LEMMA LeftNetEffect ==
  ASSUME net \in [Copy -> Request], Unmounted
  PROVE  LeftNet
<1> DEFINE f(d) == IF net[d].to = "cur" THEN [net[d] EXCEPT !.to = "old"] ELSE net[d]
<1>1. ASSUME NEW d \in Copy
      PROVE  /\ f(d) \in Request
             /\ f(d).st = net[d].st /\ f(d).key = net[d].key /\ f(d).why = net[d].why
             /\ f(d).to = IF net[d].to = "cur" THEN "old" ELSE net[d].to
  <2>1. net[d] \in Request /\ "old" \in Activity \union {"none"}
    BY DEF Activity
  <2> QED BY <2>1, Redirected
<1>2. net' = [d \in Copy |-> f(d)]
  BY DEF Unmounted
<1> HIDE DEF f
<1> QED BY <1>1, <1>2 DEF LeftNet

(* Copies nobody listens to any more. *)
LEMMA DeafNetEffect ==
  ASSUME net \in [Copy -> Request], NEW S \in SUBSET Copy,
         net' = [d \in Copy |-> IF d \notin S THEN net[d]
                                ELSE IF net[d].st = "answered" THEN Free
                                ELSE [net[d] EXCEPT !.to = "none"]]
  PROVE  DeafNet(S)
<1> DEFINE f(d) == IF d \notin S THEN net[d] ELSE IF net[d].st = "answered" THEN Free
                   ELSE [net[d] EXCEPT !.to = "none"]
<1>1. ASSUME NEW d \in Copy
      PROVE  /\ f(d) \in Request
             /\ \/ f(d) = Free /\ net[d].st = "answered" /\ d \in S
                \/ /\ f(d).st = net[d].st /\ f(d).key = net[d].key
                   /\ f(d).why = net[d].why
                   /\ f(d).to = IF d \in S THEN "none" ELSE net[d].to
                   /\ d \in S => net[d].st # "answered"
  <2>1. net[d] \in Request
    OBVIOUS
  <2> QED BY <2>1, Redirected, FreeRequest
<1>2. net' = [d \in Copy |-> f(d)]
  OBVIOUS
<1> HIDE DEF f
<1> QED BY <1>1, <1>2 DEF DeafNet

(* Kill. *)
LEMMA KillEffect ==
  ASSUME net \in [Copy -> Request], Kill
  PROVE  KilledRun /\ DeafNet(Copy)
<1>1. KilledRun
  BY IdleOp DEF Kill, KilledRun
<1> DEFINE S == Copy
<1>2. net' = [d \in Copy |-> IF d \notin S THEN net[d]
                             ELSE IF net[d].st = "answered" THEN Free
                             ELSE [net[d] EXCEPT !.to = "none"]]
  BY DEF Kill
<1>3. S \in SUBSET Copy
  OBVIOUS
<1> HIDE DEF S
<1>4. DeafNet(S)
  BY <1>2, <1>3, DeafNetEffect
<1> QED BY <1>1, <1>4 DEF S

(* GiveUp. *)
LEMMA GiveUpEffect ==
  ASSUME net \in [Copy -> Request], run \in [Activity -> Op], NEW a \in Activity, GiveUp(a)
  PROVE  DeafNet(To(a)) /\ At(a, "readback", run[a].kind, run[a].key, "lost")
<1>1. net' = [d \in Copy |-> IF d \notin To(a) THEN net[d]
                             ELSE IF net[d].st = "answered" THEN Free
                             ELSE [net[d] EXCEPT !.to = "none"]]
  BY DEF GiveUp, To
<1>2. To(a) \in SUBSET Copy
  BY DEF To
<1>3. DeafNet(To(a))
  BY <1>1, <1>2, DeafNetEffect
<1> DEFINE o == [run[a] EXCEPT !.pc = "readback", !.why = "lost"]
<1>4. o \in Op /\ o.pc = "readback" /\ o.kind = run[a].kind /\ o.key = run[a].key /\ o.why = "lost"
  BY ReadbackOp
<1>5. run' = [run EXCEPT ![a] = o]
  BY DEF GiveUp
<1> HIDE DEF o
<1>6. At(a, "readback", run[a].kind, run[a].key, "lost")
  BY <1>4, <1>5 DEF At
<1> QED BY <1>3, <1>6

(* checkoutCart. *)
LEMMA SendEffect ==
  ASSUME net \in [Copy -> Request], run \in [Activity -> Op],
         NEW a \in Activity, NEW k \in 0..MaxAttempt, checkoutCart(a, k)
  PROVE  SentNet(a, k) /\ At(a, "wait", run[a].kind, k, run[a].why)
<1> DEFINE o == [run[a] EXCEPT !.pc = "wait", !.key = k]
           m == [st |-> "sent", key |-> k, to |-> a, why |-> "none"]
<1>1. o \in Op /\ o.pc = "wait" /\ o.key = k /\ o.kind = run[a].kind /\ o.why = run[a].why
  BY SentOp
<1>2. m \in Request /\ m.st = "sent" /\ m.key = k /\ m.to = a /\ m.why = "none"
  BY FreshRequest
<1>3. run' = [run EXCEPT ![a] = o]
  BY DEF checkoutCart
<1>4. \E c \in Copy : net[c] = Free /\ net' = [net EXCEPT ![c] = m]
  BY DEF checkoutCart
<1> HIDE DEF o, m
<1>5. SentNet(a, k)
  BY <1>2, <1>4 DEF SentNet
<1> QED BY <1>1, <1>3, <1>5 DEF At

(* StartLoad. *)
LEMMA LoadEffect ==
  ASSUME run \in [Activity -> Op], NEW v, StartLoad(v)
  PROVE  /\ At("cur", "read", "load", 0, "none")
         /\ screen' = [view |-> v, ver |-> 0, total |-> 0]
<1> DEFINE o == [Idle EXCEPT !.pc = "read", !.kind = "load"]
<1>1. o \in Op /\ o.pc = "read" /\ o.key = 0 /\ o.kind = "load" /\ o.why = "none"
  BY LoadOp
<1>2. run' = [run EXCEPT !["cur"] = o] /\ screen' = [view |-> v, ver |-> 0, total |-> 0]
  BY DEF StartLoad
<1> HIDE DEF o
<1> QED BY <1>1, <1>2 DEF Activity, At

(* An activity stops. *)
LEMMA IdleEffect ==
  ASSUME run \in [Activity -> Op], NEW a \in Activity, run' = [run EXCEPT ![a] = Idle]
  PROVE  Stopped(a)
  BY IdleOp DEF Stopped, At

(* LoadRead. *)
LEMMA LoadReadEffect ==
  ASSUME run \in [Activity -> Op], stored \in 0..MaxAttempt, LoadRead
  PROVE  At("cur", IF stored # 0 THEN "order" ELSE "cart", run["cur"].kind, stored, run["cur"].why)
<1> DEFINE p == IF stored # 0 THEN "order" ELSE "cart"
           o == [run["cur"] EXCEPT !.pc = p, !.key = stored]
<1>1. run["cur"] \in Op /\ p \in {"order", "cart"}
  BY DEF Activity
<1>2. o \in Op /\ o.pc = p /\ o.key = stored /\ o.kind = run["cur"].kind /\ o.why = run["cur"].why
  BY <1>1 DEF Op
<1>3. run' = [run EXCEPT !["cur"] = o]
  BY DEF LoadRead
<1> HIDE DEF o, p
<1>4. At("cur", p, run["cur"].kind, stored, run["cur"].why)
  BY <1>2, <1>3 DEF Activity, At
<1> QED BY <1>4 DEF p

(* LoadOrder. *)
LEMMA LoadOrderEffect ==
  ASSUME net \in [Copy -> Request], run \in [Activity -> Op], LoadOrder
  PROVE  \/ orders # {} /\ Stopped("cur") /\ UNCHANGED net /\ stored' \in {0, stored}
         \/ /\ SentNet("cur", run["cur"].key)
            /\ At("cur", "wait", run["cur"].kind, run["cur"].key, run["cur"].why)
            /\ UNCHANGED stored
<1>1. "cur" \in Activity /\ run["cur"].key \in 0..MaxAttempt
  BY OpFields DEF Activity
<1>2. CASE orders # {} /\ finishCheckout("cur") /\ UNCHANGED net
  BY <1>1, <1>2, IdleEffect DEF finishCheckout, Discard
<1>3. CASE Unseen /\ Resend(run["cur"].key) /\ UNCHANGED stored
  BY <1>1, <1>3, SendEffect DEF Resend
<1> QED BY <1>2, <1>3 DEF LoadOrder

(* readOpenCart. *)
LEMMA readOpenCartEffect ==
  ASSUME run \in [Activity -> Op], readOpenCart
  PROVE  Stopped("cur")
  BY IdleEffect DEF readOpenCart, Activity

(* Confirm: the attempt is one that was not used. *)
LEMMA ConfirmEffect ==
  ASSUME run \in [Activity -> Op], confirmed \in [Attempt -> [total : Price \union {0}, ver : Nat, note : BOOLEAN]],
         screen \in Screen, Confirm
  PROVE  /\ confirmed' \in [Attempt -> [total : Price \union {0}, ver : Nat, note : BOOLEAN]]
         /\ \E k \in Attempt :
              /\ confirmed[k].ver = 0 /\ confirmed'[k].ver = screen.ver
              /\ \A i \in Attempt \ {k} : confirmed'[i] = confirmed[i]
              /\ At("cur", "prepare", "checkout", k, "none")
<1> DEFINE q(v) == [total |-> screen.total, ver |-> screen.ver, note |-> v]
<1>1. PICK k \in Unused : /\ \E v \in BOOLEAN : confirmed' = [confirmed EXCEPT ![k] = q(v)]
                         /\ run' = [run EXCEPT !["cur"] = [Idle EXCEPT !.pc = "prepare", !.kind = "checkout", !.key = k]]
  BY DEF Confirm
<1> DEFINE o == [Idle EXCEPT !.pc = "prepare", !.kind = "checkout", !.key = k]
<1>2. k \in Attempt /\ confirmed[k].ver = 0
  BY DEF Unused
<1>3. o \in Op /\ o.pc = "prepare" /\ o.key = k /\ o.kind = "checkout" /\ o.why = "none"
  BY <1>2, ConfirmOp
<1>4. ASSUME NEW v \in BOOLEAN
      PROVE  q(v) \in [total : Price \union {0}, ver : Nat, note : BOOLEAN] /\ q(v).ver = screen.ver
  BY DEF Screen
<1>5. run' = [run EXCEPT !["cur"] = o] /\ \E v \in BOOLEAN : confirmed' = [confirmed EXCEPT ![k] = q(v)]
  BY <1>1
<1> HIDE DEF o, q
<1> QED BY <1>2, <1>3, <1>4, <1>5 DEF Activity, At

(* Keep. *)
LEMMA KeepEffect ==
  ASSUME run \in [Activity -> Op], NEW a \in Activity, Keep(a)
  PROVE  \/ At(a, "kept", run[a].kind, run[a].key, run[a].why) /\ stored' = run[a].key
         \/ Stopped(a) /\ UNCHANGED stored
<1> DEFINE o == [run[a] EXCEPT !.pc = "kept"]
<1>1. o \in Op /\ o.pc = "kept" /\ o.key = run[a].key /\ o.kind = run[a].kind /\ o.why = run[a].why
  BY DEF Op
<1>2. \/ run' = [run EXCEPT ![a] = o] /\ stored' = run[a].key
      \/ run' = [run EXCEPT ![a] = Idle] /\ UNCHANGED stored
  BY DEF Keep, Stop
<1> HIDE DEF o
<1> QED BY <1>1, <1>2, IdleEffect DEF At

(* Send. *)
LEMMA SendingEffect ==
  ASSUME net \in [Copy -> Request], run \in [Activity -> Op], NEW a \in Activity, Send(a)
  PROVE  \/ /\ SentNet(a, run[a].key)
            /\ At(a, "wait", run[a].kind, run[a].key, run[a].why)
            /\ UNCHANGED stored
         \/ ~owner /\ Stopped(a) /\ UNCHANGED net /\ stored' \in {0, stored}
<1>1. run[a].key \in 0..MaxAttempt
  BY OpFields
<1>2. CASE owner /\ checkoutCart(a, run[a].key) /\ UNCHANGED stored
  BY <1>1, <1>2, SendEffect
<1>3. CASE ~owner /\ Discard /\ Stop(a) /\ UNCHANGED net
  BY <1>3, IdleEffect DEF Stop, Discard
<1> QED BY <1>2, <1>3 DEF Send

(* Receive. *)
LEMMA ReceiveEffect ==
  ASSUME net \in [Copy -> Request], run \in [Activity -> Op],
         NEW a \in Activity, NEW c \in Copy, Receive(a, c)
  PROVE  /\ FreedNet(c) /\ net[c].to = a /\ net[c].st = "answered" /\ run[a].pc = "wait"
         /\ \/ Stopped(a) /\ UNCHANGED stored
            \/ Stopped(a) /\ net[c].why = "order" /\ stored' \in {0, stored}
            \/ /\ At(a, "readback", run[a].kind, run[a].key, net[c].why)
               /\ net[c].why # "order" /\ UNCHANGED stored
<1>1. net' = [net EXCEPT ![c] = Free] /\ Waiting(a, c) /\ net[c].st = "answered"
  BY DEF Receive
<1>2. FreedNet(c) /\ net[c].to = a /\ run[a].pc = "wait"
  BY <1>1, FreeRequest DEF FreedNet, Waiting
<1> DEFINE o == [run[a] EXCEPT !.pc = "readback", !.why = net[c].why]
<1>3. run[a] \in Op /\ net[c].why \in Answers \union {"none", "lost"}
  <2>1. net[c] \in Request
    OBVIOUS
  <2>2. net[c].why \in Answers \union {"none"}
    BY <2>1, RequestFields
  <2> QED BY <2>2
<1>4. o \in Op /\ o.pc = "readback" /\ o.key = run[a].key /\ o.kind = run[a].kind /\ o.why = net[c].why
  <2> DEFINE w == net[c].why
  <2>1. run[a] \in Op /\ w \in Answers \union {"none", "lost"}
    BY <1>3
  <2> HIDE DEF w
  <2>2. LET s == [run[a] EXCEPT !.pc = "readback", !.why = w]
        IN s \in Op /\ s.pc = "readback" /\ s.kind = run[a].kind /\ s.key = run[a].key /\ s.why = w
    BY <2>1, ReadbackOp
  <2> QED BY <2>2 DEF w
<1>5. \/ run' = [run EXCEPT ![a] = Idle] /\ UNCHANGED stored
      \/ run' = [run EXCEPT ![a] = Idle] /\ net[c].why = "order" /\ stored' \in {0, stored}
      \/ run' = [run EXCEPT ![a] = o] /\ net[c].why # "order" /\ UNCHANGED stored
  BY DEF Receive, Stop, finishCheckout, Discard
<1> HIDE DEF o
<1> QED BY <1>1, <1>2, <1>4, <1>5, IdleEffect DEF At

(* Readback. *)
LEMMA ReadbackEffect ==
  ASSUME run \in [Activity -> Op], NEW a \in Activity, Readback(a)
  PROVE  \/ Stopped(a)
         \/ a = "cur" /\ At("cur", "read", "load", 0, "none")
<1>1. \/ run' = [run EXCEPT ![a] = Idle]
      \/ a = "cur" /\ StartLoad("loading")
  BY DEF Readback, Stop, finishCheckout
<1> QED BY <1>1, IdleEffect, LoadEffect

(* Layer 1: types, and which attempt an activity and a request are about.  *)

Keyed ==
  /\ \A a \in Activity :
       run[a].pc \in {"order", "prepare", "kept", "wait", "readback"} => run[a].key # 0
  /\ \A c \in Copy : net[c].st # "free" => net[c].key # 0

Listening ==
  /\ \A c \in Copy : \A a \in Activity :
       net[c].to = a => run[a].pc = "wait" /\ run[a].key = net[c].key
  /\ \A c, d \in Copy : net[c].to = net[d].to /\ net[c].to # "none" => c = d

Mounted == screen.view = "none" => run["cur"] = Idle

(* A step keeps every variable in its type. *)
LEMMA TypeStep == TypeOK /\ Keyed /\ [Next]_vars => TypeOK'
<1> SUFFICES ASSUME TypeOK, Keyed, [Next]_vars PROVE TypeOK'
  OBVIOUS
<1> USE BoundsAssumption
<1>0. /\ run \in [Activity -> Op] /\ net \in [Copy -> Request]
      /\ screen \in Screen /\ stored \in 0..MaxAttempt
      /\ faults \in 0..MaxFaults /\ edits \in 0..MaxEdits
      /\ confirmed \in [Attempt -> [total : Price \union {0}, ver : Nat, note : BOOLEAN]]
      /\ intent \in [Attempt -> {"none", "collect", "cancelled"}]
      /\ price \in Price /\ cart \in [open : BOOLEAN, ver : Nat \ {0}]
      /\ wlt \in {"takes", "short", "refuses"} /\ owner \in BOOLEAN /\ accepting \in BOOLEAN /\ overtaken \in BOOLEAN
      /\ orders \subseteq [key : Attempt, total : Price]
  BY DEF TypeOK
<1>1. CASE Leave
  <2>1. screen' \in Screen
    BY <1>0, <1>1 DEF Leave, Unmounted, NoScreen, Screen
  <2>2. run' \in [Activity -> Op]
    BY <1>0, <1>1, LeftRunEffect DEF Leave, LeftRun
  <2>3. net' \in [Copy -> Request]
    BY <1>0, <1>1, LeftNetEffect DEF Leave, LeftNet
  <2>4. edits' \in 0..MaxEdits
    BY <1>0, <1>1 DEF Leave
  <2>5. UNCHANGED <<stored, faults, cart, price, orders, intent, confirmed, overtaken,
                    owner, accepting, wlt>>
    BY <1>1 DEF Leave, shop, Unmounted, NoFault
  <2> QED
    BY <1>0, <2>1, <2>2, <2>3, <2>4, <2>5 DEF TypeOK
<1>2. CASE SignOut
  <2>1. screen' \in Screen
    BY <1>0, <1>2 DEF SignOut, Unmounted, NoScreen, Screen
  <2>2. run' \in [Activity -> Op]
    BY <1>0, <1>2, LeftRunEffect DEF SignOut, LeftRun
  <2>3. net' \in [Copy -> Request]
    BY <1>0, <1>2, LeftNetEffect DEF SignOut, LeftNet
  <2>4. owner' \in BOOLEAN
    BY <1>0, <1>2 DEF SignOut
  <2>5. faults' \in 0..MaxFaults
    <3>1. NoFault \/ Fault
      BY <1>2 DEF SignOut
    <3> QED BY <1>0, <3>1 DEF Fault, NoFault
  <2>6. UNCHANGED <<stored, edits, cart, price, orders, intent, confirmed, overtaken,
                    accepting, wlt>>
    BY <1>2 DEF SignOut, shop, Unmounted, NoFault
  <2> QED
    BY <1>0, <2>1, <2>2, <2>3, <2>4, <2>5, <2>6 DEF TypeOK
<1>3. CASE SignIn
  <2>1. owner' \in BOOLEAN
    BY <1>0, <1>3 DEF SignIn
  <2>2. UNCHANGED <<run, net, screen, stored, faults, edits, cart, price, orders,
                    intent, confirmed, overtaken, accepting, wlt>>
    BY <1>3 DEF SignIn, shop, count, NoFault
  <2> QED
    BY <1>0, <2>1, <2>2 DEF TypeOK
<1>4. CASE Kill
  <2>1. screen' \in Screen
    BY <1>0, <1>4 DEF Kill, NoScreen, Screen
  <2>2. run' \in [Activity -> Op]
    BY <1>0, <1>4, KillEffect DEF KilledRun
  <2>3. net' \in [Copy -> Request]
    BY <1>0, <1>4, KillEffect DEF DeafNet
  <2>4. faults' \in 0..MaxFaults
    <3>1. NoFault \/ Fault
      BY <1>4 DEF Kill
    <3> QED BY <1>0, <3>1 DEF Fault, NoFault
  <2>5. UNCHANGED <<stored, edits, cart, price, orders, intent, confirmed, overtaken,
                    owner, accepting, wlt>>
    BY <1>4 DEF Kill, shop, NoFault
  <2> QED
    BY <1>0, <2>1, <2>2, <2>3, <2>4, <2>5 DEF TypeOK
<1>5. CASE OpenScreen
  <2>1. screen' \in Screen
    BY <1>0, <1>5 DEF OpenScreen, StartLoad, Screen
  <2>2. run' \in [Activity -> Op]
    BY <1>0, <1>5, LoadEffect DEF OpenScreen, At
  <2>3. UNCHANGED <<net, stored, faults, edits, cart, price, orders, intent, confirmed,
                    overtaken, owner, accepting, wlt>>
    BY <1>5 DEF OpenScreen, shop, count, StartLoad, NoFault
  <2> QED
    BY <1>0, <2>1, <2>2, <2>3 DEF TypeOK
<1>6. CASE Verify
  <2>1. screen' \in Screen
    BY <1>0, <1>6 DEF Verify, StartLoad, Screen
  <2>2. run' \in [Activity -> Op]
    BY <1>0, <1>6, LoadEffect DEF Verify, At
  <2>3. UNCHANGED <<net, stored, faults, edits, cart, price, orders, intent, confirmed,
                    overtaken, owner, accepting, wlt>>
    BY <1>6 DEF Verify, shop, count, StartLoad, NoFault
  <2> QED
    BY <1>0, <2>1, <2>2, <2>3 DEF TypeOK
<1>7. CASE refreshQuote
  <2>1. screen' \in Screen
    BY <1>0, <1>7 DEF refreshQuote, Screen
  <2>2. UNCHANGED <<run, net, stored, faults, edits, cart, price, orders, intent,
                    confirmed, overtaken, owner, accepting, wlt>>
    BY <1>7 DEF refreshQuote, shop, count, NoFault
  <2> QED
    BY <1>0, <2>1, <2>2 DEF TypeOK
<1>8. CASE updateLine
  <2>1. screen' \in Screen
    <3>1. CASE StartLoad("loading")
      BY <3>1 DEF StartLoad, Screen
    <3>2. CASE screen' = [screen EXCEPT !.ver = cart.ver + 1, !.total = 0]
      <4>1. cart.ver + 1 \in Nat /\ 0 \in Price \union {0}
          BY <1>0
        <4> DEFINE m == cart.ver + 1
        <4>2. m \in Nat /\ screen' = [screen EXCEPT !.ver = m, !.total = 0]
          BY <4>1, <3>2
        <4> HIDE DEF m
        <4> QED BY <1>0, <4>1, <4>2 DEF Screen
    <3>3. StartLoad("loading") \/ screen' = [screen EXCEPT !.ver = cart.ver + 1, !.total = 0]
      BY <1>8 DEF updateLine
    <3> QED BY <3>1, <3>2, <3>3
  <2>2. run' \in [Activity -> Op]
    <3>1. UNCHANGED run \/ StartLoad("loading")
      BY <1>8 DEF updateLine
    <3> QED BY <1>0, <3>1, LoadEffect DEF At
  <2>3. cart' \in [open : BOOLEAN, ver : Nat \ {0}]
    BY <1>0, <1>8 DEF updateLine
  <2>4. edits' \in 0..MaxEdits
    BY <1>0, <1>8 DEF updateLine
  <2>5. UNCHANGED <<net, stored, faults, price, orders, intent, confirmed, overtaken,
                    owner, accepting, wlt>>
    BY <1>8 DEF updateLine, NoFault
  <2> QED
    BY <1>0, <2>1, <2>2, <2>3, <2>4, <2>5 DEF TypeOK
<1>9. CASE LoadRead
  <2>1. screen' \in Screen
    BY <1>0, <1>9 DEF LoadRead, Screen
  <2>2. run' \in [Activity -> Op]
    BY <1>0, <1>9, LoadReadEffect DEF At
  <2>3. UNCHANGED <<net, stored, faults, edits, cart, price, orders, intent, confirmed,
                    overtaken, owner, accepting, wlt>>
    BY <1>9 DEF LoadRead, shop, count, NoFault
  <2> QED
    BY <1>0, <2>1, <2>2, <2>3 DEF TypeOK
<1>10. CASE LoadOrder
  <2>1. screen' \in Screen
    BY <1>0, <1>10 DEF LoadOrder, finishCheckout, Resend, checkoutCart,
       Show, Screen
  <2>2. run' \in [Activity -> Op]
    BY <1>0, <1>10, LoadOrderEffect DEF At, Stopped
  <2>3. net' \in [Copy -> Request]
    BY <1>0, <1>10, LoadOrderEffect DEF SentNet
  <2>4. stored' \in 0..MaxAttempt
    BY <1>0, <1>10 DEF LoadOrder, finishCheckout, Discard
  <2>5. faults' \in 0..MaxFaults
    <3>1. NoFault \/ Fault
      BY <1>10 DEF LoadOrder, finishCheckout, Discard, Unseen
    <3> QED BY <1>0, <3>1 DEF Fault, NoFault
  <2>6. UNCHANGED <<edits, cart, price, orders, intent, confirmed, overtaken, owner,
                    accepting, wlt>>
    BY <1>10 DEF LoadOrder, shop, finishCheckout, NoFault
  <2> QED
    BY <1>0, <2>1, <2>2, <2>3, <2>4, <2>5, <2>6 DEF TypeOK
<1>11. CASE readOpenCart
  <2>1. screen' \in Screen
    BY <1>0, <1>11 DEF readOpenCart, Screen
  <2>2. run' \in [Activity -> Op]
    BY <1>0, <1>11, readOpenCartEffect DEF At, Stopped
  <2>3. faults' \in 0..MaxFaults
    <3>1. NoFault \/ Fault
      BY <1>11 DEF readOpenCart
    <3> QED BY <1>0, <3>1 DEF Fault, NoFault
  <2>4. UNCHANGED <<net, stored, edits, cart, price, orders, intent, confirmed,
                    overtaken, owner, accepting, wlt>>
    BY <1>11 DEF readOpenCart, shop, NoFault
  <2> QED
    BY <1>0, <2>1, <2>2, <2>3, <2>4 DEF TypeOK
<1>12. CASE Confirm
  <2>1. confirmed' \in [Attempt -> [total : Price \union {0}, ver : Nat, note : BOOLEAN]]
    BY <1>0, <1>12, ConfirmEffect
  <2>2. run' \in [Activity -> Op]
    BY <1>0, <1>12, ConfirmEffect DEF At
  <2>3. UNCHANGED <<net, screen, stored, faults, edits, cart, price, orders, intent,
                    overtaken, owner, accepting, wlt>>
    BY <1>12 DEF Confirm, shop, count, NoFault
  <2> QED
    BY <1>0, <2>1, <2>2, <2>3 DEF TypeOK
<1>13. ASSUME NEW a \in Activity, Keep(a) PROVE TypeOK'
  <2>1. run' \in [Activity -> Op]
    BY <1>0, <1>13, KeepEffect DEF At, Stopped
  <2>2. screen' \in Screen
    BY <1>0, <1>13 DEF Keep, Stop, Screen
  <2>3. stored' \in 0..MaxAttempt
    BY <1>0, <1>13 DEF Keep, Keyed, Op
  <2>4. faults' \in 0..MaxFaults
    <3>1. NoFault \/ Fault
      BY <1>13 DEF Keep
    <3> QED BY <1>0, <3>1 DEF Fault, NoFault
  <2>5. UNCHANGED <<net, edits, cart, price, orders, intent, confirmed, overtaken,
                    owner, accepting, wlt>>
    BY <1>13 DEF Keep, shop, Stop, NoFault
  <2> QED
    BY <1>0, <2>1, <2>2, <2>3, <2>4, <2>5 DEF TypeOK
<1>14. ASSUME NEW a \in Activity, Send(a) PROVE TypeOK'
  <2>1. run' \in [Activity -> Op]
    BY <1>0, <1>14, SendingEffect DEF At, Stopped
  <2>2. net' \in [Copy -> Request]
    BY <1>0, <1>14, SendingEffect DEF SentNet
  <2>3. screen' \in Screen
    BY <1>0, <1>14 DEF Send, checkoutCart, Stop, Show, Screen
  <2>4. stored' \in 0..MaxAttempt
    BY <1>0, <1>14 DEF Send, Discard
  <2>5. faults' \in 0..MaxFaults
    <3>1. NoFault \/ Fault
      BY <1>14 DEF Send, Discard
    <3> QED BY <1>0, <3>1 DEF Fault, NoFault
  <2>6. UNCHANGED <<edits, cart, price, orders, intent, confirmed, overtaken, owner,
                    accepting, wlt>>
    BY <1>14 DEF Send, shop, NoFault
  <2> QED
    BY <1>0, <2>1, <2>2, <2>3, <2>4, <2>5, <2>6 DEF TypeOK
<1>15. ASSUME NEW a \in Activity, GiveUp(a) PROVE TypeOK'
  <2>1. run' \in [Activity -> Op]
    BY <1>0, <1>15, GiveUpEffect DEF At
  <2>2. net' \in [Copy -> Request]
    BY <1>0, <1>15, GiveUpEffect DEF DeafNet, To
  <2>3. faults' \in 0..MaxFaults
    <3>1. NoFault \/ Fault
      BY <1>15 DEF GiveUp
    <3> QED BY <1>0, <3>1 DEF Fault, NoFault
  <2>4. UNCHANGED <<screen, stored, edits, cart, price, orders, intent, confirmed,
                    overtaken, owner, accepting, wlt>>
    BY <1>15 DEF GiveUp, shop, NoFault
  <2> QED
    BY <1>0, <2>1, <2>2, <2>3, <2>4 DEF TypeOK
<1>16. ASSUME NEW a \in Activity, NEW c \in Copy, Receive(a, c) PROVE TypeOK'
  <2>1. run' \in [Activity -> Op]
    BY <1>0, <1>16, ReceiveEffect DEF At, Stopped
  <2>2. net' \in [Copy -> Request]
    BY <1>0, <1>16, ReceiveEffect DEF FreedNet
  <2>3. screen' \in Screen
    BY <1>0, <1>16 DEF Receive, Stop, finishCheckout, Show, Screen
  <2>4. stored' \in 0..MaxAttempt
    BY <1>0, <1>16 DEF Receive, finishCheckout, Discard
  <2>5. faults' \in 0..MaxFaults
    <3>1. NoFault \/ Fault
      BY <1>16 DEF Receive, finishCheckout, Discard
    <3> QED BY <1>0, <3>1 DEF Fault, NoFault
  <2>6. UNCHANGED <<edits, cart, price, orders, intent, confirmed, overtaken, owner,
                    accepting, wlt>>
    BY <1>16 DEF Receive, shop, NoFault
  <2> QED
    BY <1>0, <2>1, <2>2, <2>3, <2>4, <2>5, <2>6 DEF TypeOK
<1>17. ASSUME NEW a \in Activity, Readback(a) PROVE TypeOK'
  <2>1. run' \in [Activity -> Op]
    BY <1>0, <1>17, ReadbackEffect DEF At, Stopped
  <2>2. screen' \in Screen
    BY <1>0, <1>17 DEF Readback, Stop, finishCheckout, Show, StartLoad,
       Screen
  <2>3. stored' \in 0..MaxAttempt
    BY <1>0, <1>17 DEF Readback, finishCheckout, Discard
  <2>4. faults' \in 0..MaxFaults
    <3>1. NoFault \/ Fault
      BY <1>17 DEF Readback, finishCheckout, Discard, Unseen
    <3> QED BY <1>0, <3>1 DEF Fault, NoFault
  <2>5. UNCHANGED <<net, edits, cart, price, orders, intent, confirmed, overtaken,
                    owner, accepting, wlt>>
    BY <1>17 DEF Readback, shop, NoFault
  <2> QED
    BY <1>0, <2>1, <2>2, <2>3, <2>4, <2>5 DEF TypeOK
<1>18. ASSUME NEW c \in Copy, Resolve(c) PROVE TypeOK'
  <2>1. net' \in [Copy -> Request]
    BY <1>0, <1>18, ServerBecomes DEF ServerAt, Becomes
  <2>2. intent' \in [Attempt -> {"none", "collect", "cancelled"}]
    <3>1. net[c] \in Request /\ net[c].st # "free"
      BY <1>0, <1>18, ServerBecomes DEF ServerAt
    <3>2. net[c].key \in Attempt
      BY <3>1, RequestFields DEF Keyed, Attempt
    <3>3. \/ UNCHANGED intent
          \/ \E i \in {"collect", "cancelled"} : intent' = [intent EXCEPT ![net[c].key] = i]
      BY <1>18 DEF Resolve, ResolveAttempt, Reconcile
    <3> QED BY <1>0, <3>2, <3>3
  <2>3. faults' \in 0..MaxFaults
    <3>1. NoFault \/ Fault
      BY <1>18 DEF Resolve, ResolveAttempt, Reconcile
    <3> QED BY <1>0, <3>1 DEF Fault, NoFault
  <2>4. overtaken' \in BOOLEAN
    BY <1>0, <1>18 DEF Resolve, ResolveAttempt, Enter, Answer, Reconcile
  <2>5. UNCHANGED <<run, screen, stored, edits, cart, price, orders, confirmed, owner,
                    accepting, wlt>>
    BY <1>18 DEF Resolve, ResolveAttempt, phone, shop, Reconcile, NoFault
  <2> QED
    BY <1>0, <2>1, <2>2, <2>3, <2>4, <2>5 DEF TypeOK
<1>19. ASSUME NEW c \in Copy, CreateOrder(c) PROVE TypeOK'
  <2>1. net' \in [Copy -> Request]
    BY <1>0, <1>19, ServerBecomes DEF ServerAt, Becomes
  <2>2. intent' \in [Attempt -> {"none", "collect", "cancelled"}]
    <3>1. net[c] \in Request /\ net[c].st # "free"
      BY <1>0, <1>19, ServerBecomes DEF ServerAt
    <3>2. net[c].key \in Attempt
      BY <3>1, RequestFields DEF Keyed, Attempt
    <3>3. \/ UNCHANGED intent
          \/ \E i \in {"collect", "cancelled"} : intent' = [intent EXCEPT ![net[c].key] = i]
      BY <1>19 DEF CreateOrder, Reconcile
    <3> QED BY <1>0, <3>2, <3>3
  <2>3. faults' \in 0..MaxFaults
    <3>1. NoFault \/ Fault
      BY <1>19 DEF CreateOrder, Reconcile
    <3> QED BY <1>0, <3>1 DEF Fault, NoFault
  <2>4. overtaken' \in BOOLEAN
    BY <1>0, <1>19 DEF CreateOrder, Enter, Answer, Reconcile
  <2>5. UNCHANGED <<run, screen, stored, edits, cart, price, orders, confirmed, owner,
                    accepting, wlt>>
    BY <1>19 DEF CreateOrder, phone, shop, Reconcile, NoFault
  <2> QED
    BY <1>0, <2>1, <2>2, <2>3, <2>4, <2>5 DEF TypeOK
<1>20. ASSUME NEW c \in Copy, ProvisionPayment(c) PROVE TypeOK'
  <2>1. net' \in [Copy -> Request]
    BY <1>0, <1>20, ServerBecomes DEF ServerAt, Becomes
  <2>2. intent' \in [Attempt -> {"none", "collect", "cancelled"}]
    <3>1. net[c] \in Request /\ net[c].st # "free"
      BY <1>0, <1>20, ServerBecomes DEF ServerAt
    <3>2. net[c].key \in Attempt
      BY <3>1, RequestFields DEF Keyed, Attempt
    <3>3. \/ UNCHANGED intent
          \/ \E i \in {"collect", "cancelled"} : intent' = [intent EXCEPT ![net[c].key] = i]
      BY <1>20 DEF ProvisionPayment
    <3> QED BY <1>0, <3>2, <3>3
  <2>3. faults' \in 0..MaxFaults
    <3>1. NoFault \/ Fault
      BY <1>20 DEF ProvisionPayment
    <3> QED BY <1>0, <3>1 DEF Fault, NoFault
  <2>4. overtaken' \in BOOLEAN
    BY <1>0, <1>20 DEF ProvisionPayment, Enter, Answer
  <2>5. UNCHANGED <<run, screen, stored, edits, cart, price, orders, confirmed, owner,
                    accepting, wlt>>
    BY <1>20 DEF ProvisionPayment, phone, shop, NoFault
  <2> QED
    BY <1>0, <2>1, <2>2, <2>3, <2>4, <2>5 DEF TypeOK
<1>21. ASSUME NEW c \in Copy, Commit(c) PROVE TypeOK'
  <2>1. net' \in [Copy -> Request]
    BY <1>0, <1>21, ServerBecomes DEF ServerAt, Becomes
  <2>2. orders' \subseteq [key : Attempt, total : Price]
    <3>1. net[c] \in Request /\ net[c].st # "free"
      BY <1>0, <1>21, ServerBecomes DEF ServerAt
    <3>2. net[c].key \in Attempt
      BY <3>1, RequestFields DEF Keyed, Attempt
    <3>3. orders' = orders \/ orders' = orders \union {[key |-> net[c].key, total |-> price]}
      BY <1>21 DEF Commit, Committed, Attempt
    <3> QED BY <1>0, <3>2, <3>3
  <2>3. cart' \in [open : BOOLEAN, ver : Nat \ {0}]
    <3>1. cart.ver + 1 \in Nat \ {0}
      BY <1>0
    <3>2. cart' = cart \/ cart' = [open |-> FALSE, ver |-> cart.ver + 1]
      BY <1>21 DEF Commit, Committed
    <3>3. [open |-> FALSE, ver |-> cart.ver + 1] \in [open : BOOLEAN, ver : Nat \ {0}]
      BY <3>1
    <3> QED BY <1>0, <3>2, <3>3
  <2>4. faults' \in 0..MaxFaults
    <3>1. NoFault \/ Fault
      BY <1>21 DEF Commit
    <3> QED BY <1>0, <3>1 DEF Fault, NoFault
  <2>5. overtaken' \in BOOLEAN
    BY <1>0, <1>21 DEF Commit, Answer
  <2>6. UNCHANGED <<run, screen, stored, edits, price, intent, confirmed, owner, accepting, wlt>>
    BY <1>21 DEF Commit, phone, Committed, NoFault
  <2> QED
    BY <1>0, <2>1, <2>2, <2>3, <2>4, <2>5, <2>6 DEF TypeOK
<1>22. ASSUME NEW c \in Copy, Rollback(c) PROVE TypeOK'
  <2>1. net' \in [Copy -> Request]
    BY <1>0, <1>22, ServerBecomes DEF ServerAt, Becomes
  <2>2. overtaken' \in BOOLEAN
    BY <1>0, <1>22 DEF Rollback, Enter
  <2>3. UNCHANGED <<run, screen, stored, faults, edits, cart, price, orders, intent,
                    confirmed, owner, accepting, wlt>>
    BY <1>22 DEF Rollback, phone, shop, count, NoFault
  <2> QED
    BY <1>0, <2>1, <2>2, <2>3 DEF TypeOK
<1>23. ASSUME NEW c \in Copy, Compensate(c) PROVE TypeOK'
  <2>1. net' \in [Copy -> Request]
    BY <1>0, <1>23, ServerBecomes DEF ServerAt, Becomes
  <2>2. intent' \in [Attempt -> {"none", "collect", "cancelled"}]
    <3>1. net[c] \in Request /\ net[c].st # "free"
      BY <1>0, <1>23, ServerBecomes DEF ServerAt
    <3>2. net[c].key \in Attempt
      BY <3>1, RequestFields DEF Keyed, Attempt
    <3>3. \/ UNCHANGED intent
          \/ \E i \in {"collect", "cancelled"} : intent' = [intent EXCEPT ![net[c].key] = i]
      BY <1>23 DEF Compensate
    <3> QED BY <1>0, <3>2, <3>3
  <2>3. faults' \in 0..MaxFaults
    <3>1. NoFault \/ Fault
      BY <1>23 DEF Compensate
    <3> QED BY <1>0, <3>1 DEF Fault, NoFault
  <2>4. overtaken' \in BOOLEAN
    BY <1>0, <1>23 DEF Compensate, Answer
  <2>5. UNCHANGED <<run, screen, stored, edits, cart, price, orders, confirmed, owner,
                    accepting, wlt>>
    BY <1>23 DEF Compensate, phone, shop, NoFault
  <2> QED
    BY <1>0, <2>1, <2>2, <2>3, <2>4, <2>5 DEF TypeOK
<1>24. ASSUME NEW c \in Copy, Lose(c) PROVE TypeOK'
  <2>1. net' \in [Copy -> Request]
    BY <1>0, <1>24, ServerBecomes DEF ServerAt, Becomes
  <2>2. faults' \in 0..MaxFaults
    <3>1. NoFault \/ Fault
      BY <1>24 DEF Lose
    <3> QED BY <1>0, <3>1 DEF Fault, NoFault
  <2>3. UNCHANGED <<run, screen, stored, edits, cart, price, orders, intent, confirmed,
                    overtaken, owner, accepting, wlt>>
    BY <1>24 DEF Lose, phone, shop, NoFault
  <2> QED
    BY <1>0, <2>1, <2>2, <2>3 DEF TypeOK
<1>25. CASE ShopChanges
  <2>1. price' \in Price
    BY <1>0, <1>25 DEF ShopChanges
  <2>2. accepting' \in BOOLEAN /\ wlt' \in {"takes", "short", "refuses"}
    BY <1>0, <1>25 DEF ShopChanges
  <2>3. cart' \in [open : BOOLEAN, ver : Nat \ {0}]
    BY <1>0, <1>25 DEF ShopChanges
  <2>4. edits' \in 0..MaxEdits
    BY <1>0, <1>25 DEF ShopChanges
  <2>5. UNCHANGED <<run, net, screen, stored, faults, orders, intent, confirmed,
                    overtaken, owner>>
    BY <1>25 DEF ShopChanges, phone, NoFault
  <2> QED
    BY <1>0, <2>1, <2>2, <2>3, <2>4, <2>5 DEF TypeOK
<1>26. CASE UNCHANGED vars
  BY <1>26 DEF TypeOK, vars
<1> QED
  BY <1>1, <1>2, <1>3, <1>4, <1>5, <1>6, <1>7, <1>8, <1>9, <1>10, <1>11,
     <1>12, <1>13, <1>14, <1>15, <1>16, <1>17, <1>18, <1>19, <1>20, <1>21,
     <1>22, <1>23, <1>24, <1>25, <1>26 DEF Next, Phone, Server

(* A step keeps every attempt named and every answer addressed. *)
LEMMA KeyedStep == TypeOK /\ Keyed /\ Listening /\ Mounted /\ [Next]_vars => Keyed' /\ Listening'
<1> SUFFICES ASSUME TypeOK, Keyed, Listening, Mounted, [Next]_vars PROVE Keyed' /\ Listening'
  OBVIOUS
<1>0. /\ run \in [Activity -> Op] /\ net \in [Copy -> Request] /\ stored \in 0..MaxAttempt
      /\ screen \in Screen
      /\ confirmed \in [Attempt -> [total : Price \union {0}, ver : Nat, note : BOOLEAN]]
  BY DEF TypeOK
<1> USE FreeRequest, IdleOp, BoundsAssumption
<1>1. ASSUME UNCHANGED <<run, net>> PROVE Keyed' /\ Listening'
  BY <1>1 DEF Keyed, Listening
<1>2. ASSUME NEW a \in Activity, Stopped(a), UNCHANGED net, run[a].pc # "wait" PROVE Keyed' /\ Listening'
  <2>1. Keyed'
    BY <1>2 DEF Keyed, Stopped, At
  <2> QED BY <2>1, <1>2 DEF Listening, Stopped, At
<1>3. ASSUME NEW a \in Activity, SentNet(a, run[a].key), run[a].key # 0, run[a].pc # "wait",
             At(a, "wait", run[a].kind, run[a].key, run[a].why)
      PROVE Keyed' /\ Listening'
  <2>1. Keyed'
    BY <1>3 DEF Keyed, SentNet, At
  <2> QED BY <2>1, <1>0, <1>3 DEF Listening, SentNet, At, Activity
<1>4. ASSUME NEW p \in {"read", "cart"}, NEW kd, NEW w, NEW k, At("cur", p, kd, k, w),
             run["cur"].pc # "wait", UNCHANGED net
      PROVE Keyed' /\ Listening'
  <2>1. Keyed'
    BY <1>4 DEF Keyed, At, Activity
  <2> QED BY <2>1, <1>4 DEF Listening, At, Activity
<1>5. ASSUME NEW a \in Activity, NEW p \in {"order", "kept", "prepare", "readback"}, NEW kd, NEW w, NEW k, At(a, p, kd, k, w),
             run[a].pc # "wait", k # 0, UNCHANGED net
      PROVE Keyed' /\ Listening'
  <2>1. Keyed'
    BY <1>5 DEF Keyed, At, Activity
  <2> QED BY <2>1, <1>5 DEF Listening, At, Activity
<1>6. ASSUME LeftRun, LeftNet PROVE Keyed' /\ Listening'
  <2>1. Keyed'
    BY <1>6 DEF Keyed, LeftRun, LeftNet, Activity
  <2> QED BY <2>1, <1>0, <1>6 DEF Listening, LeftRun, LeftNet, Activity
<1>7. ASSUME DeafNet(Copy), KilledRun PROVE Keyed' /\ Listening'
  <2>1. Keyed'
    BY <1>7 DEF Keyed, KilledRun, DeafNet
  <2> QED BY <2>1, <1>0, <1>7 DEF Listening, KilledRun, DeafNet, Activity
<1>8. ASSUME NEW a \in Activity, DeafNet(To(a)), run[a].key # 0, At(a, "readback", run[a].kind, run[a].key, "lost")
      PROVE Keyed' /\ Listening'
  <2>1. Keyed'
    BY <1>8 DEF Keyed, At, DeafNet
  <2> QED BY <2>1, <1>0, <1>8 DEF Listening, At, DeafNet, Activity, To
<1>9. ASSUME NEW a \in Activity, NEW c \in Copy, FreedNet(c), net[c].to = a, run[a].pc = "wait",
             \/ Stopped(a)
             \/ \E kd, w : At(a, "readback", kd, run[a].key, w)
      PROVE Keyed' /\ Listening'
  <2>1. Keyed'
    BY <1>9 DEF Keyed, At, FreedNet, Stopped
  <2> QED BY <2>1, <1>0, <1>9 DEF Listening, At, FreedNet, Stopped, Activity
<1>10. ASSUME NEW c \in Copy, \E m : Becomes(c, m), net[c].st # "free", UNCHANGED run
      PROVE Keyed' /\ Listening'
  <2>1. Keyed'
    BY <1>0, <1>10 DEF Keyed, Becomes
  <2> QED BY <2>1, <1>0, <1>10 DEF Listening, Becomes, Activity
<1>11. ASSUME Unmounted PROVE Keyed' /\ Listening'
  <2>1. LeftRun /\ LeftNet
    BY <1>0, <1>11, LeftRunEffect, LeftNetEffect
  <2> QED BY <1>6, <2>1
<1>12. ASSUME NEW v, StartLoad(v), UNCHANGED net, Quiet("cur") \/ run["cur"].pc # "wait" PROVE Keyed' /\ Listening'
  <2>1. At("cur", "read", "load", 0, "none")
    BY <1>0, <1>12, LoadEffect
  <2>2. run["cur"].pc # "wait"
    BY <1>12 DEF Quiet
  <2>3. "read" \in {"read", "cart"}
    OBVIOUS
  <2> QED BY <1>4, <1>12, <2>1, <2>2, <2>3
<1>13. CASE Leave
  BY <1>11, <1>13 DEF Leave
<1>14. CASE SignOut
  BY <1>11, <1>14 DEF SignOut
<1>15. CASE SignIn \/ refreshQuote \/ ShopChanges
  BY <1>1, <1>15 DEF SignIn, refreshQuote, ShopChanges, phone
<1>16. CASE Kill
  BY <1>0, <1>7, <1>16, KillEffect
<1>17. CASE OpenScreen
  <2>1. PICK v : StartLoad(v) /\ UNCHANGED net
    BY <1>17 DEF OpenScreen
  <2>2. run["cur"].pc # "wait"
    BY <1>17 DEF OpenScreen, Mounted
  <2> QED BY <1>12, <2>1, <2>2
<1>18. CASE Verify
  BY <1>12, <1>18 DEF Verify
<1>19. CASE updateLine
  <2>1. UNCHANGED net /\ Quiet("cur") /\ (UNCHANGED run \/ StartLoad("loading"))
    BY <1>19 DEF updateLine
  <2> QED BY <1>1, <1>12, <2>1
<1>20. CASE Confirm
  <2>1. UNCHANGED net /\ run["cur"].pc # "wait" /\ "cur" \in Activity
    BY <1>20 DEF Confirm, Quiet, Activity
  <2>2. PICK k \in Attempt : At("cur", "prepare", "checkout", k, "none")
    BY <1>0, <1>20, ConfirmEffect
  <2>3. k # 0
    BY DEF Attempt
  <2> QED BY <1>5, <2>1, <2>2, <2>3
<1>21. CASE LoadRead
  <2>1. UNCHANGED net /\ run["cur"].pc # "wait" /\ "cur" \in Activity
    BY <1>21 DEF LoadRead, Activity
  <2>2. At("cur", IF stored # 0 THEN "order" ELSE "cart", run["cur"].kind, stored, run["cur"].why)
    BY <1>0, <1>21, LoadReadEffect
  <2>3. CASE stored = 0
    BY <1>4, <2>1, <2>2, <2>3
  <2>4. CASE stored # 0
    BY <1>5, <2>1, <2>2, <2>4
  <2> QED BY <2>3, <2>4
<1>22. CASE LoadOrder
  <2>1. run["cur"].pc = "order" /\ run["cur"].key # 0 /\ "cur" \in Activity
    BY <1>22 DEF LoadOrder, Keyed, Activity
  <2>2. \/ Stopped("cur") /\ UNCHANGED net
        \/ /\ SentNet("cur", run["cur"].key)
           /\ At("cur", "wait", run["cur"].kind, run["cur"].key, run["cur"].why)
    BY <1>0, <1>22, LoadOrderEffect
  <2> QED BY <1>2, <1>3, <2>1, <2>2
<1>23. CASE readOpenCart
  <2>1. UNCHANGED net /\ run["cur"].pc # "wait" /\ "cur" \in Activity
    BY <1>23 DEF readOpenCart, Activity
  <2> QED BY <1>0, <1>2, <1>23, <2>1, readOpenCartEffect
<1>24. ASSUME NEW a \in Activity, Keep(a) PROVE Keyed' /\ Listening'
  <2>1. UNCHANGED net /\ run[a].pc # "wait" /\ run[a].key # 0
    BY <1>24 DEF Keep, Keyed
  <2>2. Stopped(a) \/ At(a, "kept", run[a].kind, run[a].key, run[a].why)
    BY <1>0, <1>24, KeepEffect
  <2> QED BY <1>2, <1>5, <2>1, <2>2
<1>25. ASSUME NEW a \in Activity, Send(a) PROVE Keyed' /\ Listening'
  <2>1. run[a].pc # "wait" /\ run[a].key # 0
    BY <1>25 DEF Send, Keyed
  <2>2. \/ Stopped(a) /\ UNCHANGED net
        \/ /\ SentNet(a, run[a].key)
           /\ At(a, "wait", run[a].kind, run[a].key, run[a].why)
    BY <1>0, <1>25, SendingEffect
  <2> QED BY <1>2, <1>3, <2>1, <2>2
<1>26. ASSUME NEW a \in Activity, GiveUp(a) PROVE Keyed' /\ Listening'
  <2>1. run[a].key # 0
    BY <1>26 DEF GiveUp, Keyed
  <2> QED BY <1>0, <1>8, <1>26, <2>1, GiveUpEffect
<1>27. ASSUME NEW a \in Activity, NEW c \in Copy, Receive(a, c) PROVE Keyed' /\ Listening'
  BY <1>0, <1>9, <1>27, ReceiveEffect
<1>28. ASSUME NEW a \in Activity, Readback(a) PROVE Keyed' /\ Listening'
  <2>1. UNCHANGED net /\ run[a].pc # "wait"
    BY <1>28 DEF Readback
  <2>2. Stopped(a) \/ (a = "cur" /\ At("cur", "read", "load", 0, "none"))
    BY <1>0, <1>28, ReadbackEffect
  <2> QED BY <1>2, <1>4, <2>1, <2>2
<1>29. ASSUME NEW c \in Copy, ServerAt(c) PROVE Keyed' /\ Listening'
  <2>1. (\E m : Becomes(c, m)) /\ net[c].st # "free" /\ UNCHANGED run
    BY <1>0, <1>29, ServerBecomes DEF phone
  <2> QED BY <1>10, <2>1
<1>30. CASE UNCHANGED vars
  BY <1>1, <1>30 DEF vars
<1> QED
  BY <1>13, <1>14, <1>15, <1>16, <1>17, <1>18, <1>19, <1>20, <1>21, <1>22, <1>23,
     <1>24, <1>25, <1>26, <1>27, <1>28, <1>29, <1>30 DEF Next, Phone, Server, ServerAt

(* A step leaves nothing running on a screen that is not there. *)
LEMMA MountedStep == TypeOK /\ Mounted /\ [Next]_vars => Mounted'
<1> SUFFICES ASSUME TypeOK, Mounted, [Next]_vars PROVE Mounted'
  OBVIOUS
<1>0. /\ run \in [Activity -> Op] /\ net \in [Copy -> Request] /\ stored \in 0..MaxAttempt
      /\ screen \in Screen
      /\ confirmed \in [Attempt -> [total : Price \union {0}, ver : Nat, note : BOOLEAN]]
  BY DEF TypeOK
<1> USE IdleOp
<1>1. ASSUME UNCHANGED <<run, screen>> \/ run'["cur"] = Idle PROVE Mounted'
  BY <1>1 DEF Mounted
<1>2. ASSUME run' \in [Activity -> Op], run["cur"] # Idle, UNCHANGED screen PROVE Mounted'
  BY <1>2 DEF Mounted
<1>3. ASSUME screen'.view # "none" PROVE Mounted'
  BY <1>3 DEF Mounted
<1>4. ASSUME Stopped("old"), UNCHANGED screen PROVE Mounted'
  BY <1>4 DEF Mounted, Stopped, At, Activity
<1>5. ASSUME Stopped("cur") PROVE Mounted'
  BY <1>1, <1>5 DEF Stopped
<1>6. ASSUME NEW kd, NEW k, NEW w, NEW p, At("old", p, kd, k, w), UNCHANGED screen PROVE Mounted'
  BY <1>6 DEF Mounted, At, Activity
<1>7. ASSUME NEW v, StartLoad(v), v # "none" PROVE Mounted'
  BY <1>3, <1>7 DEF StartLoad
<1>8. CASE Leave \/ SignOut \/ Kill
  BY <1>0, <1>1, <1>8, LeftRunEffect, KillEffect DEF Leave, SignOut, LeftRun, KilledRun, Activity
<1>9. CASE SignIn \/ ShopChanges \/ (\E c \in Copy : ServerAt(c))
  BY <1>0, <1>1, <1>9, ServerBecomes DEF SignIn, ShopChanges, phone
<1>10. CASE OpenScreen \/ Verify
  BY <1>7, <1>10 DEF OpenScreen, Verify
<1>11. CASE refreshQuote
  BY <1>0, <1>3, <1>11 DEF refreshQuote, Screen
<1>12. CASE updateLine
  <2>1. StartLoad("loading") \/ (screen.view = "ready" /\ screen' = [screen EXCEPT !.ver = cart.ver + 1, !.total = 0])
    BY <1>12 DEF updateLine
  <2> QED BY <1>0, <1>3, <1>7, <2>1 DEF Screen
<1>13. CASE Confirm
  BY <1>3, <1>13 DEF Confirm
<1>14. CASE LoadRead
  BY <1>0, <1>3, <1>14 DEF LoadRead, Screen
<1>15. CASE LoadOrder
  <2>1. run' = [run EXCEPT !["cur"] = Idle] \/ Show("cur", "pending")
    BY <1>15 DEF LoadOrder, Resend, checkoutCart, finishCheckout
  <2> QED BY <1>0, <1>1, <1>3, <2>1 DEF Show, Screen, Activity
<1>16. CASE readOpenCart
  BY <1>0, <1>5, <1>16, readOpenCartEffect
<1>17. ASSUME NEW a \in Activity, Keep(a) PROVE Mounted'
  <2>1. UNCHANGED screen /\ run[a] # Idle
    BY <1>17 DEF Keep, Stop
  <2>2. Stopped(a) \/ At(a, "kept", run[a].kind, run[a].key, run[a].why)
    BY <1>0, <1>17, KeepEffect
  <2> QED BY <1>2, <1>5, <1>6, <1>4, <2>1, <2>2 DEF Activity, At
<1>18. ASSUME NEW a \in Activity, Send(a) PROVE Mounted'
  <2>1. run[a] # Idle /\ (screen' = screen \/ Show(a, "pending"))
    BY <1>18 DEF Send, Stop, checkoutCart
  <2>2. Stopped(a) \/ At(a, "wait", run[a].kind, run[a].key, run[a].why)
    BY <1>0, <1>18, SendingEffect
  <2>3. CASE screen' = screen
    BY <1>2, <1>5, <1>6, <1>4, <2>1, <2>2, <2>3 DEF Activity, At
  <2>4. CASE Show(a, "pending")
    BY <1>0, <1>3, <2>4, <2>3 DEF Show, Screen
  <2> QED BY <2>1, <2>3, <2>4
<1>19. ASSUME NEW a \in Activity, GiveUp(a) PROVE Mounted'
  <2>1. UNCHANGED screen /\ run[a] # Idle
    BY <1>19 DEF GiveUp
  <2> QED BY <1>0, <1>2, <1>6, <1>19, <2>1, GiveUpEffect DEF Activity, At
<1>20. ASSUME NEW a \in Activity, NEW c \in Copy, Receive(a, c) PROVE Mounted'
  <2>1. run[a] # Idle /\ (screen' = screen \/ Show(a, "done"))
    BY <1>20 DEF Receive, Stop, finishCheckout, Waiting
  <2>2. Stopped(a) \/ At(a, "readback", run[a].kind, run[a].key, net[c].why)
    BY <1>0, <1>20, ReceiveEffect
  <2>3. CASE screen' = screen
    BY <1>2, <1>5, <1>6, <1>4, <2>1, <2>2, <2>3 DEF Activity, At
  <2>4. CASE Show(a, "done")
    BY <1>0, <1>3, <2>4, <2>3 DEF Show, Screen
  <2> QED BY <2>1, <2>3, <2>4
<1>21. ASSUME NEW a \in Activity, Readback(a) PROVE Mounted'
  <2>1. \/ Stopped(a) /\ (screen' = screen \/ a = "cur" \/ Show(a, "done") \/ Show(a, "ready") \/ Show(a, "pending"))
        \/ StartLoad("loading")
    BY <1>0, <1>21, IdleEffect DEF Readback, Stop, finishCheckout
  <2>2. CASE StartLoad("loading")
    BY <1>7, <2>2
  <2>3. CASE a = "cur"
    BY <1>5, <1>7, <2>1, <2>3
  <2>4. CASE a = "old"
    BY <1>4, <2>1, <2>2, <2>4 DEF Show
  <2> QED BY <2>3, <2>4 DEF Activity
<1>22. CASE UNCHANGED vars
  BY <1>1, <1>22 DEF vars
<1> QED
  BY <1>8, <1>9, <1>10, <1>11, <1>12, <1>13, <1>14, <1>15, <1>16, <1>17, <1>18, <1>19,
     <1>20, <1>21, <1>22 DEF Next, Phone, Server, ServerAt

(* What no step of the phone changes. *)
Frame ==
  /\ UNCHANGED <<price, orders, intent, overtaken>>
  /\ cart'.open = cart.open
  /\ \A d \in Copy :
       \/ net'[d].st = net[d].st /\ net'[d].key = net[d].key /\ net'[d].why = net[d].why
       \/ net'[d] = Free /\ net[d].st = "answered"
       \/ /\ net[d].st = "free" /\ net'[d].st = "sent"
          /\ \E a \in Activity : run[a].pc \in {"order", "kept"} /\ run[a].key = net'[d].key

Confirms == \E k \in Attempt :
  /\ confirmed[k].ver = 0 /\ confirmed'[k].ver = screen.ver /\ screen.view = "ready"
  /\ \A i \in Attempt \ {k} : confirmed'[i] = confirmed[i]
  /\ stored' = stored
  /\ At("cur", "prepare", "checkout", k, "none")

Names ==
  \/ Confirms
  \/ /\ UNCHANGED confirmed
     /\ stored' = 0 \/ stored' = stored \/ \E a \in Activity : stored' = run[a].key
     /\ \A b \in Activity : \/ run'[b].key = 0 \/ run'[b].key = stored
                            \/ \E a \in Activity : run'[b].key = run[a].key

(* No step of the phone touches the server, and names no new attempt but by
   Confirm. *)
LEMMA PhoneFrame ==
  ASSUME TypeOK, Phone
  PROVE  Frame /\ Names
<1>0. /\ run \in [Activity -> Op] /\ net \in [Copy -> Request] /\ stored \in 0..MaxAttempt
      /\ screen \in Screen /\ cart \in [open : BOOLEAN, ver : Nat \ {0}]
      /\ confirmed \in [Attempt -> [total : Price \union {0}, ver : Nat, note : BOOLEAN]]
  BY DEF TypeOK
<1> USE IdleOp, FreeRequest
<1> DEFINE StillShop == UNCHANGED <<price, orders, intent, overtaken>> /\ cart'.open = cart.open
           StillNamed == \A b \in Activity : \/ run'[b].key = 0 \/ run'[b].key = stored
                            \/ \E a \in Activity : run'[b].key = run[a].key
<1>1. ASSUME NEW S \in SUBSET Copy, DeafNet(S), StillShop PROVE Frame
  BY <1>0, <1>1 DEF Frame, DeafNet
<1>2. ASSUME LeftNet, StillShop PROVE Frame
  BY <1>0, <1>2 DEF Frame, LeftNet
<1>3. ASSUME UNCHANGED net, StillShop PROVE Frame
  BY <1>0, <1>3 DEF Frame
<1>4. ASSUME NEW a \in Activity, SentNet(a, run[a].key), run[a].pc \in {"order", "kept"}, StillShop PROVE Frame
  BY <1>0, <1>4 DEF Frame, SentNet
<1>5. ASSUME NEW c \in Copy, FreedNet(c), net[c].st = "answered", StillShop PROVE Frame
  BY <1>0, <1>5 DEF Frame, FreedNet
<1>6. ASSUME NEW a \in Activity, Stopped(a) PROVE StillNamed
  BY <1>6 DEF Stopped, At
<1>7. ASSUME NEW a \in Activity, NEW p, NEW kd, NEW w, NEW k \in {0, stored, run[a].key}, At(a, p, kd, k, w) PROVE StillNamed
  BY <1>7 DEF At
<1>8. ASSUME LeftRun PROVE StillNamed
  BY <1>8 DEF LeftRun, Activity
<1>9. ASSUME KilledRun PROVE StillNamed
  BY <1>9 DEF KilledRun
<1>10. ASSUME StillNamed, UNCHANGED confirmed, stored' = 0 \/ stored' = stored \/ \E a \in Activity : stored' = run[a].key
       PROVE Names
  BY <1>10 DEF Names
<1> HIDE DEF StillNamed
<1>11. ASSUME UNCHANGED run PROVE StillNamed
  BY <1>11 DEF StillNamed
<1>13. CASE Leave
  BY <1>0, <1>2, <1>8, <1>10, <1>13, LeftRunEffect, LeftNetEffect DEF Leave, shop
<1>14. CASE SignOut
  BY <1>0, <1>2, <1>8, <1>10, <1>14, LeftRunEffect, LeftNetEffect DEF SignOut, shop
<1>15. CASE SignIn \/ refreshQuote
  BY <1>3, <1>10, <1>11, <1>15 DEF SignIn, refreshQuote, shop
<1>16. CASE Kill
  <2>1. StillShop /\ UNCHANGED <<confirmed, stored>>
    BY <1>16 DEF Kill, shop
  <2>2. DeafNet(Copy) /\ KilledRun
    BY <1>0, <1>16, KillEffect
  <2>3. Copy \in SUBSET Copy
    OBVIOUS
  <2> QED BY <1>1, <1>9, <1>10, <2>1, <2>2, <2>3
<1> USE DEF Activity
<1>17. CASE OpenScreen \/ Verify
  <2>1. StillShop /\ UNCHANGED <<confirmed, stored, net>> /\ \E v : StartLoad(v)
    BY <1>17 DEF OpenScreen, Verify, shop
  <2> QED BY <1>0, <1>3, <1>7, <1>10, <2>1, LoadEffect
<1>19. CASE updateLine
  <2>1. StillShop
    BY <1>0, <1>19 DEF updateLine
  <2>2. UNCHANGED <<confirmed, stored, net>> /\ (UNCHANGED run \/ StartLoad("loading"))
    BY <1>19 DEF updateLine
  <2> QED BY <1>0, <1>3, <1>7, <1>10, <1>11, <2>1, <2>2, LoadEffect
<1>20. CASE Confirm
  <2>1. StillShop /\ UNCHANGED <<stored, net>> /\ screen.view = "ready"
    BY <1>20 DEF Confirm, shop
  <2>2. Confirms
    BY <1>0, <1>20, <2>1, ConfirmEffect DEF Confirms
  <2> QED BY <1>3, <2>1, <2>2 DEF Names
<1>21. CASE LoadRead
  <2>1. StillShop /\ UNCHANGED <<confirmed, stored, net>>
    BY <1>21 DEF LoadRead, shop
  <2> QED BY <1>0, <1>3, <1>7, <1>10, <1>21, <2>1, LoadReadEffect
<1>22. CASE LoadOrder
  <2>1. StillShop /\ UNCHANGED <<confirmed>> /\ run["cur"].pc = "order"
    BY <1>22 DEF LoadOrder, shop
  <2> QED BY <1>0, <1>3, <1>4, <1>6, <1>7, <1>10, <1>22, <2>1, LoadOrderEffect
<1>23. CASE readOpenCart
  <2>1. StillShop /\ UNCHANGED <<confirmed, stored, net>>
    BY <1>23 DEF readOpenCart, shop
  <2> QED BY <1>0, <1>3, <1>6, <1>10, <1>23, <2>1, readOpenCartEffect
<1>24. ASSUME NEW a \in Activity, Keep(a) PROVE Frame /\ Names
  <2>1. StillShop /\ UNCHANGED <<confirmed, net>>
    BY <1>24 DEF Keep, shop
  <2> QED BY <1>0, <1>3, <1>6, <1>7, <1>10, <1>24, <2>1, KeepEffect
<1>25. ASSUME NEW a \in Activity, Send(a) PROVE Frame /\ Names
  <2>1. StillShop /\ UNCHANGED <<confirmed>> /\ run[a].pc = "kept"
    BY <1>25 DEF Send, shop
  <2> QED BY <1>0, <1>3, <1>4, <1>6, <1>7, <1>10, <1>25, <2>1, SendingEffect
<1>26. ASSUME NEW a \in Activity, GiveUp(a) PROVE Frame /\ Names
  <2>1. StillShop /\ UNCHANGED <<confirmed, stored>>
    BY <1>26 DEF GiveUp, shop
  <2>2. To(a) \in SUBSET Copy
    BY DEF To
  <2> QED BY <1>0, <1>1, <1>7, <1>10, <1>26, <2>1, <2>2, GiveUpEffect
<1>27. ASSUME NEW a \in Activity, NEW c \in Copy, Receive(a, c) PROVE Frame /\ Names
  <2>1. StillShop /\ UNCHANGED <<confirmed>>
    BY <1>27 DEF Receive, shop
  <2> QED BY <1>0, <1>5, <1>6, <1>7, <1>10, <1>27, <2>1, ReceiveEffect
<1>28. ASSUME NEW a \in Activity, Readback(a) PROVE Frame /\ Names
  <2>1. StillShop /\ UNCHANGED <<confirmed, net>> /\ stored' \in {0, stored}
    BY <1>28 DEF Readback, shop, Stop, finishCheckout, Discard
  <2> QED BY <1>0, <1>3, <1>6, <1>7, <1>10, <1>28, <2>1, ReadbackEffect
<1> QED
  BY <1>13, <1>14, <1>15, <1>16, <1>17, <1>19, <1>20, <1>21, <1>22, <1>23,
     <1>24, <1>25, <1>26, <1>27, <1>28 DEF Phone

----------------------------------------------------------------------------
(* Layer 2: the transaction of the server. *)

(* What can be confirmed has been shown: a version of the cart. *)
Shown ==
  /\ screen.view = "ready" => screen.ver # 0
  /\ run["cur"].kind = "checkout" => screen.ver # 0

(* An attempt that has left any trace was confirmed. *)
Traced(k) == \/ stored = k \/ Running(k) \/ Ordered(k) \/ intent[k] # "none"
             \/ \E a \in Activity : run[a].key = k
Used == \A k \in Attempt : Traced(k) => confirmed[k].ver # 0

Transaction ==
  /\ \A c, d \in Copy : InTransaction(c) /\ InTransaction(d) => c = d
  /\ \A c \in Copy : InTransaction(c) => cart.open /\ price = confirmed[net[c].key].total
  /\ \A c \in Copy : /\ net[c].st = "held" => intent[net[c].key] = "none"
                     /\ net[c].st = "paid" => intent[net[c].key] = "collect"
                     /\ net[c].st = "undo" => intent[net[c].key] # "none"
  /\ \A c, d \in Copy : net[c].st = "undo" /\ InTransaction(d) => net[c].key # net[d].key

Ordering ==
  /\ cart.open => orders = {}
  /\ orders # {} => \E o \in orders : orders = {o}
  /\ ConfirmedTotal

Base == TypeOK /\ Keyed /\ Listening /\ Mounted
Placed == Base /\ Shown /\ Used /\ Transaction /\ Ordering

(* A step keeps the version of what can be confirmed. *)
LEMMA ShownStep == TypeOK /\ Shown /\ [Next]_vars => Shown'
<1> SUFFICES ASSUME TypeOK, Shown, [Next]_vars PROVE Shown'
  OBVIOUS
<1>0. /\ run \in [Activity -> Op] /\ net \in [Copy -> Request] /\ stored \in 0..MaxAttempt
      /\ screen \in Screen /\ cart \in [open : BOOLEAN, ver : Nat \ {0}]
      /\ confirmed \in [Attempt -> [total : Price \union {0}, ver : Nat, note : BOOLEAN]]
  BY DEF TypeOK
<1> USE IdleOp DEF Activity
<1>1. ASSUME UNCHANGED run, UNCHANGED screen PROVE Shown'
  BY <1>1 DEF Shown
<1>2. ASSUME run'["cur"].kind # "checkout", screen'.view # "ready" \/ UNCHANGED screen PROVE Shown'
  BY <1>2 DEF Shown
<1>3. ASSUME UNCHANGED screen, NEW kd, NEW k, NEW w, NEW p, At("old", p, kd, k, w) PROVE Shown'
  BY <1>3 DEF Shown, At
<1>4. ASSUME UNCHANGED screen, NEW k, NEW w, NEW p, At("cur", p, run["cur"].kind, k, w) PROVE Shown'
  BY <1>4 DEF Shown, At
<1>5. ASSUME NEW v, v # "ready", Show("cur", v), NEW k, NEW w, NEW p, At("cur", p, run["cur"].kind, k, w) PROVE Shown'
  BY <1>0, <1>5 DEF Shown, At, Show, Screen
<1>6. ASSUME NEW v, StartLoad(v), v # "ready" PROVE Shown'
  BY <1>0, <1>2, <1>6, LoadEffect DEF At
<1>7. ASSUME Stopped("old"), UNCHANGED screen PROVE Shown'
  BY <1>3, <1>7 DEF Stopped
<1>8. ASSUME Stopped("cur"), screen'.view # "ready" \/ UNCHANGED screen PROVE Shown'
  BY <1>2, <1>8 DEF Stopped, At
<1>10. CASE Leave \/ SignOut
  BY <1>0, <1>2, <1>10, LeftRunEffect DEF Leave, SignOut, LeftRun, NoScreen
<1>11. CASE Kill
  <2>1. screen'.view = "none"
    BY <1>11 DEF Kill, NoScreen
  <2> QED BY <1>0, <1>2, <1>11, <2>1, KillEffect DEF KilledRun
<1>12. CASE SignIn \/ ShopChanges \/ (\E c \in Copy : ServerAt(c))
  BY <1>0, <1>1, <1>12, ServerBecomes DEF SignIn, ShopChanges, phone
<1>13. CASE OpenScreen \/ Verify
  BY <1>6, <1>13 DEF OpenScreen, Verify
<1>14. CASE refreshQuote
  BY <1>0, <1>14 DEF refreshQuote, Screen, Shown
<1>15. CASE updateLine
  <2>1. StartLoad("loading") \/ (screen' = [screen EXCEPT !.ver = cart.ver + 1, !.total = 0])
    BY <1>15 DEF updateLine
  <2>2. cart.ver + 1 # 0
    BY <1>0
  <2>3. screen' = [screen EXCEPT !.ver = cart.ver + 1, !.total = 0] => screen'.ver = cart.ver + 1
    BY <1>0 DEF Screen
  <2> QED BY <1>6, <2>1, <2>2, <2>3 DEF Shown
<1>16. CASE Confirm
  BY <1>0, <1>16 DEF Confirm, Shown
<1>17. CASE LoadRead
  <2>1. Show("cur", IF stored # 0 THEN "pending" ELSE "loading")
    BY <1>17 DEF LoadRead, Show
  <2> QED BY <1>0, <1>5, <1>17, <2>1, LoadReadEffect
<1>18. CASE LoadOrder
  <2>1. \/ Stopped("cur") /\ Show("cur", "done")
        \/ Show("cur", "pending") /\ At("cur", "wait", run["cur"].kind, run["cur"].key, run["cur"].why)
    <3>1. CASE finishCheckout("cur")
      BY <1>0, <3>1, IdleEffect DEF finishCheckout
    <3>2. CASE checkoutCart("cur", run["cur"].key)
      BY <1>0, <3>2, SendEffect, OpFields DEF checkoutCart
    <3> QED BY <1>18, <3>1, <3>2 DEF LoadOrder, Resend
  <2>2. Show("cur", "done") => screen'.view # "ready"
    BY <1>0 DEF Show, Screen
  <2> QED BY <1>5, <1>8, <2>1, <2>2
<1>19. CASE readOpenCart
  <2>1. screen'.view = "ready" => screen'.ver # 0
    BY <1>0, <1>19 DEF readOpenCart
  <2> QED BY <1>0, <1>19, <2>1, readOpenCartEffect DEF Shown, Stopped, At
<1>20. ASSUME NEW a \in Activity, Keep(a) PROVE Shown'
  <2>1. UNCHANGED screen
    BY <1>20 DEF Keep, Stop
  <2> QED BY <1>0, <1>3, <1>4, <1>7, <1>8, <1>20, <2>1, KeepEffect
<1>21. ASSUME NEW a \in Activity, Send(a) PROVE Shown'
  <2>1. \/ checkoutCart(a, run[a].key)
        \/ Stop(a)
    BY <1>21 DEF Send
  <2>2. CASE Stop(a)
    BY <1>0, <1>7, <1>8, <2>2, IdleEffect DEF Stop
  <2>3. CASE checkoutCart(a, run[a].key)
    <3>1. Show(a, "pending") /\ At(a, "wait", run[a].kind, run[a].key, run[a].why)
      BY <1>0, <2>3, SendEffect, OpFields DEF checkoutCart
    <3>2. a # "cur" => UNCHANGED screen
      BY <3>1 DEF Show
    <3> QED BY <1>3, <1>5, <3>1, <3>2
  <2> QED BY <2>1, <2>2, <2>3
<1>22. ASSUME NEW a \in Activity, GiveUp(a) PROVE Shown'
  <2>1. UNCHANGED screen
    BY <1>22 DEF GiveUp
  <2> QED BY <1>0, <1>3, <1>4, <1>22, <2>1, GiveUpEffect
<1>23. ASSUME NEW a \in Activity, NEW c \in Copy, Receive(a, c) PROVE Shown'
  <2>1. \/ Stop(a)
        \/ finishCheckout(a)
        \/ UNCHANGED screen
    BY <1>23 DEF Receive
  <2>6. Stopped(a) \/ At(a, "readback", run[a].kind, run[a].key, net[c].why)
    BY <1>0, <1>23, ReceiveEffect
  <2>2. Stop(a) => Shown'
    BY <1>0, <1>7, <1>8, IdleEffect DEF Stop
  <2>3. finishCheckout(a) => Stopped(a) /\ Show(a, "done")
    BY <1>0, IdleEffect DEF finishCheckout
  <2>4. Show("cur", "done") => screen'.view # "ready"
    BY <1>0 DEF Show, Screen
  <2>5. Show("old", "done") => UNCHANGED screen
    BY DEF Show
  <2> QED BY <1>3, <1>4, <1>7, <1>8, <2>1, <2>2, <2>3, <2>4, <2>5, <2>6
<1>24. ASSUME NEW a \in Activity, Readback(a) PROVE Shown'
  <2>1. \/ Stop(a)
        \/ finishCheckout(a)
        \/ StartLoad("loading")
        \/ run[a].kind = "checkout" /\ Show(a, "ready") /\ run' = [run EXCEPT ![a] = Idle]
        \/ Show(a, "pending") /\ run' = [run EXCEPT ![a] = Idle]
    BY <1>24 DEF Readback
  <2>2. Stop(a) => Shown'
    BY <1>0, <1>7, <1>8, IdleEffect DEF Stop
  <2>3. CASE \E v \in {"done", "pending"} : Show(a, v) /\ run' = [run EXCEPT ![a] = Idle]
    <3>1. Stopped(a)
      BY <1>0, <2>3, IdleEffect
    <3>2. IF a = "cur" THEN screen'.view # "ready" ELSE UNCHANGED screen
      BY <1>0, <2>3 DEF Show, Screen
    <3> QED BY <1>7, <1>8, <3>1, <3>2
  <2>4. CASE run[a].kind = "checkout" /\ Show(a, "ready") /\ run' = [run EXCEPT ![a] = Idle]
    <3>1. Stopped(a)
      BY <1>0, <2>4, IdleEffect
    <3>2. a = "old" => UNCHANGED screen
      BY <2>4 DEF Show
    <3>3. a = "cur" => screen'.ver = screen.ver /\ screen.ver # 0
      BY <1>0, <2>4 DEF Show, Shown, Screen
    <3> QED BY <1>7, <3>1, <3>2, <3>3 DEF Stopped, At, Shown
  <2> QED BY <1>6, <2>1, <2>2, <2>3, <2>4 DEF finishCheckout
<1>25. CASE UNCHANGED vars
  BY <1>1, <1>25 DEF vars
<1> QED
  BY <1>10, <1>11, <1>12, <1>13, <1>14, <1>15, <1>16, <1>17, <1>18, <1>19,
     <1>20, <1>21, <1>22, <1>23, <1>24, <1>25 DEF Next, Phone, Server, ServerAt

(* The phone leaves no trace of an attempt that was not confirmed. *)
LEMMA UsedPhone ==
  ASSUME Placed, Frame, Names
  PROVE  Used'
<1> SUFFICES ASSUME NEW k \in Attempt, (Traced(k))' PROVE (confirmed[k].ver)' # 0
  BY DEF Used
<1>0. k # 0 /\ (\A i \in Attempt : i # 0) /\ confirmed \in [Attempt -> [total : Price \union {0}, ver : Nat, note : BOOLEAN]]
  BY DEF Attempt, Placed, Base, TypeOK
<1>1. (Running(k))' => Running(k) \/ \E a \in Activity : run[a].key = k
  BY FreeRequest DEF Frame, Running
<1>2. UNCHANGED <<orders, intent>>
  BY DEF Frame
<1>3. (Ordered(k))' => Ordered(k)
  BY <1>2 DEF Ordered
<1>4. CASE Confirms
  <2>1. PICK i \in Attempt :
          /\ confirmed[i].ver = 0 /\ confirmed'[i].ver = screen.ver /\ screen.view = "ready"
          /\ \A j \in Attempt \ {i} : confirmed'[j] = confirmed[j]
          /\ stored' = stored
          /\ At("cur", "prepare", "checkout", i, "none")
    BY <1>4 DEF Confirms
  <2>2. screen.ver # 0
    BY <2>1 DEF Placed, Shown
  <2>3. CASE k = i
    BY <2>1, <2>2, <2>3
  <2>4. CASE k # i
    <3>1. Traced(k)
      BY <1>1, <1>2, <1>3, <2>1, <2>4 DEF Traced, At, Activity
    <3> QED BY <2>1, <2>4, <3>1 DEF Placed, Used
  <2> QED BY <2>3, <2>4
<1>5. CASE ~Confirms
  <2>1. Traced(k) /\ UNCHANGED confirmed
    BY <1>0, <1>1, <1>2, <1>3, <1>5 DEF Traced, Names
  <2> QED BY <2>1 DEF Placed, Used
<1> QED BY <1>4, <1>5

(* The phone does not disturb the transaction or the order. *)
LEMMA TransactionPhone ==
  ASSUME Placed, Frame, Names
  PROVE  Transaction' /\ Ordering'
<1>0. /\ net \in [Copy -> Request] /\ cart \in [open : BOOLEAN, ver : Nat \ {0}]
      /\ orders \subseteq [key : Attempt, total : Price]
  BY DEF Placed, Base, TypeOK
<1>1. \A i \in Attempt : confirmed[i].ver # 0 => confirmed'[i] = confirmed[i]
  BY DEF Names, Confirms
<1>2. \A d \in Copy : net'[d].st \in {"held", "paid", "undo"} =>
         /\ net'[d].st = net[d].st /\ net'[d].key = net[d].key /\ net[d].key \in Attempt
         /\ confirmed'[net[d].key] = confirmed[net[d].key]
  <2> SUFFICES ASSUME NEW d \in Copy, net'[d].st \in {"held", "paid", "undo"}
               PROVE  /\ net'[d].st = net[d].st /\ net'[d].key = net[d].key /\ net[d].key \in Attempt
                      /\ confirmed'[net[d].key] = confirmed[net[d].key]
    OBVIOUS
  <2>1. net'[d].st = net[d].st /\ net'[d].key = net[d].key
    BY FreeRequest DEF Frame
  <2>2. net[d] \in Request /\ net[d].key # 0
    BY <1>0, <2>1 DEF Placed, Base, Keyed
  <2>3. net[d].key \in Attempt
    BY <2>2, RequestFields, BoundsAssumption DEF Attempt
  <2>4. Running(net[d].key)
    BY <2>1 DEF Running
  <2> QED BY <1>1, <2>1, <2>3, <2>4 DEF Placed, Used, Traced
<1>3. UNCHANGED <<price, orders, intent>> /\ cart'.open = cart.open
  BY DEF Frame
<1>4. Transaction'
  BY <1>2, <1>3 DEF Placed, Transaction, InTransaction
<1>5. \A o \in orders : confirmed'[o.key] = confirmed[o.key]
  <2> SUFFICES ASSUME NEW o \in orders PROVE confirmed'[o.key] = confirmed[o.key]
    OBVIOUS
  <2>1. o.key \in Attempt /\ Traced(o.key)
    BY <1>0 DEF Traced, Ordered
  <2> QED BY <1>1, <2>1 DEF Placed, Used
<1>6. Ordering'
  BY <1>3, <1>5 DEF Placed, Ordering, ConfirmedTotal
<1> QED BY <1>4, <1>6

----------------------------------------------------------------------------
(* What the steps of the server do to a request, field by field. *)

Alone(c) == net' \in [Copy -> Request] /\ \A d \in Copy \ {c} : net'[d] = net[d]
Replies(c, w) ==
  /\ Alone(c)
  /\ \/ net'[c] = Free
     \/ /\ net'[c].st = "answered" /\ net'[c].why = w
        /\ net'[c].key = net[c].key /\ net'[c].to = net[c].to /\ net[c].to # "none"
  /\ overtaken' = (overtaken \/ (w = "refused" /\ MayFollow(c)))
Enters(c, s) ==
  /\ Alone(c)
  /\ net'[c].st = s /\ net'[c].key = net[c].key /\ net'[c].to = net[c].to /\ net'[c].why = net[c].why
  /\ overtaken' = overtaken

(* Answer, field by field. *)
LEMMA RepliesEffect ==
  ASSUME net \in [Copy -> Request], NEW c \in Copy, NEW w \in Answers, Answer(c, w)
  PROVE  Replies(c, w)
<1>1. PICK m : Becomes(c, m) /\ (m = Free \/ (m.st = "answered" /\ m.why = w /\ net[c].to # "none"))
  BY AnswerBecomes
<1>2. overtaken' = (overtaken \/ (w = "refused" /\ MayFollow(c)))
  BY AnswerBecomes
<1>3. Alone(c) /\ net'[c] = m
  BY <1>1 DEF Becomes, Alone
<1>4. \/ net'[c] = Free
      \/ /\ net'[c].st = "answered" /\ net'[c].why = w
         /\ net'[c].key = net[c].key /\ net'[c].to = net[c].to /\ net[c].to # "none"
  BY <1>1, <1>3, FreeRequest DEF Becomes
<1> QED BY <1>2, <1>3, <1>4 DEF Replies

(* Enter, field by field. *)
LEMMA EntersEffect ==
  ASSUME net \in [Copy -> Request], NEW c \in Copy,
         NEW s \in {"resolved", "held", "paid", "undo"}, Enter(c, s)
  PROVE  Enters(c, s)
<1>1. PICK m : Becomes(c, m) /\ m.st = s /\ m.why = net[c].why
  BY EnterBecomes
<1>2. overtaken' = overtaken
  BY EnterBecomes
<1>3. Alone(c) /\ net'[c] = m
  BY <1>1 DEF Becomes, Alone
<1>4. net'[c].key = net[c].key /\ net'[c].to = net[c].to
  <2>1. m # Free
    BY <1>1, FreeRequest
  <2> QED BY <1>1, <1>3, <2>1 DEF Becomes
<1> QED BY <1>1, <1>2, <1>3, <1>4 DEF Enters

Reconciles(c) ==
  /\ ~Ordered(net[c].key)
  /\ \/ /\ intent[net[c].key] = "collect" /\ intent' = [intent EXCEPT ![net[c].key] = "cancelled"]
        /\ Replies(c, "reconciled")
     \/ intent[net[c].key] = "cancelled" /\ UNCHANGED intent /\ Replies(c, "reconciled")
     \/ UNCHANGED intent /\ Replies(c, "unknown")

(* Reconcile. *)
LEMMA ReconcileEffect ==
  ASSUME net \in [Copy -> Request], NEW c \in Copy, Reconcile(c), ~Ordered(net[c].key)
  PROVE  Reconciles(c)
<1>1. "reconciled" \in Answers /\ "unknown" \in Answers
  BY DEF Answers, Definitive
<1> QED BY <1>1, RepliesEffect DEF Reconcile, Reconciles

(* Resolve. *)
LEMMA ResolveEffect ==
  ASSUME net \in [Copy -> Request], NEW c \in Copy, Resolve(c)
  PROVE  /\ net[c].st = "sent" /\ UNCHANGED <<phone, shop, orders>>
         /\ \/ Replies(c, "note") /\ UNCHANGED intent
            \/ KeyFree(net[c].key) /\ Ordered(net[c].key) /\ UNCHANGED intent /\ Replies(c, "order")
            \/ KeyFree(net[c].key) /\ Reconciles(c)
            \/ /\ KeyFree(net[c].key) /\ ~Ordered(net[c].key) /\ intent[net[c].key] = "none"
               /\ UNCHANGED intent
               /\ Enters(c, "resolved") \/ Replies(c, "closed")
<1>1. "order" \in Answers /\ "closed" \in Answers /\ "note" \in Answers
  BY DEF Answers
<1> QED BY <1>1, RepliesEffect, EntersEffect, ReconcileEffect DEF Resolve, ResolveAttempt

(* CreateOrder. *)
LEMMA CreateOrderEffect ==
  ASSUME net \in [Copy -> Request], NEW c \in Copy, CreateOrder(c)
  PROVE  /\ net[c].st = "resolved" /\ KeyFree(net[c].key) /\ UNCHANGED <<phone, shop, orders>>
         /\ \/ Ordered(net[c].key) /\ UNCHANGED intent /\ Replies(c, "order")
            \/ Reconciles(c)
            \/ /\ ~Ordered(net[c].key) /\ intent[net[c].key] = "none" /\ UNCHANGED intent
               /\ CartFree
               /\ \/ cart.open /\ price = confirmed[net[c].key].total /\ Enters(c, "held")
                  \/ Replies(c, "refused")
<1>1. "order" \in Answers /\ "refused" \in Answers
  BY DEF Answers, Definitive
<1> QED BY <1>1, RepliesEffect, EntersEffect, ReconcileEffect DEF CreateOrder, CartFits, TotalMatches

(* ProvisionPayment. *)
LEMMA ProvisionPaymentEffect ==
  ASSUME net \in [Copy -> Request], NEW c \in Copy, ProvisionPayment(c)
  PROVE  /\ net[c].st = "held" /\ UNCHANGED <<phone, shop, orders>>
         /\ \/ Enters(c, "paid") /\ intent' = [intent EXCEPT ![net[c].key] = "collect"]
            \/ Replies(c, "refused") /\ UNCHANGED intent
            \/ /\ Replies(c, "unknown")
               /\ intent' \in {intent, [intent EXCEPT ![net[c].key] = "collect"]}
<1>1. "unknown" \in Answers /\ "refused" \in Answers
  BY DEF Answers, Definitive
<1> QED BY <1>1, RepliesEffect, EntersEffect DEF ProvisionPayment, externalMutationOutcome

(* Commit. *)
LEMMA CommitEffect ==
  ASSUME net \in [Copy -> Request], NEW c \in Copy, Commit(c)
  PROVE  /\ net[c].st = "paid" /\ UNCHANGED <<phone, price, accepting, intent>>
         /\ \/ /\ orders' = orders \union {[key |-> net[c].key, total |-> price]}
               /\ cart'.open = FALSE
               /\ Replies(c, "order") \/ Replies(c, "unknown")
            \/ UNCHANGED <<orders, cart>> /\ Replies(c, "unknown")
<1>1. "unknown" \in Answers /\ "order" \in Answers
  BY DEF Answers
<1> QED BY <1>1, RepliesEffect DEF Commit, Committed

(* Rollback. *)
LEMMA RollbackEffect ==
  ASSUME net \in [Copy -> Request], NEW c \in Copy, Rollback(c)
  PROVE  net[c].st = "paid" /\ UNCHANGED <<phone, shop, orders, intent>> /\ Enters(c, "undo")
  BY EntersEffect DEF Rollback

(* Compensate. *)
LEMMA CompensateEffect ==
  ASSUME net \in [Copy -> Request], NEW c \in Copy, Compensate(c)
  PROVE  /\ net[c].st = "undo" /\ UNCHANGED <<phone, shop, orders>>
         /\ \/ /\ intent' = [intent EXCEPT ![net[c].key] = "cancelled"]
               /\ Replies(c, "refused") \/ Replies(c, "unknown")
            \/ UNCHANGED intent /\ Replies(c, "unknown")
<1>1. "unknown" \in Answers /\ "refused" \in Answers
  BY DEF Answers, Definitive
<1> QED BY <1>1, RepliesEffect DEF Compensate

(* Lose. *)
LEMMA LoseEffect ==
  ASSUME net \in [Copy -> Request], NEW c \in Copy, Lose(c)
  PROVE  net[c].st # "free" /\ UNCHANGED <<phone, shop, orders, intent, overtaken>> /\ Alone(c) /\ net'[c] = Free
  BY FreeRequest DEF Lose, Alone

(* A request in use is about an attempt. *)
LEMMA ServerKey ==
  ASSUME Base, NEW c \in Copy, net[c].st # "free"
  PROVE  net[c].key \in Attempt
<1>1. net[c] \in Request /\ net[c].key # 0
  BY DEF Base, TypeOK, Keyed
<1> QED BY <1>1, RequestFields, BoundsAssumption DEF Attempt

(* The server leaves no trace of an attempt that was not confirmed. *)
LEMMA UsedServer ==
  ASSUME Placed, NEW c \in Copy, ServerAt(c)
  PROVE  Used'
<1>0. /\ net \in [Copy -> Request] /\ intent \in [Attempt -> {"none", "collect", "cancelled"}]
      /\ orders \subseteq [key : Attempt, total : Price]
  BY DEF Placed, Base, TypeOK
<1>1. (\E m : Becomes(c, m)) /\ net[c].st # "free" /\ UNCHANGED <<run, stored, confirmed>>
  BY <1>0, ServerBecomes DEF phone
<1>2. net[c].key \in Attempt
  BY <1>1, ServerKey DEF Placed
<1> DEFINE k == net[c].key
<1>3. /\ \A i \in Attempt \ {k} : intent'[i] = intent[i]
      /\ orders' \subseteq orders \union {[key |-> k, total |-> price]}
      /\ net[c].st = "answered" => UNCHANGED <<orders, intent>>
  BY <1>0, <1>2, ResolveEffect, CreateOrderEffect, ProvisionPaymentEffect, CommitEffect,
     RollbackEffect, CompensateEffect, LoseEffect DEF ServerAt, Reconciles
<1>4. net[c].st # "answered" => Running(k)
  <2>1. net[c] \in Request
    BY <1>0
  <2> QED BY <1>1, <2>1, RequestFields DEF Running
<1>5. net[c].st = "answered" => net'[c] = Free
  BY <1>0, ResolveEffect, CreateOrderEffect, ProvisionPaymentEffect, CommitEffect,
     RollbackEffect, CompensateEffect, LoseEffect DEF ServerAt
<1>6. ASSUME NEW i \in Attempt, (Running(i))' PROVE Running(i)
  <2>1. PICK d \in Copy : net'[d].key = i /\ net'[d].st \in {"sent", "resolved", "held", "paid", "undo"}
    BY <1>6 DEF Running
  <2>2. CASE d # c
    BY <1>0, <1>1, <2>1, <2>2 DEF Becomes, Running
  <2>3. CASE d = c
    <3>1. net'[c] # Free
      BY <2>1, <2>3, FreeRequest
    <3>2. net'[c].key = k
      BY <1>0, <1>1, <3>1 DEF Becomes
    <3> QED BY <1>4, <1>5, <2>1, <2>3, <3>1, <3>2
  <2> QED BY <2>2, <2>3
<1>7. ASSUME NEW i \in Attempt, (Ordered(i))' PROVE Ordered(i) \/ (i = k /\ Running(k))
  <2>1. PICK o \in orders' : o.key = i
    BY <1>7 DEF Ordered
  <2> QED BY <1>3, <1>4, <2>1 DEF Ordered
<1>8. ASSUME NEW i \in Attempt, intent'[i] # "none" PROVE intent[i] # "none" \/ (i = k /\ Running(k))
  BY <1>3, <1>4, <1>8
<1> HIDE DEF k
<1>9. ASSUME NEW i \in Attempt, (Traced(i))' PROVE Traced(i)
  BY <1>1, <1>6, <1>7, <1>8, <1>9 DEF Traced
<1> QED BY <1>1, <1>9 DEF Placed, Used

(* The server keeps one copy in the transaction, on the confirmed total. *)
LEMMA TransactionServer ==
  ASSUME Placed, NEW c \in Copy, ServerAt(c)
  PROVE  Transaction' /\ Ordering'
<1>0. /\ net \in [Copy -> Request] /\ intent \in [Attempt -> {"none", "collect", "cancelled"}]
      /\ orders \subseteq [key : Attempt, total : Price]
  BY DEF Placed, Base, TypeOK
<1>1. net[c].st # "free" /\ UNCHANGED <<run, stored, confirmed>>
  BY <1>0, ServerBecomes DEF phone
<1> DEFINE k == net[c].key
<1>2. k \in Attempt
  BY <1>1, ServerKey DEF Placed
<1>3. \A d \in Copy : net[d].st # "free" => net[d].key \in Attempt
  BY ServerKey DEF Placed
<1>4. /\ \A d, e \in Copy : InTransaction(d) /\ InTransaction(e) => d = e
      /\ \A d \in Copy : InTransaction(d) => cart.open /\ price = confirmed[net[d].key].total
      /\ \A d \in Copy : /\ net[d].st = "held" => intent[net[d].key] = "none"
                         /\ net[d].st = "paid" => intent[net[d].key] = "collect"
                         /\ net[d].st = "undo" => intent[net[d].key] # "none"
      /\ \A d, e \in Copy : net[d].st = "undo" /\ InTransaction(e) => net[d].key # net[e].key
  BY DEF Placed, Transaction
<1> HIDE DEF k
<1> USE FreeRequest
(* The copy leaves the transaction, or stays out of it. *)
<1>5. ASSUME Alone(c), net'[c].st \notin {"held", "paid", "undo"}, UNCHANGED <<price, orders>>, cart' = cart,
             \/ UNCHANGED intent
             \/ intent' = [intent EXCEPT ![k] = "cancelled"] /\ KeyFree(k)
             \/ net[c].st = "undo" /\ intent' = [intent EXCEPT ![k] = "cancelled"]
             \/ InTransaction(c) /\ intent' = [intent EXCEPT ![k] = "collect"]
      PROVE  Transaction' /\ Ordering'
  <2>1. Transaction'
    <3> SUFFICES ASSUME NEW d \in Copy, NEW e \in Copy
                 PROVE /\ (InTransaction(d) /\ InTransaction(e) => d = e)'
                       /\ (InTransaction(d) => cart.open /\ price = confirmed[net[d].key].total)'
                       /\ (net[d].st = "held" => intent[net[d].key] = "none")'
                       /\ (net[d].st = "paid" => intent[net[d].key] = "collect")'
                       /\ (net[d].st = "undo" => intent[net[d].key] # "none")'
                       /\ (net[d].st = "undo" /\ InTransaction(e) => net[d].key # net[e].key)'
      BY DEF Transaction
    <3>1. CASE d = c
      BY <1>1, <1>3, <1>4, <1>5, <3>1 DEF Alone, InTransaction
    <3>2. CASE d # c
      <4>1. net'[d] = net[d] /\ (net'[e] = net[e] \/ ~InTransaction(e)')
        BY <1>5, <3>2 DEF Alone, InTransaction
      <4>2. net[d].st # "free" => intent'[net[d].key] = intent[net[d].key] \/ net[d].key = k
        BY <1>0, <1>3, <1>2, <1>5
      <4>3. CASE net[d].key # k
        BY <1>1, <1>3, <1>4, <1>5, <4>1, <4>2, <4>3 DEF InTransaction
      <4>4. CASE net[d].key = k
        BY <1>0, <1>1, <1>2, <1>3, <1>4, <1>5, <3>2, <4>1, <4>4 DEF InTransaction, KeyFree, k
      <4> QED BY <4>3, <4>4
    <3> QED BY <3>1, <3>2
  <2> QED BY <1>1, <1>5, <2>1 DEF Placed, Ordering, ConfirmedTotal
(* The copy moves on. *)
<1>6. CASE Resolve(c)
  <2>1. Reconciles(c) => Transaction' /\ Ordering'
    BY <1>0, <1>5, <1>6, ResolveEffect DEF Reconciles, Replies, shop, k
  <2> QED BY <1>0, <1>5, <1>6, <2>1, ResolveEffect DEF Replies, Enters, shop
<1>7. ASSUME Alone(c), net'[c].st = "held", net'[c].key = k, UNCHANGED <<price, orders, intent, cart>>,
             ~InTransaction(c), CartFree, intent[k] = "none", cart.open, price = confirmed[k].total
      PROVE  Transaction' /\ Ordering'
  <2>1. Transaction'
    BY <1>1, <1>3, <1>4, <1>7 DEF Transaction, Alone, InTransaction, CartFree
  <2> QED BY <1>1, <1>7, <2>1 DEF Placed, Ordering, ConfirmedTotal
<1>8. CASE CreateOrder(c)
  <2>1. Reconciles(c) => Transaction' /\ Ordering'
    BY <1>0, <1>5, <1>8, CreateOrderEffect DEF Reconciles, Replies, shop, k
  <2>2. CASE intent[k] = "none" /\ UNCHANGED intent /\ CartFree /\ cart.open /\ price = confirmed[k].total /\ Enters(c, "held")
    BY <1>0, <1>7, <1>8, <2>2, CreateOrderEffect DEF Enters, shop, k, InTransaction
  <2> QED BY <1>0, <1>5, <1>8, <2>1, <2>2, CreateOrderEffect DEF Replies, shop, k
<1>9. CASE ProvisionPayment(c)
  <2>1. net[c].st = "held" /\ UNCHANGED <<cart, price, orders>>
    BY <1>0, <1>9, ProvisionPaymentEffect DEF shop
  <2>2. CASE Enters(c, "paid") /\ intent' = [intent EXCEPT ![k] = "collect"]
    <3>1. Transaction'
      BY <1>0, <1>1, <1>2, <1>3, <1>4, <2>1, <2>2 DEF Transaction, Alone, InTransaction, Enters, k
    <3> QED BY <1>1, <2>1, <3>1 DEF Placed, Ordering, ConfirmedTotal
  <2> QED BY <1>0, <1>5, <1>9, <2>1, <2>2, ProvisionPaymentEffect DEF Replies, k, InTransaction
<1>10. CASE Commit(c)
  <2>1. net[c].st = "paid" /\ UNCHANGED <<price, intent>>
    BY <1>0, <1>10, CommitEffect
  <2>2. CASE UNCHANGED <<orders, cart>> /\ Replies(c, "unknown")
    BY <1>5, <2>1, <2>2 DEF Replies
  <2>3. CASE /\ orders' = orders \union {[key |-> k, total |-> price]}
             /\ cart'.open = FALSE
             /\ Replies(c, "order") \/ Replies(c, "unknown")
    <3>1. Alone(c) /\ net'[c].st \in {"free", "answered"}
      BY <2>3 DEF Replies
    <3>2. InTransaction(c) /\ cart.open /\ price = confirmed[k].total
      BY <1>4, <2>1 DEF InTransaction, k
    <3>3. \A d \in Copy : ~InTransaction(d)'
      BY <1>4, <3>1, <3>2 DEF Alone, InTransaction
    <3>4. Transaction'
      BY <1>1, <1>4, <2>1, <3>1, <3>3 DEF Transaction, Alone, InTransaction
    <3>5. orders = {}
      BY <3>2 DEF Placed, Ordering
    <3> QED BY <1>1, <2>3, <3>2, <3>4, <3>5 DEF Ordering, ConfirmedTotal
  <2> QED BY <1>0, <1>10, <2>2, <2>3, CommitEffect DEF k
<1>11. CASE Rollback(c)
  <2>1. net[c].st = "paid" /\ UNCHANGED <<cart, price, orders, intent>> /\ Enters(c, "undo")
    BY <1>0, <1>11, RollbackEffect DEF shop
  <2>2. Transaction'
    BY <1>1, <1>3, <1>4, <2>1 DEF Transaction, Alone, InTransaction, Enters
  <2> QED BY <1>1, <2>1, <2>2 DEF Placed, Ordering, ConfirmedTotal
<1>12. CASE Compensate(c)
  BY <1>0, <1>5, <1>12, CompensateEffect DEF Replies, shop, k
<1>13. CASE Lose(c)
  BY <1>0, <1>5, <1>13, LoseEffect DEF shop
<1> QED BY <1>6, <1>8, <1>9, <1>10, <1>11, <1>12, <1>13 DEF ServerAt

(* Changes of the shop wait for the transaction. *)
LEMMA ShopPlaced ==
  ASSUME Placed, ShopChanges
  PROVE  Used' /\ Transaction' /\ Ordering'
<1>1. UNCHANGED <<owner, run, stored, confirmed, net, orders, intent>>
  BY DEF ShopChanges, phone
<1>2. UNCHANGED <<cart, price>> \/ CartFree
  BY DEF ShopChanges
<1>3. cart'.open => cart.open
  BY DEF ShopChanges, Placed, Base, TypeOK
<1>4. cart' = cart \/ CartFree
  BY <1>2
<1>5. Used'
  BY <1>1 DEF Placed, Used, Traced, Running, Ordered
<1>6. Transaction'
  BY <1>1, <1>2 DEF Placed, Transaction, InTransaction, CartFree
<1>7. Ordering'
  BY <1>1, <1>3 DEF Placed, Ordering, ConfirmedTotal
<1> QED BY <1>5, <1>6, <1>7

(* Stuttering. *)
LEMMA PlacedStutter ==
  ASSUME Placed, UNCHANGED vars
  PROVE  Used' /\ Transaction' /\ Ordering'
<1>1. Used'
  BY DEF vars, Placed, Used, Traced, Running, Ordered
<1>2. Transaction'
  BY DEF vars, Placed, Transaction, InTransaction
<1>3. Ordering'
  BY DEF vars, Placed, Ordering, ConfirmedTotal
<1> QED BY <1>1, <1>2, <1>3

(* The initial state, layer 1. *)
LEMMA BaseInit == Init => Base
<1> SUFFICES ASSUME Init PROVE Base
  OBVIOUS
<1> USE BoundsAssumption, IdleOp, FreeRequest DEF Init
<1>1. screen \in Screen /\ screen.view = "none"
  BY DEF NoScreen, Screen
<1>2. run \in [Activity -> Op] /\ net \in [Copy -> Request]
  OBVIOUS
<1>3. \A k \in Attempt : [total |-> 0, ver |-> 0, note |-> TRUE] \in [total : Price \union {0}, ver : Nat, note : BOOLEAN]
  OBVIOUS
<1>4. TypeOK
  <2>1. confirmed \in [Attempt -> [total : Price \union {0}, ver : Nat, note : BOOLEAN]]
    BY <1>3
  <2>2. cart \in [open : BOOLEAN, ver : Nat \ {0}] /\ intent \in [Attempt -> {"none", "collect", "cancelled"}]
    OBVIOUS
  <2>3. stored \in 0..MaxAttempt /\ edits \in 0..MaxEdits /\ faults \in 0..MaxFaults
    OBVIOUS
  <2>4. orders \subseteq [key : Attempt, total : Price]
    OBVIOUS
  <2>5. owner \in BOOLEAN /\ accepting \in BOOLEAN /\ overtaken \in BOOLEAN /\ price \in Price
        /\ wlt \in {"takes", "short", "refuses"}
    OBVIOUS
  <2> QED BY ONLY <1>1, <1>2, <2>1, <2>2, <2>3, <2>4, <2>5 DEF TypeOK
<1>5. Keyed /\ Listening /\ Mounted
  BY DEF Keyed, Listening, Mounted, Activity
<1> QED BY <1>4, <1>5 DEF Base

(* The initial state, layer 2. *)
LEMMA PlacedInit == Init => Placed
<1> SUFFICES ASSUME Init PROVE Placed
  OBVIOUS
<1> USE IdleOp, FreeRequest DEF Init
<1>1. Base
  BY BaseInit
<1>2. Shown
  BY DEF Shown, NoScreen, Activity
<1>3. Used
  BY DEF Used, Traced, Running, Ordered, Attempt
<1>4. Transaction
  BY DEF Transaction, InTransaction
<1>5. Ordering
  BY DEF Ordering, ConfirmedTotal
<1> QED BY <1>1, <1>2, <1>3, <1>4, <1>5 DEF Placed

(* Layers 1 and 2 are inductive. *)
LEMMA PlacedStep == Placed /\ [Next]_vars => Placed'
<1> SUFFICES ASSUME Placed, [Next]_vars PROVE Placed'
  OBVIOUS
<1>1. Base'
  BY TypeStep, KeyedStep, MountedStep DEF Placed, Base
<1>2. Shown'
  BY ShownStep DEF Placed, Base
<1>3. CASE Phone
  <2>1. Frame /\ Names
    BY <1>3, PhoneFrame DEF Placed, Base
  <2> QED BY <1>1, <1>2, <2>1, UsedPhone, TransactionPhone DEF Placed
<1>4. ASSUME NEW c \in Copy, ServerAt(c) PROVE Placed'
  BY <1>1, <1>2, <1>4, UsedServer, TransactionServer DEF Placed
<1>5. CASE ShopChanges
  BY <1>1, <1>2, <1>5, ShopPlaced DEF Placed
<1>6. CASE UNCHANGED vars
  BY <1>1, <1>2, <1>6, PlacedStutter DEF Placed
<1> QED BY <1>3, <1>4, <1>5, <1>6 DEF Next, Server, ServerAt

(* Layers 1 and 2 hold throughout. *)
LEMMA AlwaysPlaced == Spec => []Placed
  BY PlacedInit, PlacedStep, PTL DEF Spec

(* Every variable keeps its type: the screen, its activities, the requests *)
(* and the server's rows.                                                  *)
THEOREM TypeCorrect == Spec => []TypeOK
<1>1. Placed => TypeOK
  BY DEF Placed, Base
<1> QED BY AlwaysPlaced, <1>1, PTL

(* However many copies of a request run, whatever is lost, repeated or     *)
(* compensated and however the screens come and go, CreateOrderFromCart    *)
(* makes at most one order of the cart.                                    *)
THEOREM OrderedOnce == Spec => []OneOrder
<1>1. Placed => OneOrder
  <2> SUFFICES ASSUME Placed PROVE Cardinality(orders) <= 1
    BY DEF OneOrder
  <2>1. CASE orders = {}
    BY <2>1, FS_EmptySet
  <2>2. CASE orders # {}
    <3>1. PICK o : orders = {o}
      BY <2>2 DEF Placed, Ordering
    <3> QED BY <3>1, FS_Singleton
  <2> QED BY <2>1, <2>2
<1> QED BY AlwaysPlaced, <1>1, PTL

(* The order costs what its client confirmed: the total is compared in the *)
(* transaction whose locks stop it from changing before the commit.        *)
THEOREM PaysConfirmed == Spec => []ConfirmedTotal
<1>1. Placed => ConfirmedTotal
  BY DEF Placed, Ordering
<1> QED BY AlwaysPlaced, <1>1, PTL

----------------------------------------------------------------------------
(* Layer 3: the attempt on the phone, when a screen is not opened over a   *)
(* running checkout.                                                       *)

(* Attempt k has a payment intent, or a copy that can still make one.      *)
Live(k) == intent[k] = "collect" \/ (Running(k) /\ intent[k] # "cancelled")
Calm == ~overtaken /\ orders = {}
NoLive == Calm => \A k \in Attempt : ~Live(k)

Heard == \A c \in Copy : net[c].st = "answered" => net[c].to # "none"
Single == run["old"] # Idle => run["cur"] = Idle /\ screen = NoScreen
Fresh == \A a \in Activity : run[a].pc \in {"prepare", "kept"} =>
           intent[run[a].key] = "none" /\ ~Running(run[a].key)
Kept == \A a \in Activity : run[a].pc \in {"order", "kept", "wait", "readback"} => stored = run[a].key
StoredLive == Calm => \A k \in Attempt : Live(k) => stored = k
Opening == screen.view = "ready" \/ run["cur"].pc = "cart"
           \/ \E a \in Activity : run[a].pc \in {"prepare", "kept"}
Ready == Opening => NoLive
Refused ==
  /\ \A c \in Copy : Calm /\ net[c].st = "answered" /\ net[c].why \in Definitive => ~Live(net[c].key)
  /\ \A c \in Copy : net[c].st = "answered" /\ net[c].why = "order" => orders # {}
RefusedRead ==
  \A a \in Activity : Calm /\ run[a].pc = "readback" /\ run[a].why \in Definitive => ~Live(run[a].key)
Afterwards == ~overtaken /\ orders # {} => \A k \in Attempt : intent[k] = "collect" => Ordered(k)

Safe == /\ Heard /\ Single /\ Fresh /\ Kept /\ StoredLive /\ Ready
        /\ Refused /\ RefusedRead /\ Afterwards

(* One activity runs at a time when no screen is opened over another. *)
LEMMA SingleStep == Base /\ Single /\ Reopen = FALSE /\ [Next]_vars => Single'
<1> SUFFICES ASSUME Base, Single, Reopen = FALSE, [Next]_vars PROVE Single'
  OBVIOUS
<1>0. /\ run \in [Activity -> Op] /\ net \in [Copy -> Request] /\ stored \in 0..MaxAttempt
      /\ screen \in Screen /\ (screen.view = "none" => run["cur"] = Idle)
      /\ confirmed \in [Attempt -> [total : Price \union {0}, ver : Nat, note : BOOLEAN]]
  BY DEF Base, TypeOK, Mounted
<1> USE IdleOp DEF Activity
<1>a. NoScreen.view = "none"
  BY DEF NoScreen
<1>1. ASSUME UNCHANGED run, UNCHANGED screen PROVE Single'
  BY <1>1 DEF Single
<1>2. ASSUME run["old"] = Idle, run'["old"] = run["old"] PROVE Single'
  BY <1>2 DEF Single
<1>3. ASSUME screen' = NoScreen, run'["cur"] = Idle PROVE Single'
  BY <1>3 DEF Single
<1>4. ASSUME NEW a \in Activity, run[a] # Idle, \A b \in Activity \ {a} : run'[b] = run[b],
             a = "old" => UNCHANGED screen
      PROVE Single'
  BY <1>4 DEF Single
<1>5. ASSUME screen.view # "none", run'["old"] = run["old"] PROVE Single'
  BY <1>2, <1>5, <1>a DEF Single
<1>6. ASSUME NEW v, StartLoad(v) PROVE run'["old"] = run["old"]
  BY <1>0, <1>6, LoadEffect DEF At
<1>7. ASSUME NEW a \in Activity, NEW p, NEW kd, NEW w, NEW k, At(a, p, kd, k, w), run[a] # Idle,
             a = "old" => UNCHANGED screen
      PROVE  Single'
  BY <1>4, <1>7 DEF At
<1>8. ASSUME NEW a \in Activity, Stopped(a), run[a] # Idle, a = "old" => UNCHANGED screen
      PROVE  Single'
  BY <1>7, <1>8 DEF Stopped
<1>9. ASSUME NEW v, Show("old", v) PROVE UNCHANGED screen
  BY <1>9 DEF Show
<1>10. CASE Leave \/ SignOut
  BY <1>0, <1>3, <1>10, LeftRunEffect DEF Leave, SignOut, LeftRun
<1>11. CASE Kill
  <2>1. screen' = NoScreen
    BY <1>11 DEF Kill
  <2> QED BY <1>0, <1>3, <1>11, <2>1, KillEffect DEF KilledRun
<1>12. CASE SignIn \/ ShopChanges \/ (\E c \in Copy : ServerAt(c))
  BY <1>0, <1>1, <1>12, ServerBecomes DEF SignIn, ShopChanges, phone
<1>13. CASE OpenScreen
  <2>1. Quiet("old") /\ \E v : StartLoad(v)
    BY <1>13 DEF OpenScreen
  <2> QED BY <1>2, <1>6, <2>1 DEF Quiet
<1>14. CASE Verify
  BY <1>5, <1>6, <1>14 DEF Verify
<1>15. CASE refreshQuote
  <2>1. UNCHANGED run /\ screen.view # "none"
    BY <1>15 DEF refreshQuote
  <2> QED BY <1>5, <2>1
<1>16. CASE updateLine
  <2>1. screen.view # "none" /\ (UNCHANGED run \/ StartLoad("loading"))
    BY <1>16 DEF updateLine
  <2> QED BY <1>5, <1>6, <2>1
<1>17. CASE Confirm
  <2>1. screen.view # "none"
    BY <1>17 DEF Confirm
  <2>2. run'["old"] = run["old"]
    BY <1>0, <1>17, ConfirmEffect DEF At
  <2> QED BY <1>5, <2>1, <2>2
<1>18. CASE LoadRead
  BY <1>0, <1>7, <1>18, LoadReadEffect DEF LoadRead
<1>19. CASE LoadOrder
  <2>1. run["cur"] # Idle
    BY <1>19 DEF LoadOrder
  <2> QED BY <1>0, <1>7, <1>8, <1>19, <2>1, LoadOrderEffect
<1>20. CASE readOpenCart
  <2>1. run["cur"] # Idle
    BY <1>20 DEF readOpenCart
  <2> QED BY <1>0, <1>8, <1>20, <2>1, readOpenCartEffect
<1>21. ASSUME NEW a \in Activity, Keep(a) PROVE Single'
  <2>1. UNCHANGED screen /\ run[a] # Idle
    BY <1>21 DEF Keep, Stop
  <2> QED BY <1>0, <1>7, <1>8, <1>21, <2>1, KeepEffect
<1>22. ASSUME NEW a \in Activity, Send(a) PROVE Single'
  <2>1. run[a] # Idle /\ (UNCHANGED screen \/ Show(a, "pending"))
    BY <1>22 DEF Send, Stop, checkoutCart
  <2> QED BY <1>0, <1>7, <1>8, <1>9, <1>22, <2>1, SendingEffect
<1>23. ASSUME NEW a \in Activity, GiveUp(a) PROVE Single'
  <2>1. UNCHANGED screen /\ run[a] # Idle
    BY <1>23 DEF GiveUp
  <2> QED BY <1>0, <1>7, <1>23, <2>1, GiveUpEffect
<1>24. ASSUME NEW a \in Activity, NEW c \in Copy, Receive(a, c) PROVE Single'
  <2>1. run[a] # Idle /\ (UNCHANGED screen \/ Show(a, "done"))
    BY <1>24 DEF Receive, Stop, finishCheckout, Waiting
  <2> QED BY <1>0, <1>7, <1>8, <1>9, <1>24, <2>1, ReceiveEffect
<1>25. ASSUME NEW a \in Activity, Readback(a) PROVE Single'
  <2>1. run[a] # Idle /\ (a = "cur" \/ UNCHANGED screen \/ Show(a, "done") \/ Show(a, "ready") \/ Show(a, "pending"))
    BY <1>25 DEF Readback, Stop, finishCheckout
  <2> QED BY <1>0, <1>7, <1>8, <1>9, <1>25, <2>1, ReadbackEffect
<1>26. CASE UNCHANGED vars
  BY <1>1, <1>26 DEF vars
<1> QED
  BY <1>10, <1>11, <1>12, <1>13, <1>14, <1>15, <1>16, <1>17, <1>18, <1>19, <1>20,
     <1>21, <1>22, <1>23, <1>24, <1>25, <1>26 DEF Next, Phone, Server, ServerAt

(* The server adds no live attempt. *)
LEMMA LiveServer ==
  ASSUME Placed, NEW c \in Copy, ServerAt(c)
  PROVE  /\ \A i \in Attempt : (Live(i))' => Live(i)
         /\ \A i \in Attempt : (Running(i))' => Running(i)
         /\ \A i \in Attempt : intent'[i] # intent[i] => i = net[c].key /\ Running(i)
         /\ Calm' => Calm
         /\ UNCHANGED <<owner, screen, run, stored, confirmed>>
<1>0. /\ net \in [Copy -> Request] /\ intent \in [Attempt -> {"none", "collect", "cancelled"}]
      /\ overtaken \in BOOLEAN
  BY DEF Placed, Base, TypeOK
<1>1. (\E m : Becomes(c, m)) /\ net[c].st # "free" /\ UNCHANGED <<owner, screen, run, stored, confirmed>>
  BY <1>0, ServerBecomes DEF phone
<1> DEFINE k == net[c].key
<1>2. k \in Attempt
  BY <1>1, ServerKey DEF Placed
<1>3. /\ \A i \in Attempt \ {k} : intent'[i] = intent[i]
      /\ net[c].st = "answered" => UNCHANGED intent
      /\ intent'[k] = intent[k] \/ intent'[k] = "cancelled" \/ net[c].st = "held"
      /\ orders \subseteq orders' /\ (overtaken => overtaken')
  BY <1>0, <1>2, ResolveEffect, CreateOrderEffect, ProvisionPaymentEffect, CommitEffect,
     RollbackEffect, CompensateEffect, LoseEffect DEF ServerAt, Reconciles, Replies, Enters
<1>4. net[c].st # "answered" => Running(k)
  <2>1. net[c] \in Request
    BY <1>0
  <2> QED BY <1>1, <2>1, RequestFields DEF Running
<1>5. net[c].st = "answered" => net'[c] = Free
  BY <1>0, ResolveEffect, CreateOrderEffect, ProvisionPaymentEffect, CommitEffect,
     RollbackEffect, CompensateEffect, LoseEffect DEF ServerAt
<1>6. ASSUME NEW i \in Attempt, (Running(i))' PROVE Running(i)
  <2>1. PICK d \in Copy : net'[d].key = i /\ net'[d].st \in {"sent", "resolved", "held", "paid", "undo"}
    BY <1>6 DEF Running
  <2>2. CASE d # c
    BY <1>0, <1>1, <2>1, <2>2 DEF Becomes, Running
  <2>3. CASE d = c
    <3>1. net'[c] # Free
      BY <2>1, <2>3, FreeRequest
    <3>2. net'[c].key = k
      BY <1>0, <1>1, <3>1 DEF Becomes
    <3> QED BY <1>4, <1>5, <2>1, <2>3, <3>1, <3>2
  <2> QED BY <2>2, <2>3
<1>7. net[c].st = "held" => intent[k] = "none"
  BY DEF Placed, Transaction
<1> HIDE DEF k
<1>8. ASSUME NEW i \in Attempt, (Live(i))' PROVE Live(i)
  BY <1>0, <1>2, <1>3, <1>4, <1>6, <1>7, <1>8 DEF Live
<1>9. \A i \in Attempt : intent'[i] # intent[i] => i = k /\ Running(i)
  BY <1>2, <1>3, <1>4
<1> QED BY <1>1, <1>3, <1>6, <1>8, <1>9 DEF Calm, k

(* An answer has a listener. *)
LEMMA HeardServer ==
  ASSUME Placed, Safe, NEW c \in Copy, ServerAt(c)
  PROVE  Heard'
<1>0. net \in [Copy -> Request]
  BY DEF Placed, Base, TypeOK
<1>1. Alone(c) /\ (net'[c].st = "answered" => net'[c].to # "none")
  BY <1>0, FreeRequest, ResolveEffect, CreateOrderEffect, ProvisionPaymentEffect, CommitEffect,
     RollbackEffect, CompensateEffect, LoseEffect DEF ServerAt, Reconciles, Replies, Enters
<1> QED BY <1>1 DEF Alone, Heard, Safe

(* An answer that ends the attempt leaves nothing of it alive. *)
LEMMA RefusedServer ==
  ASSUME Placed, Safe, NEW c \in Copy, ServerAt(c)
  PROVE  Refused'
<1>0. /\ net \in [Copy -> Request] /\ intent \in [Attempt -> {"none", "collect", "cancelled"}]
  BY DEF Placed, Base, TypeOK
<1>1. net[c].st # "free" /\ Alone(c)
  BY <1>0, ServerBecomes, ResolveEffect, CreateOrderEffect, ProvisionPaymentEffect, CommitEffect,
     RollbackEffect, CompensateEffect, LoseEffect DEF ServerAt, Reconciles, Replies, Enters
<1>2. \A d \in Copy : net[d].st # "free" => net[d].key \in Attempt
  BY <1>1, ServerKey DEF Placed
<1>7. PICK k \in Attempt : k = net[c].key
  BY <1>1, <1>2
<1>3. orders \subseteq orders'
  BY <1>0, ResolveEffect, CreateOrderEffect, ProvisionPaymentEffect, CommitEffect,
     RollbackEffect, CompensateEffect, LoseEffect DEF ServerAt
<1>4. ASSUME NEW d \in Copy, d # c
      PROVE  /\ (Calm /\ net[d].st = "answered" /\ net[d].why \in Definitive => ~Live(net[d].key))'
             /\ (net[d].st = "answered" /\ net[d].why = "order" => orders # {})'
  <2>1. net'[d] = net[d]
    BY <1>1, <1>4 DEF Alone
  <2> QED BY <1>2, <1>3, <2>1, LiveServer DEF Safe, Refused
(* The answer of the copy that moved. *)
<1>5. ASSUME net'[c].st = "answered", net'[c].why = "order" PROVE orders' # {}
  BY <1>0, <1>5, ResolveEffect, CreateOrderEffect, ProvisionPaymentEffect, CommitEffect, FreeRequest,
     RollbackEffect, CompensateEffect, LoseEffect DEF ServerAt, Reconciles, Replies, Enters, Ordered, Refused
<1>6. ASSUME Calm', net'[c].st = "answered", net'[c].why \in Definitive PROVE ~Live(net[c].key)'
  <2>1. net'[c].key = k /\ net'[c].st # "free"
    BY <1>0, <1>6, <1>7, FreeRequest, ResolveEffect, CreateOrderEffect, ProvisionPaymentEffect, CommitEffect,
       RollbackEffect, CompensateEffect, LoseEffect DEF ServerAt, Reconciles, Replies, Enters
  <2>2. \/ intent'[k] = "cancelled"
        \/ /\ intent'[k] = "none" /\ intent[k] = "none" /\ ~MayFollow(c)
    <3>1. \A w \in {"order", "closed", "note", "unknown"} : w \notin Definitive
      BY DEF Definitive
    <3>2. /\ net[c].st = "held" => intent[k] = "none"
          /\ net[c].st # "answered"
      BY <1>0, <1>6, <1>7, FreeRequest, ServerBecomes, ResolveEffect, CreateOrderEffect, ProvisionPaymentEffect,
         CommitEffect, RollbackEffect, CompensateEffect, LoseEffect DEF Placed, Transaction, ServerAt
    <3>3. Replies(c, "refused") => ~MayFollow(c)
      BY <1>6 DEF Replies, Calm
    <3>4. \A w : Replies(c, w) => w = net'[c].why
      BY <1>6, FreeRequest DEF Replies
    <3>5. \A w : Enters(c, w) => w = "answered"
      BY <1>6 DEF Enters
    <3>6. Reconciles(c) => intent'[k] = "cancelled"
      BY <1>0, <1>6, <1>7, <3>1, <3>4 DEF Reconciles
    <3>7. CASE Resolve(c)
      BY <1>0, <1>6, <3>1, <3>4, <3>5, <3>6, <3>7, ResolveEffect
    <3>8. CASE CreateOrder(c)
      BY <1>0, <1>6, <1>7, <3>1, <3>3, <3>4, <3>5, <3>6, <3>8, CreateOrderEffect
    <3>9. CASE ProvisionPayment(c)
      BY <1>0, <1>6, <1>7, <3>1, <3>2, <3>3, <3>4, <3>5, <3>9, ProvisionPaymentEffect
    <3>10. CASE Commit(c)
      BY <1>0, <1>6, <3>1, <3>4, <3>10, CommitEffect
    <3>11. CASE Rollback(c)
      BY <1>0, <3>5, <3>11, RollbackEffect
    <3>12. CASE Compensate(c)
      BY <1>0, <1>6, <1>7, <3>1, <3>4, <3>12, CompensateEffect
    <3>13. CASE Lose(c)
      BY <1>0, <1>6, <3>13, LoseEffect, FreeRequest
    <3> QED BY <3>7, <3>8, <3>9, <3>10, <3>11, <3>12, <3>13 DEF ServerAt
  <2>3. CASE intent'[k] = "cancelled"
    BY <1>7, <2>1, <2>3 DEF Live
  <2>4. CASE intent'[k] = "none" /\ intent[k] = "none" /\ ~MayFollow(c)
    <3>1. \A d \in Copy \ {c} : net[d].key = k => net[d].st \notin {"sent", "resolved", "held", "paid", "undo"}
      BY <1>2, <1>7, <2>4 DEF MayFollow, Placed, Transaction
    <3>2. ~Running(k)'
      BY <1>1, <1>6, <3>1 DEF Running, Alone
    <3> QED BY <2>1, <2>4, <3>2 DEF Live
  <2> QED BY <2>2, <2>3, <2>4
<1> QED BY <1>4, <1>5, <1>6 DEF Refused

(* A committed order leaves no intent of another attempt behind. *)
LEMMA AfterwardsServer ==
  ASSUME Placed, Safe, NEW c \in Copy, ServerAt(c)
  PROVE  Afterwards'
<1>0. /\ net \in [Copy -> Request] /\ intent \in [Attempt -> {"none", "collect", "cancelled"}]
      /\ overtaken \in BOOLEAN
  BY DEF Placed, Base, TypeOK
<1>1. net[c].st # "free"
  BY <1>0, ServerBecomes
<1> DEFINE k == net[c].key
<1>2. k \in Attempt
  BY <1>1, ServerKey DEF Placed
<1>3. \/ UNCHANGED orders
      \/ /\ net[c].st = "paid" /\ orders' = orders \union {[key |-> k, total |-> price]}
         /\ UNCHANGED intent
  BY <1>0, ResolveEffect, CreateOrderEffect, ProvisionPaymentEffect, CommitEffect,
     RollbackEffect, CompensateEffect, LoseEffect DEF ServerAt
<1>4. overtaken => overtaken'
  BY <1>0, ResolveEffect, CreateOrderEffect, ProvisionPaymentEffect, CommitEffect,
     RollbackEffect, CompensateEffect, LoseEffect DEF ServerAt, Reconciles, Replies, Enters
<1>5. InTransaction(c) => orders = {}
  BY DEF Placed, Transaction, Ordering
<1>6. CASE UNCHANGED orders
  <2>1. \A i \in Attempt : intent'[i] = "collect" => intent[i] = "collect" \/ InTransaction(c)
    BY <1>0, <1>2, ResolveEffect, CreateOrderEffect, ProvisionPaymentEffect, CommitEffect,
       RollbackEffect, CompensateEffect, LoseEffect DEF ServerAt, Reconciles, InTransaction
  <2> QED BY <1>4, <1>5, <1>6, <2>1 DEF Safe, Afterwards, Ordered
<1>7. CASE /\ net[c].st = "paid" /\ orders' = orders \union {[key |-> k, total |-> price]}
           /\ UNCHANGED intent
  <2>1. orders = {} /\ intent[k] = "collect"
    BY <1>5, <1>7 DEF InTransaction, Placed, Transaction
  <2>2. ASSUME ~overtaken', NEW i \in Attempt, intent'[i] = "collect" PROVE (Ordered(i))'
    <3>1. Calm /\ Live(i) /\ Live(k)
      BY <1>4, <1>7, <2>1, <2>2 DEF Calm, Live
    <3>2. i = k
      BY <1>2, <3>1 DEF Safe, StoredLive
    <3>3. [key |-> k, total |-> price] \in orders' /\ [key |-> k, total |-> price].key = i
      BY <1>7, <3>2
    <3> QED BY <3>3 DEF Ordered
  <2> QED BY <2>2 DEF Afterwards
<1> QED BY <1>3, <1>6, <1>7

(* An activity that needs an attempt has one. *)
LEMMA RunKey ==
  ASSUME Base, NEW a \in Activity, run[a].pc \in {"order", "prepare", "kept", "wait", "readback"}
  PROVE  run[a].key \in Attempt
<1>1. run[a] \in Op /\ run[a].key # 0
  BY DEF Base, TypeOK, Keyed
<1> QED BY <1>1, OpFields, BoundsAssumption DEF Attempt

(* The server keeps layer 3. *)
LEMMA SafeServer ==
  ASSUME Placed, Safe, Single', NEW c \in Copy, ServerAt(c)
  PROVE  Safe'
<1>1. Heard' /\ Refused' /\ Afterwards'
  BY HeardServer, RefusedServer, AfterwardsServer
<1>2. Fresh'
  BY LiveServer, RunKey DEF Safe, Fresh, Placed
<1>3. Kept'
  BY LiveServer DEF Safe, Kept
<1>4. StoredLive' /\ Ready'
  BY LiveServer DEF Safe, StoredLive, Ready, NoLive, Opening
<1>5. RefusedRead'
  BY LiveServer, RunKey DEF Safe, RefusedRead, Placed
<1> QED BY <1>1, <1>2, <1>3, <1>4, <1>5 DEF Safe

NoSend ==
  /\ UNCHANGED <<orders, intent, overtaken>>
  /\ \A d \in Copy :
       \/ net'[d] = Free
       \/ /\ net'[d].st = net[d].st /\ net'[d].key = net[d].key /\ net'[d].why = net[d].why
          /\ net[d].st = "answered" => net'[d].to # "none"

(* A step that sends nothing adds no live attempt and no answer. *)
LEMMA LiveNoSend ==
  ASSUME Placed, Safe, NoSend
  PROVE  /\ \A i \in Attempt : ((Live(i))' => Live(i)) /\ ((Running(i))' => Running(i))
         /\ Calm' <=> Calm
         /\ Heard' /\ Refused' /\ Afterwards'
<1>1. \A i \in Attempt : (Running(i))' => Running(i)
  BY FreeRequest DEF NoSend, Running
<1>2. \A i \in Attempt : (Live(i))' => Live(i)
  BY <1>1 DEF NoSend, Live
<1>3. Calm' <=> Calm
  BY DEF NoSend, Calm
<1>4. Heard'
  BY FreeRequest DEF NoSend, Heard
<1>5. \A d \in Copy : net[d].st # "free" => net[d].key \in Attempt
  BY ServerKey DEF Placed
<1>6. Refused'
  BY <1>2, <1>3, <1>5, FreeRequest DEF NoSend, Safe, Refused
<1>7. Afterwards'
  BY DEF NoSend, Safe, Afterwards, Ordered
<1> QED BY <1>1, <1>2, <1>3, <1>4, <1>6, <1>7

(* The one activity that is running goes on or ends. *)
LEMMA GoesOn ==
  ASSUME Placed, Safe, Single', NoSend, NEW a \in Activity, NEW p, NEW kd, NEW k \in 0..MaxAttempt, NEW w,
         At(a, p, kd, k, w), \A b \in Activity \ {a} : run[b] = Idle,
         p \in {"order", "kept", "wait", "readback"} => stored' = k,
         p \in {"prepare", "kept"} => k \in Attempt /\ intent[k] = "none" /\ ~Running(k),
         stored' = stored \/ NoLive,
         screen'.view = "ready" \/ p \in {"cart", "prepare", "kept"} => NoLive,
         p = "readback" /\ w \in Definitive /\ Calm => k \in Attempt /\ ~Live(k)
  PROVE  Safe'
<1> USE IdleOp
<1>1. \A b \in Activity \ {a} : run'[b] = Idle
  BY DEF At
<1>2. run'[a].pc = p /\ run'[a].key = k /\ run'[a].why = w
  BY DEF At
<1>3. Kept'
  BY <1>1, <1>2 DEF Kept
<1>4. Fresh'
  BY <1>1, <1>2, LiveNoSend DEF Fresh, NoSend
<1>5. StoredLive'
  BY LiveNoSend DEF StoredLive, Safe, NoLive
<1>6. Opening' => NoLive
  BY <1>1, <1>2 DEF Opening, Activity
<1>7. Ready'
  BY <1>6, LiveNoSend DEF Ready, NoLive
<1>8. RefusedRead'
  BY <1>1, <1>2, LiveNoSend DEF RefusedRead
<1> QED BY <1>3, <1>4, <1>5, <1>7, <1>8, LiveNoSend DEF Safe

(* The one activity that is running stops. *)
LEMMA Stops ==
  ASSUME Placed, Safe, Single', NoSend, NEW a \in Activity, Stopped(a),
         \A b \in Activity \ {a} : run[b] = Idle,
         stored' = stored \/ NoLive,
         screen'.view = "ready" => NoLive
  PROVE  Safe'
<1>1. 0 \in 0..MaxAttempt
  BY BoundsAssumption
<1> QED BY <1>1, GoesOn DEF Stopped

(* Activities are dropped or handed over. *)
LEMMA HandsOver ==
  ASSUME Placed, Safe, Single', NoSend, stored' = stored,
         screen'.view = "ready" => screen.view = "ready",
         run'["cur"] = run["cur"] \/ run'["cur"] = Idle,
         \A b \in Activity : run'[b] = Idle \/ \E a \in Activity : run'[b] = run[a]
  PROVE  Safe'
<1> USE IdleOp
<1>1. Kept'
  BY DEF Kept, Safe
<1>2. Fresh'
  BY LiveNoSend, RunKey DEF Fresh, Safe, NoSend, Placed
<1>3. StoredLive'
  BY LiveNoSend DEF StoredLive, Safe
<1>4. Opening' => Opening
  BY DEF Opening
<1>5. Ready'
  BY <1>4, LiveNoSend DEF Ready, NoLive, Safe
<1>6. RefusedRead'
  BY LiveNoSend, RunKey DEF RefusedRead, Safe, Placed
<1> QED BY <1>1, <1>2, <1>3, <1>5, <1>6, LiveNoSend DEF Safe

(* A stored attempt leaves the phone. *)
LEMMA Sends ==
  ASSUME Placed, Safe, Single', UNCHANGED <<orders, intent, overtaken>>, stored' = stored,
         NEW a \in Activity, run[a].pc \in {"order", "kept"},
         SentNet(a, run[a].key), At(a, "wait", run[a].kind, run[a].key, run[a].why),
         \A b \in Activity \ {a} : run[b] = Idle, screen'.view # "ready"
  PROVE  Safe'
<1> USE IdleOp
<1>1. PICK k \in Attempt : k = run[a].key
  BY RunKey DEF Placed
<1>2. stored = k
  BY <1>1 DEF Safe, Kept
<1>3. net \in [Copy -> Request]
  BY DEF Placed, Base, TypeOK
<1>4. \A c \in Copy : net[c].st # "answered"
  BY <1>3, RequestFields DEF Safe, Heard, Placed, Base, Listening
<1>5. PICK c \in Copy : /\ net[c] = Free
                        /\ net'[c].st = "sent" /\ net'[c].key = k
                        /\ net'[c].to = a /\ net'[c].why = "none"
                        /\ \A d \in Copy \ {c} : net'[d] = net[d]
  BY <1>1 DEF SentNet
<1>6. \A d \in Copy : net'[d].st # "answered"
  BY <1>4, <1>5
<1>7. Heard' /\ Refused'
  BY <1>6 DEF Heard, Refused
<1>8. \A b \in Activity \ {a} : run'[b] = Idle
  BY DEF At
<1>9. run'[a].pc = "wait" /\ run'[a].key = k
  BY <1>1 DEF At
<1>10. Fresh' /\ RefusedRead'
  BY <1>8, <1>9 DEF Fresh, RefusedRead
<1>11. Kept'
  BY <1>2, <1>8, <1>9 DEF Kept
<1>12. \A i \in Attempt : (Running(i))' => Running(i) \/ i = k
  BY <1>5 DEF Running
<1>13. StoredLive'
  BY <1>2, <1>12 DEF Safe, StoredLive, Calm, Live
<1>14. Ready'
  BY <1>8, <1>9 DEF Ready, Opening, Activity
<1>15. Afterwards'
  BY DEF Safe, Afterwards, Ordered
<1> QED BY <1>7, <1>10, <1>11, <1>13, <1>14, <1>15 DEF Safe

(* The phone and the shop keep layer 3. *)
LEMMA SafePhone ==
  ASSUME Placed, Safe, Single', Reopen = FALSE, Phone \/ ShopChanges \/ UNCHANGED vars
  PROVE  Safe'
<1>0. /\ run \in [Activity -> Op] /\ net \in [Copy -> Request] /\ stored \in 0..MaxAttempt
      /\ screen \in Screen /\ orders \subseteq [key : Attempt, total : Price]
      /\ confirmed \in [Attempt -> [total : Price \union {0}, ver : Nat, note : BOOLEAN]]
      /\ screen.view = "none" => run["cur"] = Idle
  BY DEF Placed, Base, TypeOK, Mounted
<1> USE IdleOp, FreeRequest
<1>a. NoScreen.view = "none" /\ NoScreen.ver = 0
  BY DEF NoScreen
<1>b. ASSUME NEW a \in Activity, run[a] # Idle PROVE \A b \in Activity \ {a} : run[b] = Idle
  BY <1>b DEF Safe, Single, Activity
<1>c. screen.view # "none" => run["old"] = Idle
  BY <1>a DEF Safe, Single
<1>d. UNCHANGED <<orders, intent, overtaken>> /\ UNCHANGED net => NoSend
  BY DEF NoSend, Safe, Heard
<1>e. UNCHANGED <<orders, intent, overtaken>> /\ LeftNet => NoSend
  BY <1>0 DEF NoSend, Safe, Heard, LeftNet
<1>f. ASSUME NEW S, UNCHANGED <<orders, intent, overtaken>>, DeafNet(S) PROVE NoSend
  BY <1>0, <1>f DEF NoSend, Safe, Heard, DeafNet
<1>g. ASSUME NEW c \in Copy, UNCHANGED <<orders, intent, overtaken>>, FreedNet(c) PROVE NoSend
  BY <1>g DEF NoSend, Safe, Heard, FreedNet
<1>h. orders # {} => NoLive
  BY DEF NoLive, Calm
<1>i. Phone => UNCHANGED <<orders, intent, overtaken>>
  BY PhoneFrame DEF Frame, Placed, Base
<1>j. 0 \in 0..MaxAttempt
  BY BoundsAssumption
<1>k. ASSUME NEW v, StartLoad(v), UNCHANGED net, Phone, stored' = stored \/ NoLive, v # "ready", run["old"] = Idle PROVE Safe'
  <2>1. At("cur", "read", "load", 0, "none") /\ screen'.view = v
    BY <1>0, <1>k, LoadEffect
  <2>2. NoSend
    BY <1>d, <1>i, <1>k
  <2>3. "cur" \in Activity /\ \A b \in Activity \ {"cur"} : run[b] = Idle
    BY <1>k DEF Activity
  <2> QED BY <1>j, <1>k, <2>1, <2>2, <2>3, GoesOn
<1>1. CASE Leave \/ SignOut
  <2>1. LeftRun /\ LeftNet /\ screen' = NoScreen
    BY <1>0, <1>1, LeftRunEffect, LeftNetEffect DEF Leave, SignOut
  <2>2. stored' = stored /\ NoSend
    BY <1>1, <1>e, <1>i, <2>1 DEF Leave, SignOut, Phone
  <2>3. \A b \in Activity : run'[b] = Idle \/ \E a \in Activity : run'[b] = run[a]
    BY <2>1 DEF LeftRun, Activity
  <2> QED BY <1>a, <2>1, <2>2, <2>3, HandsOver DEF LeftRun
<1>2. CASE Kill
  <2>1. KilledRun /\ DeafNet(Copy)
    BY <1>0, <1>2, KillEffect
  <2>2. screen' = NoScreen /\ stored' = stored /\ UNCHANGED <<orders, intent, overtaken>>
    BY <1>2 DEF Kill
  <2>3. NoSend
    BY <1>f, <2>1, <2>2
  <2> QED BY <1>a, <2>1, <2>2, <2>3, HandsOver DEF KilledRun, Activity
<1>3. CASE SignIn \/ refreshQuote \/ ShopChanges \/ UNCHANGED vars
  <2>1. UNCHANGED <<run, stored, net, orders, intent, overtaken>>
    BY <1>3 DEF SignIn, refreshQuote, ShopChanges, vars, phone
  <2>2. screen'.view = "ready" => screen.view = "ready"
    BY <1>3 DEF SignIn, refreshQuote, ShopChanges, vars, phone
  <2> QED BY <1>d, <2>1, <2>2, HandsOver
<1>4. CASE OpenScreen
  <2>1. run["old"] = Idle /\ StartLoad("loading") /\ UNCHANGED <<net, stored>>
    BY <1>4 DEF OpenScreen, Quiet
  <2> QED BY <1>4, <1>k, <2>1 DEF Phone
<1>5. CASE Verify
  <2>1. run["old"] = Idle /\ UNCHANGED <<net, stored>> /\ \E v : v # "ready" /\ StartLoad(v)
    BY <1>5, <1>c DEF Verify
  <2> QED BY <1>5, <1>k, <2>1 DEF Phone
<1>6. CASE updateLine
  <2>1. run["old"] = Idle /\ UNCHANGED <<net, stored>> /\ screen.view = "ready"
        /\ (StartLoad("loading") \/ UNCHANGED run)
    BY <1>6, <1>c DEF updateLine
  <2>2. CASE UNCHANGED run
    BY <1>d, <1>i, <1>6, <2>1, <2>2, HandsOver DEF Phone
  <2> QED BY <1>6, <1>k, <2>1, <2>2 DEF Phone
<1>7. CASE Confirm
  <2>1. run["old"] = Idle /\ UNCHANGED <<net, stored, screen>> /\ screen.view = "ready"
    BY <1>7, <1>c DEF Confirm
  <2>2. PICK k \in Attempt : confirmed[k].ver = 0 /\ At("cur", "prepare", "checkout", k, "none")
    BY <1>0, <1>7, ConfirmEffect
  <2>3. intent[k] = "none" /\ ~Running(k)
    BY <2>2 DEF Placed, Used, Traced
  <2>4. NoLive /\ NoSend
    BY <1>7, <1>d, <1>i, <2>1 DEF Safe, Ready, Opening, Phone
  <2>5. "cur" \in Activity /\ (\A b \in Activity \ {"cur"} : run[b] = Idle) /\ k \in 0..MaxAttempt
    BY <2>1, BoundsAssumption DEF Activity, Attempt
  <2> QED BY <2>1, <2>2, <2>3, <2>4, <2>5, GoesOn
<1>8. CASE LoadRead
  <2> DEFINE p == IF stored # 0 THEN "order" ELSE "cart"
  <2>1. At("cur", p, run["cur"].kind, stored, run["cur"].why)
    BY <1>0, <1>8, LoadReadEffect
  <2>2. UNCHANGED <<net, stored>> /\ run["cur"] # Idle /\ "cur" \in Activity /\
                    screen'.view # "ready"
    BY <1>0, <1>8 DEF LoadRead, Activity, Screen
  <2>3. stored = 0 => NoLive
    BY DEF Safe, StoredLive, NoLive, Attempt
  <2>4. p \in {"order", "cart"} /\ (p = "cart" => stored = 0)
    OBVIOUS
  <2>5. NoSend
    BY <1>8, <1>d, <1>i, <2>2 DEF Phone
  <2> HIDE DEF p
  <2>6. \A b \in Activity \ {"cur"} : run[b] = Idle
    BY <1>b, <2>2
  <2> QED BY <1>0, <2>1, <2>2, <2>3, <2>4, <2>5, <2>6, GoesOn
<1>9. CASE LoadOrder
  <2>1. run["cur"].pc = "order" /\ "cur" \in Activity /\ screen'.view # "ready"
    BY <1>0, <1>9 DEF LoadOrder, Activity, finishCheckout, Resend, checkoutCart, Show, Screen
  <2>2. \A b \in Activity \ {"cur"} : run[b] = Idle
    BY <1>b, <2>1
  <2>3. CASE orders # {} /\ Stopped("cur") /\ UNCHANGED net /\ stored' \in {0, stored}
    BY <1>9, <1>d, <1>h, <1>i, <2>1, <2>2, <2>3, Stops DEF Phone
  <2>4. CASE /\ SentNet("cur", run["cur"].key)
             /\ At("cur", "wait", run["cur"].kind, run["cur"].key, run["cur"].why)
             /\ UNCHANGED stored
    BY <1>9, <1>i, <2>1, <2>2, <2>4, Sends DEF Phone
  <2> QED BY <1>0, <1>9, <2>3, <2>4, LoadOrderEffect
<1>10. CASE readOpenCart
  <2>1. UNCHANGED <<net, stored>> /\ run["cur"].pc = "cart" /\ "cur" \in Activity
    BY <1>10 DEF readOpenCart, Activity
  <2>2. NoLive
    BY <2>1 DEF Safe, Ready, Opening
  <2>3. \A b \in Activity \ {"cur"} : run[b] = Idle
    BY <1>b, <2>1
  <2> QED BY <1>0, <1>10, <1>d, <1>i, <2>1, <2>2, <2>3, Stops, readOpenCartEffect DEF Phone
<1>11. ASSUME NEW a \in Activity, Keep(a) PROVE Safe'
  <2>1. UNCHANGED <<net, screen>> /\ run[a].pc = "prepare"
    BY <1>11 DEF Keep, Stop
  <2>2. NoLive
    BY <2>1 DEF Safe, Ready, Opening
  <2>3. run[a].key \in Attempt /\ intent[run[a].key] = "none" /\ ~Running(run[a].key)
    BY <2>1, RunKey DEF Safe, Fresh, Placed
  <2>4. NoSend /\ (\A b \in Activity \ {a} : run[b] = Idle) /\ run[a].key \in 0..MaxAttempt
    BY <1>0, <1>11, <1>b, <1>d, <1>i, <2>1, OpFields DEF Phone
  <2>5. CASE Stopped(a)
    BY <2>2, <2>4, <2>5, Stops
  <2>6. CASE At(a, "kept", run[a].kind, run[a].key, run[a].why) /\ stored' = run[a].key
    BY <2>2, <2>3, <2>4, <2>6, GoesOn
  <2> QED BY <1>0, <1>11, <2>5, <2>6, KeepEffect
<1>12. ASSUME NEW a \in Activity, Send(a) PROVE Safe'
  <2>1. run[a].pc = "kept" /\ (UNCHANGED screen \/ Show(a, "pending"))
    BY <1>12 DEF Send, checkoutCart, Stop
  <2>2. NoLive
    BY <2>1 DEF Safe, Ready, Opening
  <2>3. \A b \in Activity \ {a} : run[b] = Idle
    BY <1>b, <2>1
  <2>4. CASE ~owner /\ Stopped(a) /\ UNCHANGED net /\ stored' \in {0, stored}
    BY <1>12, <1>d, <1>i, <2>2, <2>3, <2>4, Stops DEF Phone
  <2>5. CASE /\ SentNet(a, run[a].key)
             /\ At(a, "wait", run[a].kind, run[a].key, run[a].why)
             /\ UNCHANGED stored
    <3>1. Show(a, "pending")
      <4>1. Stop(a) => run'[a] = Idle
        BY <1>0 DEF Stop
      <4>2. run'[a].pc = "wait"
        BY <2>5 DEF At
      <4> QED BY <1>12, <4>1, <4>2 DEF Send, checkoutCart
    <3>2. screen'.view # "ready"
      <4>1. CASE a = "cur"
        BY <1>0, <3>1, <4>1 DEF Show, Screen
      <4>2. CASE a = "old"
        BY <1>a, <2>1, <3>1, <4>2 DEF Show, Safe, Single
      <4> QED BY <4>1, <4>2 DEF Activity
    <3> QED BY <1>12, <1>i, <2>1, <2>3, <2>5, <3>2, Sends DEF Phone
  <2> QED BY <1>0, <1>12, <2>4, <2>5, SendingEffect
<1>13. ASSUME NEW a \in Activity, GiveUp(a) PROVE Safe'
  <2>1. UNCHANGED <<stored, screen>> /\ run[a].pc = "wait"
    BY <1>13 DEF GiveUp
  <2>2. DeafNet(To(a)) /\ At(a, "readback", run[a].kind, run[a].key, "lost")
    BY <1>0, <1>13, GiveUpEffect
  <2>3. NoSend /\ (\A b \in Activity \ {a} : run[b] = Idle) /\ run[a].key \in 0..MaxAttempt
    BY <1>0, <1>13, <1>b, <1>f, <1>i, <2>1, <2>2, OpFields DEF Phone
  <2>4. stored' = run[a].key /\ "lost" \notin Definitive
    BY <2>1 DEF Safe, Kept, Definitive
  <2>5. screen'.view = "ready" => NoLive
    BY <2>1 DEF Safe, Ready, Opening
  <2> QED BY <2>1, <2>2, <2>3, <2>4, <2>5, GoesOn
<1>14. ASSUME NEW a \in Activity, NEW c \in Copy, Receive(a, c) PROVE Safe'
  <2>1. /\ FreedNet(c) /\ net[c].to = a /\ net[c].st = "answered" /\ run[a].pc = "wait"
        /\ \/ Stopped(a) /\ UNCHANGED stored
           \/ Stopped(a) /\ net[c].why = "order" /\ stored' \in {0, stored}
           \/ /\ At(a, "readback", run[a].kind, run[a].key, net[c].why)
              /\ net[c].why # "order" /\ UNCHANGED stored
    BY <1>0, <1>14, ReceiveEffect
  <2>2. screen' = screen \/ Show(a, "done")
    BY <1>14 DEF Receive, Stop, finishCheckout
  <2>3. screen'.view = "ready" => NoLive
    BY <1>0, <2>2 DEF Show, Screen, Safe, Ready, Opening
  <2>4. NoSend /\ (\A b \in Activity \ {a} : run[b] = Idle) /\ run[a].key \in 0..MaxAttempt
    BY <1>0, <1>14, <1>b, <1>g, <1>i, <2>1, OpFields DEF Phone
  <2>5. net[c].why = "order" => NoLive
    BY <1>h, <2>1 DEF Safe, Refused
  <2>6. run[a].key \in Attempt /\ run[a].key = net[c].key /\ stored = run[a].key
    BY <2>1, RunKey DEF Placed, Base, Listening, Safe, Kept
  <2>7. Calm /\ net[c].why \in Definitive => ~Live(run[a].key)
    BY <2>1, <2>6 DEF Safe, Refused
  <2>8. CASE Stopped(a) /\ (stored' = stored \/ NoLive)
    BY <2>3, <2>4, <2>8, Stops
  <2>9. CASE At(a, "readback", run[a].kind, run[a].key, net[c].why) /\ UNCHANGED stored
    BY <2>3, <2>4, <2>6, <2>7, <2>9, GoesOn
  <2> QED BY <2>1, <2>5, <2>8, <2>9
<1>15. ASSUME NEW a \in Activity, Readback(a) PROVE Safe'
  <2>1. UNCHANGED net /\ run[a].pc = "readback"
    BY <1>15 DEF Readback
  <2>2. NoSend /\ (\A b \in Activity \ {a} : run[b] = Idle)
    BY <1>15, <1>b, <1>d, <1>i, <2>1 DEF Phone
  <2>3. run[a].key \in Attempt /\ stored = run[a].key
    BY <2>1, RunKey DEF Placed, Safe, Kept
  <2>4. Rejects(run[a].why) => NoLive
    BY <2>1, <2>3 DEF Rejects, NoLive, Safe, StoredLive, RefusedRead
  <2>5. /\ stored' = stored \/ NoLive
        /\ \/ screen' = screen \/ Show(a, "done") \/ Show(a, "pending")
           \/ NoLive
    BY <1>15, <1>h, <2>4 DEF Readback, Stop, finishCheckout
  <2>6. screen'.view = "ready" => NoLive
    BY <1>0, <2>5 DEF Show, Screen, Safe, Ready, Opening
  <2>7. CASE Stopped(a)
    BY <2>2, <2>5, <2>6, <2>7, Stops
  <2>8. CASE a = "cur" /\ At("cur", "read", "load", 0, "none")
    BY <1>j, <2>2, <2>5, <2>6, <2>8, GoesOn
  <2> QED BY <1>0, <1>15, <2>7, <2>8, ReadbackEffect
<1> QED BY <1>1, <1>2, <1>3, <1>4, <1>5, <1>6, <1>7, <1>8, <1>9, <1>10, <1>11, <1>12,
           <1>13, <1>14, <1>15 DEF Phone

(* The initial state, layer 3. *)
LEMMA SafeInit == Init => Safe
<1> SUFFICES ASSUME Init PROVE Safe
  OBVIOUS
<1> USE IdleOp, FreeRequest DEF Init
<1>1. \A k \in Attempt : ~Live(k)
  BY DEF Live, Running
<1>2. Heard /\ Single /\ Fresh /\ Kept /\ RefusedRead
  <2>1. \A a \in Activity : run[a] = Idle
    OBVIOUS
  <2>2. \A c \in Copy : net[c] = Free
    OBVIOUS
  <2>3. Heard /\ Fresh /\ Kept /\ RefusedRead
    BY ONLY <2>1, <2>2, IdleOp, FreeRequest DEF Heard, Fresh, Kept, RefusedRead
  <2> QED BY <2>1, <2>3 DEF Single, Activity
<1>3. Refused
  BY DEF Refused
<1>4. StoredLive /\ Ready /\ Afterwards
  BY <1>1 DEF StoredLive, Ready, NoLive, Afterwards
<1> QED BY <1>2, <1>3, <1>4 DEF Safe

(* Layer 3 is inductive above layers 1 and 2. *)
LEMMA SafeStep == Placed /\ Safe /\ Reopen = FALSE /\ [Next]_vars => Safe'
<1> SUFFICES ASSUME Placed, Safe, Reopen = FALSE, [Next]_vars PROVE Safe'
  OBVIOUS
<1>1. Single'
  BY SingleStep DEF Placed, Safe
<1>2. CASE Phone \/ ShopChanges \/ UNCHANGED vars
  BY <1>1, <1>2, SafePhone
<1>3. ASSUME NEW c \in Copy, ServerAt(c) PROVE Safe'
  BY <1>1, <1>3, SafeServer
<1> QED BY <1>2, <1>3 DEF Next, Server, ServerAt

(* A payment intent without an order belongs to the attempt stored on the  *)
(* phone, which sends it again: for every client who does not open the     *)
(* cart over a checkout that is still running.                             *)
THEOREM AttemptAccounted == ASSUME Reopen = FALSE PROVE Spec => []IntentAccounted
<1>1. Init => Placed /\ Safe
  BY PlacedInit, SafeInit
<1>2. Placed /\ Safe /\ [Next]_vars => (Placed /\ Safe)'
  BY PlacedStep, SafeStep
<1>3. Placed /\ Safe => IntentAccounted
  <2> SUFFICES ASSUME Placed, Safe PROVE IntentAccounted
    OBVIOUS
  <2>1. CASE orders = {}
    BY <2>1 DEF Safe, StoredLive, Calm, Live, IntentAccounted
  <2>2. CASE orders # {}
    BY <2>2 DEF Safe, Afterwards, IntentAccounted
  <2> QED BY <2>1, <2>2
<1> QED BY <1>1, <1>2, <1>3, PTL DEF Spec
=============================================================================
