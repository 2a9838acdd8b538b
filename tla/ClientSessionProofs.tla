----------------------- MODULE ClientSessionProofs -----------------------
(***************************************************************************)
(* Theorems about ClientSession, for any number of sessions, callers,      *)
(* rotations, request ids and faults:                                      *)
(*   1. types, one lemma per action;                                       *)
(*   2. a logout of the browser is final;                                  *)
(*   3. a session nobody asked to end can be reached again by its device,  *)
(*      and is not taken for stolen.  The invariant KeptInv relates the    *)
(*      row of the session to what the device stores, to what is shown     *)
(*      and to every operation under way.  Frame lemmas say what each part *)
(*      of it reads; then comes one lemma per action, grouped by operation *)
(*      of the manager; then what a step can do to the row of a session;   *)
(*      and last the theorems;                                             *)
(*   4. a logout comes to its end: it, or what it waits for, can always    *)
(*      take a step, and every step leaves less to do.                     *)
(***************************************************************************)
EXTENDS ClientSession, TLAPS

----------------------------------------------------------------------------
(* Types. *)

(* The places an operation of the manager can be at. *)
PC == {"idle", "start", "prepare", "sent", "keep1", "keep2", "read", "session", "recheck",
             "pending", "keep", "join", "await", "browser", "wait", "end", "renew", "end2"}

(* The constants of the model are values of the types they are used at. *)
LEMMA Basic ==
  /\ NoToken \in MaybeToken /\ Empty \in Stored /\ Idle \in Op
  /\ Idle.pc = "idle" /\ 0 \in ReqId /\ CookieId \in ReqId
  /\ \A i \in 1..MaxReq : i \in ReqId
  /\ NoToken.s = NoSession /\ NoToken.g = 0
<1>1. 0 \in 0..MaxGen
  BY BoundsAssumption
<1>2. 0 \in ReqId /\ CookieId \in ReqId /\ \A i \in 1..MaxReq : i \in ReqId
  BY BoundsAssumption DEF ReqId, CookieId
<1>3. NoToken \in MaybeToken /\ NoToken.s = NoSession /\ NoToken.g = 0
  BY DEF MaybeToken, NoToken
<1>4. Empty \in Stored
  BY <1>2, <1>3 DEF Empty, Plain, Stored
<1> QED BY <1>1, <1>2, <1>3, <1>4 DEF Idle, Op, Answer

(* A token is of a session and a generation; NoToken is of neither. *)
LEMMA Tokens ==
  ASSUME NEW t \in MaybeToken
  PROVE  /\ t.g \in 0..MaxGen /\ t.s \in Session \union {NoSession}
         /\ t # NoToken <=> t \in Token
         /\ t # NoToken <=> t.s \in Session
         /\ t # NoToken => t = [s |-> t.s, g |-> t.g]
  BY Basic, BoundsAssumption DEF MaybeToken, Token, NoToken

(* What the device stores, field by field (records are opened once, here). *)
LEMMA StoredFields ==
  /\ \A t \in MaybeToken : Plain(t) \in Stored /\ Plain(t).t = t /\ Plain(t).prev = NoToken /\ Plain(t).req = 0
  /\ \A t \in MaybeToken, p \in MaybeToken, r \in ReqId :
        Pending(t, p, r) \in Stored /\ Pending(t, p, r).t = t /\ Pending(t, p, r).prev = p /\ Pending(t, p, r).req = r
  /\ \A x \in Stored : x.t \in MaybeToken /\ x.prev \in MaybeToken /\ x.req \in ReqId
  BY Basic DEF Stored, Plain, Pending

(* The fields of an operation. *)
LEMMA OpFields ==
  ASSUME NEW r \in Op
  PROVE  /\ r.pc \in PC /\ r.t \in MaybeToken /\ r.req \in ReqId
         /\ r.ans \in Answer /\ r.got \in MaybeToken /\ r.snap \in Stored
  BY DEF Op, PC

(* The fields of an operation that is not under way. *)
LEMMA IdleFields ==
  /\ Idle \in Op /\ Idle.pc = "idle" /\ Idle.t = NoToken /\ Idle.req = 0 /\ Idle.ans = "none"
  /\ Idle.got = NoToken /\ Idle.snap = Empty
  BY Basic DEF Idle

(* The answers and the states the actions name are among those declared. *)
LEMMA Names ==
  /\ {"none", "ok", "unauthenticated", "stale", "network"} \subseteq Answer
  /\ SignedOut \subseteq State /\ {"restoring", "authenticated", "degraded"} \subseteq State
  /\ {"no_local_session", "terminal_invalidated", "local_proof_invalid", "explicit_logout", "recovery"} \subseteq SignedOut
  BY DEF Answer, State, SignedOut

(* The fields of the row Identity keeps for a session. *)
LEMMA RowFields ==
  ASSUME NEW r \in Row
  PROVE  /\ r.st \in {"none", "live", "revoked", "compromised"} /\ r.gen \in 0..MaxGen
         /\ r.by \in ReqId /\ r.age \in [0..MaxGen -> Age] /\ r.exp \in [0..MaxGen -> Expiry]
  BY DEF Row

(* A row with one field changed is a row. *)
LEMMA RowSet ==
  ASSUME NEW r \in Row
  PROVE  /\ \A x \in {"none", "live", "revoked", "compromised"} : [r EXCEPT !.st = x] \in Row
         /\ \A g \in 0..MaxGen, a \in Age : [r EXCEPT !.age[g] = a] \in Row
         /\ \A g \in 0..MaxGen, e \in Expiry : [r EXCEPT !.exp[g] = e] \in Row
<1>1. \A x \in {"none", "live", "revoked", "compromised"} : [r EXCEPT !.st = x] \in Row
  BY DEF Row
<1>2. ASSUME NEW g \in 0..MaxGen, NEW a \in Age PROVE [r EXCEPT !.age[g] = a] \in Row
  BY DEF Row
<1>3. ASSUME NEW g \in 0..MaxGen, NEW e \in Expiry PROVE [r EXCEPT !.exp[g] = e] \in Row
  BY DEF Row
<1> QED BY <1>1, <1>2, <1>3

(* The row of a login, and the row of a session nobody has opened, are rows. *)
LEMMA NewRowType == NewRow \in Row /\ [NewRow EXCEPT !.st = "none"] \in Row
<1>1. 0 \in 0..MaxGen /\ 0 \in ReqId
  BY Basic, BoundsAssumption
<1>2. [g \in 0..MaxGen |-> "fresh"] \in [0..MaxGen -> Age]
  BY DEF Age
<1>3. [g \in 0..MaxGen |-> "good"] \in [0..MaxGen -> Expiry]
  BY DEF Expiry
<1>4. NewRow \in Row
  BY <1>1, <1>2, <1>3 DEF NewRow, Row
<1> QED BY <1>4, RowSet

(* Identity always answers a refresh. *)
LEMMA AnswerType ==
  ASSUME NEW t, NEW id PROVE RefreshAnswer(t, id) \in Answer \ {"none"}
  BY DEF RefreshAnswer, Answer

(* A refresh that is granted gives the next generation of the token it was
   owned with; any other gives nothing. *)
LEMMA RenewedType ==
  ASSUME srv \in [Session -> Row], NEW t \in MaybeToken, NEW id \in ReqId, Bounded(t)
  PROVE  /\ Renewed(t, id) \in MaybeToken
         /\ RefreshAnswer(t, id) = "ok" => /\ t # NoToken /\ Renewed(t, id) = [s |-> t.s, g |-> t.g + 1]
                                           /\ Renewed(t, id) \in Token
         /\ RefreshAnswer(t, id) # "ok" => Renewed(t, id) = NoToken
<1>1. CASE RefreshAnswer(t, id) = "ok"
  <2>1. CanRotate(t) \/ CanReplay(t, id)
    BY <1>1 DEF RefreshAnswer
  <2>2. t # NoToken /\ t.s \in Session /\ t = [s |-> t.s, g |-> t.g] /\ t.g \in 0..MaxGen
    BY <2>1, Tokens DEF CanRotate, CanReplay
  <2>3. srv[t.s].gen \in 0..MaxGen
    BY <2>2, RowFields
  <2>4. t.g + 1 \in 0..MaxGen
    BY <2>1, <2>2, <2>3, BoundsAssumption DEF CanRotate, CanReplay, Bounded
  <2>5. Renewed(t, id) = [t EXCEPT !.g = t.g + 1]
    BY <1>1 DEF Renewed
  <2>6. [t EXCEPT !.g = t.g + 1] = [s |-> t.s, g |-> t.g + 1]
    BY <2>2
  <2> QED BY <1>1, <2>2, <2>4, <2>5, <2>6 DEF MaybeToken, Token
<1>2. CASE RefreshAnswer(t, id) # "ok"
  BY <1>2, Basic DEF Renewed
<1> QED BY <1>1, <1>2

(* Serving a refresh leaves rows rows. *)
LEMMA RefreshedType ==
  ASSUME srv \in [Session -> Row], NEW t \in MaybeToken, NEW id \in ReqId, Bounded(t)
  PROVE  Refreshed(t, id) \in [Session -> Row]
<1>1. CASE CanRotate(t)
  <2>1. t # NoToken /\ t.s \in Session /\ t.g \in 0..MaxGen /\ t.g < MaxGen
    BY <1>1, Tokens DEF CanRotate, Bounded
  <2>2. t.g + 1 \in 0..MaxGen
    BY <2>1, BoundsAssumption
  <2> DEFINE r == srv[t.s]
             q == [r EXCEPT !.gen = t.g + 1, !.by = id, !.age[t.g] = "fresh", !.exp[t.g + 1] = "good"]
  <2>3. r \in Row
    BY <2>1
  <2>4. q \in Row
    BY <2>1, <2>2, <2>3 DEF Row, Age, Expiry
  <2>5. Refreshed(t, id) = [srv EXCEPT ![t.s] = q]
    BY <1>1 DEF Refreshed
  <2> HIDE DEF q
  <2> QED BY <2>1, <2>4, <2>5
<1>2. CASE ~CanRotate(t) /\ IsReuse(t, id)
  <2>1. t.s \in Session
    BY <1>2, Tokens DEF IsReuse
  <2>2. Refreshed(t, id) = [srv EXCEPT ![t.s] = [srv[t.s] EXCEPT !.st = "compromised"]]
    BY <1>2 DEF Refreshed
  <2>3. [srv[t.s] EXCEPT !.st = "compromised"] \in Row
    BY <2>1, RowSet
  <2> QED BY <2>1, <2>2, <2>3
<1>3. CASE ~CanRotate(t) /\ ~IsReuse(t, id)
  BY <1>3 DEF Refreshed
<1> QED BY <1>1, <1>2, <1>3

(* Serving a logout leaves rows rows. *)
LEMMA LoggedOutType ==
  ASSUME srv \in [Session -> Row], NEW t \in MaybeToken
  PROVE  LoggedOut(t) \in [Session -> Row]
<1>1. CASE t # NoToken /\ srv[t.s].st = "live" /\ srv[t.s].gen = t.g
  <2>1. t.s \in Session
    BY <1>1, Tokens
  <2>2. [srv[t.s] EXCEPT !.st = "revoked"] \in Row
    BY <2>1, RowSet
  <2> QED BY <1>1, <2>1, <2>2 DEF LoggedOut
<1>2. CASE ~(t # NoToken /\ srv[t.s].st = "live" /\ srv[t.s].gen = t.g)
  BY <1>2 DEF LoggedOut
<1> QED BY <1>1, <1>2

(* A new request id is one of those the bound allows, and is never the id of
   no request. *)
LEMMA NewIdType == NewId \subseteq ReqId /\ \A i \in NewId : i # 0
  BY Basic, BoundsAssumption DEF NewId

(* A fault is only taken while the bound allows it. *)
LEMMA FaultType == faults \in 0..MaxFaults /\ Fault => faults' \in 0..MaxFaults
  BY BoundsAssumption DEF Fault

(* A refresh begins as an operation. *)
LEMMA StartRefreshType ==
  ASSUME refresh \in Op, NEW t \in MaybeToken, NEW id \in ReqId, StartRefresh(t, id)
  PROVE  refresh' \in Op
  BY IdleFields DEF StartRefresh, Op

(* An answer leaves a token or nothing in the cookie jar. *)
LEMMA CookieAfterType ==
  ASSUME cookie \in MaybeToken, NEW got \in MaybeToken, NEW ans
  PROVE  CookieAfter(ans, got) \in MaybeToken
  BY Basic DEF CookieAfter

(* The fields of what is under way. *)
LEMMA Fields ==
  ASSUME TypeOK
  PROVE  /\ refresh.t \in MaybeToken /\ refresh.req \in ReqId /\ refresh.got \in MaybeToken /\ refresh.snap \in Stored
         /\ refresh.snap.t \in MaybeToken
         /\ restore.snap \in Stored /\ restore.got \in MaybeToken
         /\ restore.snap.t \in MaybeToken /\ restore.snap.prev \in MaybeToken /\ restore.snap.req \in ReqId
         /\ logout.t \in MaybeToken /\ logout.req \in ReqId /\ logout.got \in MaybeToken /\ logout.snap \in Stored
         /\ logout.snap.prev \in MaybeToken /\ logout.snap.req \in ReqId
         /\ adopt.t \in MaybeToken /\ store.t \in MaybeToken
         /\ \A c \in Caller : /\ caller[c].snap \in Stored
                             /\ caller[c].snap.t \in MaybeToken
<1>1. refresh \in Op /\ restore \in Op /\ logout \in Op /\ adopt \in Op /\ store \in Stored
      /\ \A c \in Caller : caller[c] \in Op
  BY DEF TypeOK
<1> QED BY <1>1, OpFields, StoredFields

(* Types: one lemma per action. performRefresh. *)
LEMMA TypesPrepareRefresh == ASSUME TypeOK, PrepareRefresh PROVE TypeOK'
<1>1. refresh' \in Op
  BY Fields, IdleFields, NewIdType DEF TypeOK, PrepareRefresh, Op
<1>2. store' \in Stored
  <2>1. \A id \in NewId : Pending(refresh.t, refresh.t, id) \in Stored
    BY Fields, StoredFields, NewIdType
  <2> QED BY <2>1, Basic DEF TypeOK, PrepareRefresh, Degrade
<1>3. tokens' \in MaybeToken /\ state' \in State /\ ident' \in MaybeToken
  BY Names, Basic DEF TypeOK, PrepareRefresh, Degrade, memory
<1>4. faults' \in 0..MaxFaults
  BY FaultType DEF TypeOK, PrepareRefresh
<1>5. UNCHANGED <<web, srv, cookie, restore, logout, adopt, caller, owned, taken>>
  BY DEF PrepareRefresh, server, memory, Others, Restoring, Ending, count
<1> QED BY <1>1, <1>2, <1>3, <1>4, <1>5 DEF TypeOK

(* Types: SendRefresh. *)
LEMMA TypesSendRefresh == ASSUME TypeOK, SendRefresh PROVE TypeOK'
<1>1. refresh' \in Op
  BY Fields, IdleFields DEF TypeOK, SendRefresh, Op
<1>2. store' \in Stored
  BY StoredFields, Fields, Basic DEF TypeOK, SendRefresh, Degrade
<1>3. tokens' \in MaybeToken /\ state' \in State /\ ident' \in MaybeToken
  BY Names, Basic DEF TypeOK, SendRefresh, Degrade, memory
<1>4. UNCHANGED <<web, srv, cookie, restore, logout, adopt, caller, faults, owned, taken>>
  BY DEF SendRefresh, server, memory, Others, Restoring, Ending, count
<1> QED BY <1>1, <1>2, <1>3, <1>4 DEF TypeOK

(* Types: LoseRefresh. *)
LEMMA TypesLoseRefresh == ASSUME TypeOK, LoseRefresh PROVE TypeOK'
<1>1. refresh' \in Op
  BY Fields, IdleFields, Basic DEF TypeOK, LoseRefresh, Op, Answer
<1>2. UNCHANGED <<web, srv, cookie, store, tokens, state, ident, restore, logout, adopt, caller, faults, owned, taken>>
  BY DEF LoseRefresh, server, memory, Others, Restoring, Ending, count
<1> QED BY <1>1, <1>2 DEF TypeOK

(* Types: AnswerRefresh. *)
LEMMA TypesAnswerRefresh == ASSUME TypeOK, AnswerRefresh PROVE TypeOK'
<1>1. refresh' \in Op
  BY Fields, IdleFields DEF TypeOK, AnswerRefresh, Op
<1>2. cookie' \in MaybeToken
  BY Fields, CookieAfterType DEF TypeOK, AnswerRefresh
<1>3. store' \in Stored
  <2>1. Pending(refresh.got, refresh.t, refresh.req) \in Stored
    BY Fields, StoredFields
  <2> QED BY <2>1, Basic DEF TypeOK, AnswerRefresh, Degrade, SignOut
<1>4. tokens' \in MaybeToken /\ state' \in State /\ ident' \in MaybeToken
  BY Names, Basic, Fields DEF TypeOK, AnswerRefresh, Degrade, SignOut, memory
<1>5. faults' \in 0..MaxFaults
  BY FaultType DEF TypeOK, AnswerRefresh
<1>6. UNCHANGED <<web, srv, restore, logout, adopt, caller, owned, taken>>
  BY DEF AnswerRefresh, server, memory, Others, Restoring, Ending, count
<1> QED BY <1>1, <1>2, <1>3, <1>4, <1>5, <1>6 DEF TypeOK

(* Types: KeepRefreshed. *)
LEMMA TypesKeepRefreshed == ASSUME TypeOK, KeepRefreshed PROVE TypeOK'
<1>1. refresh' \in Op
  BY Fields, IdleFields DEF TypeOK, KeepRefreshed, Op
<1>2. store' \in Stored
  <2>1. Plain(refresh.got) \in Stored
    BY Fields, StoredFields
  <2> QED BY <2>1, Basic DEF TypeOK, KeepRefreshed, Degrade
<1>3. tokens' \in MaybeToken /\ state' \in State /\ ident' \in MaybeToken
  BY Names, Basic, Fields DEF TypeOK, KeepRefreshed, Degrade, memory
<1>4. faults' \in 0..MaxFaults
  BY FaultType DEF TypeOK, KeepRefreshed
<1>5. UNCHANGED <<web, srv, cookie, restore, logout, adopt, caller, owned, taken>>
  BY DEF KeepRefreshed, server, memory, Others, Restoring, Ending, count
<1> QED BY <1>1, <1>2, <1>3, <1>4, <1>5 DEF TypeOK

(* Types: AdoptRefreshed. *)
LEMMA TypesAdoptRefreshed == ASSUME TypeOK, AdoptRefreshed PROVE TypeOK'
<1>1. refresh' \in Op
  BY Fields, IdleFields DEF TypeOK, AdoptRefreshed, Op
<1>2. store' \in Stored
  BY StoredFields, Fields, Basic DEF TypeOK, AdoptRefreshed, Degrade
<1>3. tokens' \in MaybeToken /\ state' \in State /\ ident' \in MaybeToken
  BY Names, Basic, Fields DEF TypeOK, AdoptRefreshed, Degrade, Authenticate
<1>4. UNCHANGED <<web, srv, cookie, restore, logout, adopt, caller, faults, owned, taken>>
  BY DEF AdoptRefreshed, server, memory, Others, Restoring, Ending, count
<1> QED BY <1>1, <1>2, <1>3, <1>4 DEF TypeOK

(* Types: RecheckConflict. *)
LEMMA TypesRecheckConflict == ASSUME TypeOK, RecheckConflict PROVE TypeOK'
<1>1. refresh' \in Op
  BY Fields, IdleFields DEF TypeOK, RecheckConflict, Op, Answer
<1>2. store' \in Stored
  BY StoredFields, Fields, Basic DEF TypeOK, RecheckConflict, Degrade
<1>3. tokens' \in MaybeToken /\ state' \in State /\ ident' \in MaybeToken
  BY Names, Basic, Fields DEF TypeOK, RecheckConflict, Degrade, memory
<1>4. UNCHANGED <<web, srv, cookie, restore, logout, adopt, caller, faults, owned, taken>>
  BY DEF RecheckConflict, server, memory, Others, Restoring, Ending, count
<1> QED BY <1>1, <1>2, <1>3, <1>4 DEF TypeOK

(* Types: AskConflict. *)
LEMMA TypesAskConflict == ASSUME TypeOK, AskConflict PROVE TypeOK'
<1>1. refresh' \in Op
  BY Fields, IdleFields DEF TypeOK, AskConflict, Op, Answer, SessionAnswer
<1>2. UNCHANGED <<web, srv, cookie, store, tokens, state, ident, restore, logout, adopt, caller, faults, owned, taken>>
  BY DEF AskConflict, server, memory, Others, Restoring, Ending, count
<1> QED BY <1>1, <1>2 DEF TypeOK

(* Types: EndConflict. *)
LEMMA TypesEndConflict == ASSUME TypeOK, EndConflict PROVE TypeOK'
<1>1. refresh' \in Op
  BY Fields, IdleFields DEF TypeOK, EndConflict, Op
<1>2. store' \in Stored
  <2>1. Plain(refresh.snap.t) \in Stored
    BY Fields, StoredFields
  <2> QED BY <2>1, Basic DEF TypeOK, EndConflict, Degrade
<1>3. tokens' \in MaybeToken /\ state' \in State /\ ident' \in MaybeToken
  BY Names, Basic, Fields DEF TypeOK, EndConflict, Degrade, Authenticate, memory
<1>4. faults' \in 0..MaxFaults
  BY FaultType DEF TypeOK, EndConflict
<1>5. UNCHANGED <<web, srv, cookie, restore, logout, adopt, caller, owned, taken>>
  BY DEF EndConflict, server, memory, Others, Restoring, Ending, count
<1> QED BY <1>1, <1>2, <1>3, <1>4, <1>5 DEF TypeOK

(* Types: restore. *)
LEMMA TypesStartRestore == ASSUME TypeOK, StartRestore PROVE TypeOK'
<1>1. restore' \in Op
  BY Fields, IdleFields DEF TypeOK, StartRestore, Op, Starting
<1>2. state' \in State /\ ident' \in MaybeToken
  BY Names, Basic DEF TypeOK, StartRestore
<1>3. taken' \in BOOLEAN
  BY DEF TypeOK, StartRestore
<1>4. UNCHANGED <<web, srv, cookie, store, tokens, refresh, logout, adopt, caller, faults, owned>>
  BY DEF StartRestore, server, memory, Others, Restoring, Ending, count
<1> QED BY <1>1, <1>2, <1>3, <1>4 DEF TypeOK

(* Types: ReadStored. *)
LEMMA TypesReadStored == ASSUME TypeOK, ReadStored PROVE TypeOK'
<1>1. restore' \in Op
  BY Fields, IdleFields DEF TypeOK, ReadStored, Op
<1>2. store' \in Stored
  BY StoredFields, Fields, Basic DEF TypeOK, ReadStored, SignOut
<1>3. tokens' \in MaybeToken /\ state' \in State /\ ident' \in MaybeToken
  BY Names, Basic, Fields DEF TypeOK, ReadStored, SignOut
<1>4. UNCHANGED <<web, srv, cookie, refresh, logout, adopt, caller, faults, owned, taken>>
  BY DEF ReadStored, server, memory, Others, Restoring, Ending, count
<1> QED BY <1>1, <1>2, <1>3, <1>4 DEF TypeOK

(* Types: AskSession. *)
LEMMA TypesAskSession == ASSUME TypeOK, AskSession PROVE TypeOK'
<1>1. restore' \in Op
  BY Fields, IdleFields DEF TypeOK, AskSession, Op, Answer, SessionAnswer
<1>2. UNCHANGED <<web, srv, cookie, store, tokens, state, ident, refresh, logout, adopt, caller, faults, owned, taken>>
  BY DEF AskSession, server, memory, Others, Restoring, Ending, count
<1> QED BY <1>1, <1>2 DEF TypeOK

(* Types: EndSession. *)
LEMMA TypesEndSession == ASSUME TypeOK, EndSession PROVE TypeOK'
<1>1. refresh' \in Op
  BY Fields, StartRefreshType, Basic DEF TypeOK, EndSession
<1>2. restore' \in Op
  BY Fields, IdleFields DEF TypeOK, EndSession, Op
<1>3. store' \in Stored
  BY Basic DEF TypeOK, EndSession, Degrade
<1>4. tokens' \in MaybeToken /\ state' \in State /\ ident' \in MaybeToken
  BY Names, Basic, Fields DEF TypeOK, EndSession, Degrade, memory
<1>5. UNCHANGED <<web, srv, cookie, logout, adopt, caller, faults, owned, taken>>
  BY DEF EndSession, server, memory, Others, Restoring, Ending, count
<1> QED BY <1>1, <1>2, <1>3, <1>4, <1>5 DEF TypeOK

(* Types: EndPending. *)
LEMMA TypesEndPending == ASSUME TypeOK, EndPending PROVE TypeOK'
<1>1. refresh' \in Op
  BY Fields, StartRefreshType, Basic DEF TypeOK, EndPending
<1>2. restore' \in Op
  BY Fields, IdleFields DEF TypeOK, EndPending, Op
<1>3. store' \in Stored
  <2>1. Plain(restore.snap.t) \in Stored
    BY Fields, StoredFields
  <2> QED BY <2>1, Basic DEF TypeOK, EndPending, Degrade
<1>4. tokens' \in MaybeToken /\ state' \in State /\ ident' \in MaybeToken
  BY Names, Basic, Fields DEF TypeOK, EndPending, Degrade, memory
<1>5. faults' \in 0..MaxFaults
  BY FaultType DEF TypeOK, EndPending
<1>6. UNCHANGED <<web, srv, cookie, logout, adopt, caller, owned, taken>>
  BY DEF EndPending, server, memory, Others, Restoring, Ending, count
<1> QED BY <1>1, <1>2, <1>3, <1>4, <1>5, <1>6 DEF TypeOK

(* Types: KeepPending. *)
LEMMA TypesKeepPending == ASSUME TypeOK, KeepPending PROVE TypeOK'
<1>1. restore' \in Op
  BY Fields, IdleFields DEF TypeOK, KeepPending
<1>2. store' \in Stored
  BY Basic DEF TypeOK, KeepPending, Degrade
<1>3. tokens' \in MaybeToken /\ state' \in State /\ ident' \in MaybeToken
  BY Names, Basic, Fields DEF TypeOK, KeepPending, Degrade, Authenticate
<1>4. UNCHANGED <<web, srv, cookie, refresh, logout, adopt, caller, faults, owned, taken>>
  BY DEF KeepPending, server, memory, Others, Restoring, Ending, count
<1> QED BY <1>1, <1>2, <1>3, <1>4 DEF TypeOK

(* Types: JoinRefresh. *)
LEMMA TypesJoinRefresh == ASSUME TypeOK, JoinRefresh PROVE TypeOK'
<1>1. restore' \in Op
  BY Fields, IdleFields DEF TypeOK, JoinRefresh
<1>2. UNCHANGED <<web, srv, cookie, store, tokens, state, ident, refresh, logout, adopt, caller, faults, owned, taken>>
  BY DEF JoinRefresh, server, memory, Others, Restoring, Ending, count
<1> QED BY <1>1, <1>2 DEF TypeOK

(* Types: LoseBrowser. *)
LEMMA TypesLoseBrowser == ASSUME TypeOK, LoseBrowser PROVE TypeOK'
<1>1. restore' \in Op
  BY Fields, IdleFields, Basic DEF TypeOK, LoseBrowser, Op, Answer
<1>2. UNCHANGED <<web, srv, cookie, store, tokens, state, ident, refresh, logout, adopt, caller, faults, owned, taken>>
  BY DEF LoseBrowser, server, memory, Others, Restoring, Ending, count
<1> QED BY <1>1, <1>2 DEF TypeOK

(* Types: EndBrowser. *)
LEMMA TypesEndBrowser == ASSUME TypeOK, EndBrowser PROVE TypeOK'
<1>1. restore' \in Op
  <2>1. Plain(restore.got) \in Stored
    BY Fields, StoredFields
  <2> QED BY <2>1, Basic DEF TypeOK, EndBrowser, Op
<1>2. cookie' \in MaybeToken
  BY Fields, CookieAfterType DEF TypeOK, EndBrowser
<1>3. store' \in Stored
  <2>1. Plain(restore.got) \in Stored
    BY Fields, StoredFields
  <2> QED BY <2>1, Basic DEF TypeOK, EndBrowser, Degrade, SignOut
<1>4. tokens' \in MaybeToken /\ state' \in State /\ ident' \in MaybeToken
  BY Names, Basic, Fields DEF TypeOK, EndBrowser, Degrade, SignOut, memory
<1>5. UNCHANGED <<web, srv, refresh, logout, adopt, caller, faults, owned, taken>>
  BY DEF EndBrowser, server, memory, Others, Restoring, Ending, count
<1> QED BY <1>1, <1>2, <1>3, <1>4, <1>5 DEF TypeOK

(* Types: the end of a login, and logout. *)
LEMMA TypesAdoptPair == ASSUME TypeOK, AdoptPair PROVE TypeOK'
<1>1. adopt' \in Op /\ adopt' = Idle
  BY Fields, IdleFields DEF TypeOK, AdoptPair
<1>2. store' \in Stored
  BY Basic DEF TypeOK, AdoptPair, Degrade
<1>3. tokens' \in MaybeToken /\ state' \in State /\ ident' \in MaybeToken
  BY Names, Basic, Fields DEF TypeOK, AdoptPair, Degrade, Authenticate
<1>4. UNCHANGED <<web, srv, cookie, refresh, restore, logout, caller, faults, owned, taken>>
  BY DEF AdoptPair, server, memory, Others, Restoring, Ending, count
<1> QED BY <1>1, <1>2, <1>3, <1>4 DEF TypeOK

(* Types: LoseLogin. *)
LEMMA TypesLoseLogin == ASSUME TypeOK, LoseLogin PROVE TypeOK'
<1>1. adopt' = Idle /\ adopt' \in Op
  BY IdleFields DEF LoseLogin
<1>2. UNCHANGED <<web, srv, cookie, store, tokens, state, ident, refresh, restore, logout, caller, faults,
                  owned, taken>>
  BY DEF LoseLogin, server, memory, count
<1> QED BY <1>1, <1>2 DEF TypeOK

(* Types: KeepLogin. *)
LEMMA TypesKeepLogin == ASSUME TypeOK, KeepLogin PROVE TypeOK'
<1>1. adopt \in Op /\ adopt.t \in Token /\ adopt.t \in MaybeToken /\ adopt.t.s \in Session
  BY Fields, IdleFields DEF KeepLogin, TypeOK, Token
<1>2. adopt' = [adopt EXCEPT !.pc = "keep"] \/ adopt' = Idle
  BY DEF KeepLogin
<1>3. adopt' \in Op /\ (adopt' # Idle => adopt'.t \in Token)
  BY <1>1, <1>2, IdleFields DEF Op
<1>4. cookie' \in MaybeToken /\ store' \in Stored
  BY <1>1, StoredFields DEF KeepLogin, Degrade, TypeOK
<1>5. tokens' \in MaybeToken /\ state' \in State /\ ident' \in MaybeToken
  BY Names, Basic DEF TypeOK, KeepLogin, Degrade, memory
<1>6. faults' \in 0..MaxFaults
  BY FaultType DEF TypeOK, KeepLogin
<1>7. owned' \subseteq Session
  BY <1>1 DEF KeepLogin, TypeOK
<1>8. UNCHANGED <<web, srv, refresh, restore, logout, caller, taken>>
  BY DEF KeepLogin
<1> QED BY <1>3, <1>4, <1>5, <1>6, <1>7, <1>8 DEF TypeOK

(* Types: StartLogout. *)
LEMMA TypesStartLogout == ASSUME TypeOK, StartLogout PROVE TypeOK'
<1>1. logout' \in Op
  BY Fields, IdleFields DEF TypeOK, StartLogout, Op
<1>2. owned' \subseteq Session
  BY Basic DEF TypeOK, StartLogout, Live
<1>3. UNCHANGED <<web, srv, cookie, store, tokens, state, ident, refresh, restore, adopt, caller, faults, taken>>
  BY DEF StartLogout, server, memory, Others, Restoring, Ending, count
<1> QED BY <1>1, <1>2, <1>3 DEF TypeOK

(* Types: RenewToEnd. *)
LEMMA TypesRenewToEnd == ASSUME TypeOK, RenewToEnd PROVE TypeOK'
<1>1. logout' \in Op
  BY Fields, IdleFields, NewIdType DEF TypeOK, RenewToEnd, Op
<1>2. UNCHANGED <<web, srv, cookie, store, tokens, state, ident, refresh, restore, adopt, caller, faults, owned, taken>>
  BY DEF RenewToEnd, server, memory, Others, Restoring, Ending, count
<1> QED BY <1>1, <1>2 DEF TypeOK

(* Types: EndRenewed. *)
LEMMA TypesEndRenewed == ASSUME TypeOK, EndRenewed PROVE TypeOK'
<1>1. logout' \in Op
  BY Fields, IdleFields DEF TypeOK, EndRenewed, Op
<1>2. UNCHANGED <<web, srv, cookie, store, tokens, state, ident, refresh, restore, adopt, caller, faults, owned, taken>>
  BY DEF EndRenewed, server, memory, Others, Restoring, Ending, count
<1> QED BY <1>1, <1>2 DEF TypeOK

(* Types: LoseLogout. *)
LEMMA TypesLoseLogout == ASSUME TypeOK, LoseLogout PROVE TypeOK'
<1>1. logout' \in Op
  BY Fields, IdleFields DEF TypeOK, LoseLogout, Op, Answer
<1>2. UNCHANGED <<web, srv, cookie, store, tokens, state, ident, refresh, restore, adopt, caller, faults, owned, taken>>
  BY DEF LoseLogout, server, memory, Others, Restoring, Ending, count
<1> QED BY <1>1, <1>2 DEF TypeOK

(* Types: EndLogout. *)
LEMMA TypesEndLogout == ASSUME TypeOK, EndLogout PROVE TypeOK'
<1>1. logout' \in Op
  BY Fields, IdleFields DEF TypeOK, EndLogout
<1>2. store' \in Stored
  BY StoredFields, Fields, Basic DEF TypeOK, EndLogout, SignOut
<1>3. tokens' \in MaybeToken /\ state' \in State /\ ident' \in MaybeToken
  BY Names, Basic DEF TypeOK, EndLogout, SignOut
<1>4. faults' \in 0..MaxFaults
  BY FaultType DEF TypeOK, EndLogout
<1>5. UNCHANGED <<web, srv, cookie, refresh, restore, adopt, caller, owned, taken>>
  BY DEF EndLogout, server, memory, Others, Restoring, Ending, count
<1> QED BY <1>1, <1>2, <1>3, <1>4, <1>5 DEF TypeOK

(* Types: WaitToEnd. *)
LEMMA TypesWaitToEnd == ASSUME TypeOK, WaitToEnd PROVE TypeOK'
<1>1. logout' \in Op
  BY Fields, IdleFields DEF TypeOK, WaitToEnd, Op
<1>2. UNCHANGED <<web, srv, cookie, store, tokens, state, ident, refresh, restore, adopt, caller, faults, owned, taken>>
  BY DEF WaitToEnd, server, memory, Others, Restoring, Ending, count
<1> QED BY <1>1, <1>2 DEF TypeOK

(* Types: EndWebLogout. *)
LEMMA TypesEndWebLogout == ASSUME TypeOK, EndWebLogout PROVE TypeOK'
<1>1. logout' \in Op
  BY Fields, IdleFields DEF TypeOK, EndWebLogout
<1>2. store' \in Stored
  BY StoredFields, Fields, Basic DEF TypeOK, EndWebLogout, SignOut
<1>3. tokens' \in MaybeToken /\ state' \in State /\ ident' \in MaybeToken
  BY Names, Basic DEF TypeOK, EndWebLogout, SignOut, memory
<1>4. cookie' \in MaybeToken
  BY Basic DEF TypeOK, EndWebLogout
<1>5. UNCHANGED <<web, srv, refresh, restore, adopt, caller, faults, owned, taken>>
  BY DEF EndWebLogout, server, memory, Others, Restoring, Ending, count
<1> QED BY <1>1, <1>2, <1>3, <1>4, <1>5 DEF TypeOK

(* Types: what Identity serves. *)
LEMMA TypesServeRefresh == ASSUME TypeOK, ServeRefresh PROVE TypeOK'
<1> DEFINE t == Sent(refresh.t)
           id == SentId(refresh.req)
<1>1. t \in MaybeToken /\ id \in ReqId
  BY Fields, Basic DEF Sent, SentId, TypeOK
<1>2. Bounded(t) /\ srv' = Refreshed(t, id)
      /\ refresh' = [refresh EXCEPT !.ans = RefreshAnswer(t, id), !.got = Renewed(t, id)]
  BY DEF ServeRefresh
<1> HIDE DEF t, id
<1>3. srv' \in [Session -> Row]
  BY <1>1, <1>2, RefreshedType DEF TypeOK
<1>4. RefreshAnswer(t, id) \in Answer /\ Renewed(t, id) \in MaybeToken
  BY <1>1, <1>2, AnswerType, RenewedType DEF TypeOK
<1>5. refresh' \in Op
  BY <1>2, <1>4 DEF TypeOK, Op
<1>6. UNCHANGED <<web, cookie, store, tokens, state, ident, restore, logout, adopt, caller, faults, owned, taken>>
  BY DEF ServeRefresh, memory, Others
<1> QED BY <1>3, <1>5, <1>6 DEF TypeOK

(* Types: ServeBrowser. *)
LEMMA TypesServeBrowser == ASSUME TypeOK, ServeBrowser PROVE TypeOK'
<1>1. cookie \in MaybeToken /\ CookieId \in ReqId
  BY Basic DEF TypeOK
<1>2. Bounded(cookie) /\ srv' = Refreshed(cookie, CookieId)
      /\ restore' = [restore EXCEPT !.ans = RefreshAnswer(cookie, CookieId), !.got = Renewed(cookie, CookieId)]
  BY DEF ServeBrowser
<1>3. srv' \in [Session -> Row]
  BY <1>1, <1>2, RefreshedType DEF TypeOK
<1>4. RefreshAnswer(cookie, CookieId) \in Answer /\ Renewed(cookie, CookieId) \in MaybeToken
  BY <1>1, <1>2, AnswerType, RenewedType DEF TypeOK
<1>5. restore' \in Op
  BY <1>2, <1>4 DEF TypeOK, Op
<1>6. UNCHANGED <<web, cookie, store, tokens, state, ident, refresh, logout, adopt, caller, faults, owned, taken>>
  BY DEF ServeBrowser, memory, Restoring
<1> QED BY <1>3, <1>5, <1>6 DEF TypeOK

(* Types: ServeRenew. *)
LEMMA TypesServeRenew == ASSUME TypeOK, ServeRenew PROVE TypeOK'
<1>1. logout.t \in MaybeToken /\ logout.req \in ReqId
  BY Fields
<1>2. Bounded(logout.t) /\ srv' = Refreshed(logout.t, logout.req)
      /\ logout' = [logout EXCEPT !.ans = RefreshAnswer(logout.t, logout.req), !.got = Renewed(logout.t, logout.req)]
  BY DEF ServeRenew
<1>3. srv' \in [Session -> Row]
  BY <1>1, <1>2, RefreshedType DEF TypeOK
<1>4. RefreshAnswer(logout.t, logout.req) \in Answer /\ Renewed(logout.t, logout.req) \in MaybeToken
  BY <1>1, <1>2, AnswerType, RenewedType DEF TypeOK
<1>5. logout' \in Op
  BY <1>2, <1>4 DEF TypeOK, Op
<1>6. UNCHANGED <<web, cookie, store, tokens, state, ident, refresh, restore, adopt, caller, faults, owned, taken>>
  BY DEF ServeRenew, memory, Ending
<1> QED BY <1>3, <1>5, <1>6 DEF TypeOK

(* Types: ServeLogout. *)
LEMMA TypesServeLogout == ASSUME TypeOK, ServeLogout PROVE TypeOK'
<1> DEFINE t == IF logout.pc = "end" THEN logout.t ELSE logout.got
<1>1. t \in MaybeToken
  BY Fields
<1>2. srv' = LoggedOut(t) /\ logout' = [logout EXCEPT !.ans = IF srv' = srv THEN "unauthenticated" ELSE "ok"]
  BY DEF ServeLogout
<1> HIDE DEF t
<1>3. srv' \in [Session -> Row]
  BY <1>1, <1>2, LoggedOutType DEF TypeOK
<1>4. logout' \in Op
  BY <1>2 DEF TypeOK, Op, Answer
<1>5. UNCHANGED <<web, cookie, store, tokens, state, ident, refresh, restore, adopt, caller, faults, owned, taken>>
  BY DEF ServeLogout, memory, Ending
<1> QED BY <1>3, <1>4, <1>5 DEF TypeOK

(* Revoking any set of sessions leaves rows rows. *)
LEMMA RevokedType ==
  ASSUME srv \in [Session -> Row], NEW s \in Session
  PROVE  [srv[s] EXCEPT !.st = "revoked"] \in Row
  BY RowSet

(* Types: ServeWebLogout. *)
LEMMA TypesServeWebLogout == ASSUME TypeOK, ServeWebLogout PROVE TypeOK'
<1>1. PICK S : srv' = [s \in Session |-> IF s \in S THEN [srv[s] EXCEPT !.st = "revoked"] ELSE srv[s]]
  BY DEF ServeWebLogout
<1>2. srv' \in [Session -> Row]
  BY <1>1, RevokedType DEF TypeOK
<1>3. logout' \in Op
  BY DEF ServeWebLogout, TypeOK, Op, Answer
<1>4. UNCHANGED <<web, cookie, store, tokens, state, ident, refresh, restore, adopt, caller, faults, owned, taken>>
  BY DEF ServeWebLogout, memory, Ending
<1> QED BY <1>2, <1>3, <1>4 DEF TypeOK

(* Types: recovery, restart and login. *)
LEMMA TypesRecover == ASSUME TypeOK, Recover PROVE TypeOK'
<1>1. srv' \in [Session -> Row]
  BY RevokedType DEF Recover, TypeOK
<1>2. tokens' \in MaybeToken /\ state' \in State /\ ident' \in MaybeToken /\ store' \in Stored
  BY Names, Basic DEF Recover, SignOut, TypeOK
<1>3. UNCHANGED <<web, cookie, refresh, restore, logout, adopt, caller, faults, owned, taken>>
  BY DEF Recover, count
<1> QED BY <1>1, <1>2, <1>3 DEF TypeOK

(* Types: Restart. *)
LEMMA TypesRestart == ASSUME TypeOK, Restart PROVE TypeOK'
<1>1. store' \in Stored
  BY Basic DEF Restart, TypeOK
<1>2. Starting(store') \in Op
  BY <1>1, IdleFields DEF Starting, Op
<1>3. /\ refresh' \in Op /\ restore' \in Op /\ logout' \in Op /\ adopt' \in Op /\ caller' \in [Caller -> Op]
      /\ adopt' = Idle
  BY <1>2, IdleFields DEF Restart
<1>4. tokens' \in MaybeToken /\ state' \in State /\ ident' \in MaybeToken
  BY Names, Basic DEF Restart
<1>5. faults' \in 0..MaxFaults
  BY FaultType DEF Restart, TypeOK
<1>6. UNCHANGED <<web, srv, cookie, owned, taken>>
  BY DEF Restart, server
<1> QED BY <1>1, <1>3, <1>4, <1>5, <1>6 DEF TypeOK

(* Types: Login. *)
LEMMA TypesLogin == ASSUME TypeOK, NEW s \in Session, Login(s) PROVE TypeOK'
<1> DEFINE t == [s |-> s, g |-> 0]
<1>1. t \in Token /\ t \in MaybeToken
  BY BoundsAssumption DEF MaybeToken, Token
<1>2. srv' \in [Session -> Row]
  BY NewRowType DEF Login, TypeOK
<1>3. adopt' \in Op /\ adopt'.t = t
  BY <1>1, IdleFields DEF Login, Op
<1>4. taken' \in BOOLEAN
  BY DEF Login, TypeOK
<1>5. UNCHANGED <<web, cookie, store, tokens, state, ident, refresh, restore, logout, caller, faults, owned>>
  BY DEF Login, memory
<1> QED BY <1>1, <1>2, <1>3, <1>4, <1>5 DEF TypeOK

(* Types: Revoke. *)
LEMMA TypesRevoke == ASSUME TypeOK, NEW s \in Session, Revoke(s) PROVE TypeOK'
<1>1. srv' \in [Session -> Row]
  BY RevokedType DEF Revoke, TypeOK
<1>2. UNCHANGED <<web, cookie, store, tokens, state, ident, refresh, restore, logout, adopt, caller, faults, owned, taken>>
  BY DEF Revoke, memory, count
<1> QED BY <1>1, <1>2 DEF TypeOK

(* Types: Tick. *)
LEMMA TypesTick == ASSUME TypeOK, NEW s \in Session, NEW g \in 0..MaxGen, Tick(s, g) PROVE TypeOK'
<1>1. srv[s] \in Row
  BY DEF TypeOK
<1>2. /\ \A e \in Expiry : [srv[s] EXCEPT !.exp[g] = e] \in Row
      /\ \A a \in Age : [srv[s] EXCEPT !.age[g] = a] \in Row
  BY <1>1, RowSet
<1>3. \/ \E e \in Expiry : srv' = [srv EXCEPT ![s] = [srv[s] EXCEPT !.exp[g] = e]]
      \/ \E a \in Age : srv' = [srv EXCEPT ![s] = [srv[s] EXCEPT !.age[g] = a]]
  BY DEF Tick, Expiry, Age
<1>4. srv' \in [Session -> Row]
  BY <1>2, <1>3 DEF TypeOK
<1>5. UNCHANGED <<web, cookie, store, tokens, state, ident, refresh, restore, logout, adopt, caller, faults, owned, taken>>
  BY DEF Tick, memory, count
<1> QED BY <1>4, <1>5 DEF TypeOK

(* Types: getUsableAccessToken. *)
LEMMA TypesCallRefresh == ASSUME TypeOK, NEW c \in Caller, CallRefresh(c) PROVE TypeOK'
<1>1. [Idle EXCEPT !.pc = "await"] \in Op /\ [Idle EXCEPT !.pc = "read", !.snap = store] \in Op
  BY IdleFields DEF Op, TypeOK
<1>2. caller' \in [Caller -> Op]
  BY <1>1 DEF CallRefresh, TypeOK
<1>3. faults' \in 0..MaxFaults
  BY FaultType DEF CallRefresh, TypeOK
<1>4. UNCHANGED <<web, srv, cookie, store, tokens, state, ident, refresh, restore, logout, adopt, owned, taken>>
  BY DEF CallRefresh, server, memory
<1> QED BY <1>2, <1>3, <1>4 DEF TypeOK

(* Types: ContinueRefresh. *)
LEMMA TypesContinueRefresh == ASSUME TypeOK, NEW c \in Caller, ContinueRefresh(c) PROVE TypeOK'
<1> DEFINE snap == caller[c].snap
<1>1. snap \in Stored /\ snap.t \in MaybeToken
  BY Fields
<1>2. caller' \in [Caller -> Op]
  <2>1. /\ Idle \in Op /\ [Idle EXCEPT !.pc = "await"] \in Op
        /\ [Idle EXCEPT !.pc = IF snap.prev # NoToken THEN "await" ELSE "join"] \in Op
    BY IdleFields DEF Op
  <2> QED BY <2>1 DEF ContinueRefresh, TypeOK
<1>3. restore' \in Op
  <2>1. [Idle EXCEPT !.pc = "pending", !.snap = snap] \in Op
    BY <1>1, IdleFields DEF Op
  <2> QED BY <2>1 DEF ContinueRefresh, TypeOK
<1>4. refresh' \in Op
  BY <1>1, StartRefreshType, Basic DEF ContinueRefresh, TypeOK
<1>5. tokens' \in MaybeToken /\ state' \in State /\ ident' \in MaybeToken /\ store' \in Stored
  BY <1>1, Names, Basic DEF ContinueRefresh, SignOut, memory, TypeOK
<1>6. taken' \in BOOLEAN
  BY DEF ContinueRefresh, TypeOK
<1>7. UNCHANGED <<web, srv, cookie, logout, adopt, faults, owned>>
  BY DEF ContinueRefresh, server
<1> QED BY <1>2, <1>3, <1>4, <1>5, <1>6, <1>7 DEF TypeOK

(* Types: EndRefresh. *)
LEMMA TypesEndRefresh == ASSUME TypeOK, NEW c \in Caller, EndRefresh(c) PROVE TypeOK'
<1>1. caller' \in [Caller -> Op]
  BY IdleFields DEF EndRefresh, TypeOK
<1>2. tokens' \in MaybeToken /\ state' \in State /\ ident' \in MaybeToken /\ store' \in Stored
  BY Names, Basic DEF EndRefresh, SignOut, memory, TypeOK
<1>3. UNCHANGED <<web, srv, cookie, refresh, restore, logout, adopt, faults, owned, taken>>
  BY DEF EndRefresh, server, count
<1> QED BY <1>1, <1>2, <1>3 DEF TypeOK

(* The types hold at the start. *)
LEMMA TypeInit == Init => TypeOK
<1> SUFFICES ASSUME Init PROVE TypeOK
  OBVIOUS
<1>1. srv \in [Session -> Row]
  BY NewRowType DEF Init
<1>2. Starting(Empty) \in Op
  BY Basic, IdleFields DEF Starting, Op
<1>3. /\ refresh \in Op /\ restore \in Op /\ logout \in Op /\ adopt \in Op /\ caller \in [Caller -> Op]
      /\ adopt = Idle
  BY <1>2, IdleFields DEF Init
<1>4. /\ cookie \in MaybeToken /\ store \in Stored /\ tokens \in MaybeToken /\ state \in State
      /\ ident \in MaybeToken
  BY Basic, Names DEF Init
<1>5. web \in BOOLEAN /\ owned \subseteq Session /\ taken \in BOOLEAN
  BY Zenon DEF Init
<1>6. faults \in 0..MaxFaults
  BY BoundsAssumption DEF Init
<1> QED BY <1>1, <1>3, <1>4, <1>5, <1>6 DEF TypeOK

(* Every step keeps the types. *)
LEMMA TypeStep == TypeOK /\ [Next]_vars => TypeOK'
<1> SUFFICES ASSUME TypeOK, [Next]_vars PROVE TypeOK'
  OBVIOUS
<1>1. CASE \E s \in Session : Login(s) \/ Revoke(s) \/ \E g \in 0..MaxGen : Tick(s, g)
  BY <1>1, TypesLogin, TypesRevoke, TypesTick
<1>2. CASE \E c \in Caller : CallRefresh(c) \/ ContinueRefresh(c) \/ EndRefresh(c)
  BY <1>2, TypesCallRefresh, TypesContinueRefresh, TypesEndRefresh
<1>3. CASE RefreshStep \/ ServeRefresh
  BY <1>3, TypesPrepareRefresh, TypesSendRefresh, TypesLoseRefresh, TypesAnswerRefresh,
     TypesKeepRefreshed, TypesAdoptRefreshed, TypesRecheckConflict, TypesAskConflict,
     TypesEndConflict, TypesServeRefresh DEF RefreshStep
<1>4. CASE StartRestore \/ RestoreStep \/ ServeBrowser
  BY <1>4, TypesStartRestore, TypesReadStored, TypesAskSession, TypesEndSession, TypesEndPending,
     TypesKeepPending, TypesJoinRefresh, TypesLoseBrowser, TypesEndBrowser, TypesServeBrowser DEF RestoreStep
<1>5. CASE LoseLogin \/ KeepLogin \/ AdoptPair
  BY <1>5, TypesLoseLogin, TypesKeepLogin, TypesAdoptPair
<1>6. CASE StartLogout \/ LogoutStep \/ ServeLogout \/ ServeRenew \/ ServeWebLogout
  BY <1>6, TypesStartLogout, TypesRenewToEnd, TypesEndRenewed, TypesLoseLogout, TypesEndLogout,
     TypesWaitToEnd, TypesEndWebLogout, TypesServeLogout, TypesServeRenew, TypesServeWebLogout DEF LogoutStep
<1>7. CASE Recover \/ Restart
  BY <1>7, TypesRecover, TypesRestart
<1>8. CASE UNCHANGED vars
  BY <1>8 DEF TypeOK, vars
<1> QED BY <1>1, <1>2, <1>3, <1>4, <1>5, <1>6, <1>7, <1>8 DEF Next

(* Every variable of the client and of Identity keeps its type in every state
   of the protocol, within the bounds named. *)
THEOREM SessionTypes == Spec => []TypeOK
<1>1. Init => TypeOK
  BY TypeInit
<1>2. TypeOK /\ [Next]_vars => TypeOK'
  BY TypeStep
<1> QED BY <1>1, <1>2, PTL DEF Spec

----------------------------------------------------------------------------
(* A browser logout is final. *)

(* In the browser a logout is one of the two steps of the browser flow, and
   once it has ended nothing of a restore or of a refresh is left that could
   show the account again. *)
Ended == web =>
  /\ logout.pc \in {"idle", "wait", "end"}
  /\ logout.pc = "end" \/ state = "explicit_logout" => restore = Idle /\ refresh = Idle

(* A step that touches none of these keeps it. *)
LEMMA EndedSame ==
  ASSUME Ended, UNCHANGED <<web, logout, state, refresh, restore>> PROVE Ended'
  BY DEF Ended

(* A step of an operation under way keeps it, when it does not end in a
   logout. *)
LEMMA EndedBusy ==
  ASSUME Ended, refresh # Idle \/ restore # Idle, UNCHANGED <<web, logout>>,
         state' # "explicit_logout" \/ state' = state
  PROVE  Ended'
  BY DEF Ended

(* Every step keeps it. *)
LEMMA EndedStep == TypeOK /\ Ended /\ [Next]_vars => Ended'
<1> SUFFICES ASSUME TypeOK, Ended, [Next]_vars PROVE Ended'
  OBVIOUS
<1> USE IdleFields
<1>1. CASE \E s \in Session : Login(s) \/ Revoke(s) \/ \E g \in 0..MaxGen : Tick(s, g)
  BY <1>1, EndedSame DEF Login, Revoke, Tick, memory
<1>2. ASSUME NEW c \in Caller, CallRefresh(c) \/ EndRefresh(c) PROVE Ended'
  BY <1>2 DEF CallRefresh, EndRefresh, SignOut, memory, Ended
<1>3. ASSUME NEW c \in Caller, ContinueRefresh(c) PROVE Ended'
  <2>1. CASE Overtaken
    BY <1>3, <2>1, EndedSame DEF ContinueRefresh, memory
  <2>2. CASE ~Overtaken
    <3>1. (web => logout = Idle) /\ state' # "explicit_logout" /\ UNCHANGED <<web, logout>>
      BY <1>3, <2>2 DEF ContinueRefresh, Overtaken, WebEnding, SignOut, memory, Terminal
    <3> QED BY <3>1 DEF Ended
  <2> QED BY <2>1, <2>2
<1>4. CASE RefreshStep \/ ServeRefresh
  <2>1. refresh # Idle /\ UNCHANGED <<web, logout>>
    BY <1>4 DEF RefreshStep, ServeRefresh, PrepareRefresh, SendRefresh, LoseRefresh, AnswerRefresh,
       KeepRefreshed, AdoptRefreshed, RecheckConflict, AskConflict, EndConflict, Others
  <2>2. state' # "explicit_logout" \/ state' = state
    BY <1>4 DEF RefreshStep, ServeRefresh, PrepareRefresh, SendRefresh, LoseRefresh, AnswerRefresh,
       KeepRefreshed, AdoptRefreshed, RecheckConflict, AskConflict, EndConflict, memory, SignOut,
       Degrade, Authenticate
  <2> QED BY <2>1, <2>2, EndedBusy
<1>5. CASE StartRestore
  BY <1>5 DEF StartRestore, WebEnding, Ended
<1>6. CASE RestoreStep \/ ServeBrowser
  <2>1. restore # Idle /\ UNCHANGED <<web, logout>>
    BY <1>6 DEF RestoreStep, ServeBrowser, ReadStored, AskSession, EndSession, EndPending, KeepPending,
       JoinRefresh, LoseBrowser, EndBrowser, Restoring
  <2>2. state' # "explicit_logout" \/ state' = state
    BY <1>6 DEF RestoreStep, ServeBrowser, ReadStored, AskSession, EndSession, EndPending, KeepPending,
       JoinRefresh, LoseBrowser, EndBrowser, memory, SignOut, Degrade, Authenticate
  <2> QED BY <2>1, <2>2, EndedBusy
<1>7. CASE LoseLogin \/ KeepLogin \/ AdoptPair
  BY <1>7 DEF LoseLogin, KeepLogin, AdoptPair, Authenticate, Degrade, memory, Ended
<1>8. CASE StartLogout
  BY <1>8 DEF StartLogout, memory, Ended
<1>9. CASE EndLogout \/ RenewToEnd \/ ServeLogout
  BY <1>9 DEF EndLogout, RenewToEnd, ServeLogout, Ending, Ended
<1>10. CASE ServeRenew \/ EndRenewed
  BY <1>10 DEF EndRenewed, ServeRenew, Ending, Ended
<1>11. CASE LoseLogout
  BY <1>11 DEF LoseLogout, Ending, memory, Ended
<1>12. CASE WaitToEnd
  BY <1>12 DEF WaitToEnd, Ending, memory, Ended, TypeOK, Op
<1>13. CASE ServeWebLogout
  BY <1>13 DEF ServeWebLogout, Ending, memory, Ended, TypeOK, Op
<1>14. CASE EndWebLogout
  BY <1>14 DEF EndWebLogout, SignOut, memory, Ended
<1>15. CASE Recover \/ Restart
  BY <1>15 DEF Recover, Restart, SignOut, Ended, Starting
<1>16. CASE UNCHANGED vars
  BY <1>16, EndedSame DEF vars
<1> QED BY <1>1, <1>2, <1>3, <1>4, <1>5, <1>6, <1>7, <1>8, <1>9, <1>10, <1>11, <1>12, <1>13, <1>14,
           <1>15, <1>16 DEF Next, LogoutStep

(* After a logout of the browser, only a login under way can show an account. *)
LEMMA OnlyAdoptAuthenticates ==
  ASSUME TypeOK, Ended, [Next]_vars, web, state = "explicit_logout", state' = "authenticated"
  PROVE  adopt # Idle
<1> SUFFICES ASSUME adopt = Idle PROVE FALSE
  OBVIOUS
<1> USE IdleFields
<1>1. refresh = Idle /\ restore = Idle
  BY DEF Ended
<1>2. state' # state
  OBVIOUS
<1>3. ~RefreshStep /\ ~ServeRefresh
  BY <1>1 DEF RefreshStep, ServeRefresh, PrepareRefresh, SendRefresh, LoseRefresh, AnswerRefresh,
     KeepRefreshed, AdoptRefreshed, RecheckConflict, AskConflict, EndConflict
<1>4. ~RestoreStep /\ ~ServeBrowser /\ ~StartRestore
  BY <1>1 DEF RestoreStep, ServeBrowser, ReadStored, AskSession, EndSession, EndPending, KeepPending,
     JoinRefresh, LoseBrowser, EndBrowser, StartRestore, Terminal
<1>5. ~LoseLogin /\ ~KeepLogin /\ ~AdoptPair
  BY DEF LoseLogin, KeepLogin, AdoptPair
<1>6. ~LogoutStep /\ ~StartLogout /\ ~ServeLogout /\ ~ServeRenew /\ ~ServeWebLogout
  BY DEF LogoutStep, RenewToEnd, EndRenewed, LoseLogout, EndLogout, WaitToEnd, EndWebLogout, SignOut,
     StartLogout, ServeLogout, ServeRenew, ServeWebLogout, Ending, memory
<1>7. ~Recover /\ ~Restart
  BY DEF Recover, Restart, SignOut
<1>8. \A s \in Session : ~Login(s) /\ ~Revoke(s) /\ \A g \in 0..MaxGen : ~Tick(s, g)
  BY DEF Login, Revoke, Tick, memory
<1>9. \A c \in Caller : ~CallRefresh(c) /\ ~ContinueRefresh(c) /\ ~EndRefresh(c)
  BY DEF CallRefresh, ContinueRefresh, EndRefresh, SignOut, memory
<1> QED BY <1>2, <1>3, <1>4, <1>5, <1>6, <1>7, <1>8, <1>9 DEF Next, vars

(* After an explicit logout in a browser, no refresh, restore or caller that
   was still under way shows the account again: only a new login does
   (session.ts logout() waits for restore and for the refresh in flight
   before it ends the session). *)
THEOREM BrowserLogoutIsFinal == Spec => WebLogoutTerminal
<1>1. Init => Ended
  BY IdleFields DEF Init, Ended
<1>2. TypeOK /\ Ended /\ [Next]_vars => Ended'
  BY EndedStep
<1>3. TypeOK /\ Ended /\ [Next]_vars =>
        [web /\ state = "explicit_logout" /\ state' = "authenticated" => adopt # Idle]_vars
  BY OnlyAdoptAuthenticates
<1> QED BY <1>1, <1>2, <1>3, SessionTypes, PTL DEF Spec, WebLogoutTerminal

----------------------------------------------------------------------------
(* What protects the session of a device. *)

(* The sessions that live, that the app took up and that nobody asked to end. *)
Held == Live \cap owned

(* A rotation records its request, and the token it gave is still good unless
   it was given long ago. *)
RowGood(s) ==
  /\ srv[s].gen > 0 => srv[s].by # 0
  /\ \A g \in 1..srv[s].gen : srv[s].exp[g] = "good" \/ srv[s].age[g - 1] = "old"

(* What the native device stores leads to the current tokens: it is current,
   or it is one rotation behind together with the id of that rotation. *)
Leading(s) ==
  /\ store.t.s = s
  /\ \/ store.prev = NoToken /\ store.t.g = srv[s].gen
     \/ /\ store.prev = store.t
        /\ store.t.g = srv[s].gen \/ (store.t.g + 1 = srv[s].gen /\ srv[s].by = store.req)
     \/ /\ store.prev.s = s /\ store.t.g = srv[s].gen
        /\ store.prev.g + 1 = srv[s].gen /\ srv[s].by = store.req

(* The token is current, or one rotation behind and comes with its id. *)
OneBehind(s, t, id) ==
  /\ t.s = s
  /\ t.g = srv[s].gen \/ (t.g + 1 = srv[s].gen /\ srv[s].by = id)

(* Where the tokens of the session are: the cookie jar in a browser, the
   store on a native device; what is stored is of this session. *)
Home(s) ==
  /\ (store.prev = NoToken) <=> (store.req = 0)
  /\ store # Empty => store.t.s = s
  /\ web => OneBehind(s, cookie, CookieId)
  /\ ~web => Leading(s)

(* A token of the session that has not expired. *)
Fresh(s, t) == t.s = s /\ srv[s].exp[t.g] = "good"
(* The token the session is at. *)
Current(s, t) == Fresh(s, t) /\ t.g = srv[s].gen

(* What is shown agrees with the session: signed out only before a login has
   been kept, authenticated only with its identity. *)
StateOf(s) ==
  /\ logout = Idle
  /\ state \in SignedOut => adopt.pc = "keep"
  /\ adopt # Idle => adopt.pc = "keep" /\ Fresh(s, adopt.t)
  /\ state = "authenticated" =>
       /\ ident.s = s /\ store # Empty
       /\ restore # Idle => Fresh(s, ident)
       /\ refresh = Idle /\ (\E c \in Caller : caller[c].pc = "join") =>
            tokens # NoToken /\ Fresh(s, ident)

(* Where the callers of getUsableAccessToken are. *)
CallerOf(s) == \A c \in Caller :
  /\ caller[c].pc \in {"idle", "read", "join"}
  /\ caller[c].pc = "read" => caller[c].snap # Empty
  /\ caller[c].pc = "join" => restore = Idle

(* Where a refresh under way is, and that what it asks with or got is
   recorded in the store. *)
RefreshOf(s) ==
  /\ refresh = Idle \/ restore = Idle \/ restore.pc = "join"
  /\ refresh # Idle => refresh.pc \in {"start", "prepare", "sent", "keep1", "keep2"}
  /\ refresh.pc \in {"start", "prepare"} => refresh.ans = "none"
  /\ refresh.pc = "start" =>
       \/ refresh.req = 0 /\ store = Plain(refresh.t) /\ refresh.t # NoToken
       \/ refresh.req # 0 /\ store.prev = refresh.t /\ store.req = refresh.req
  /\ refresh.pc = "prepare" => store = Pending(refresh.t, refresh.t, refresh.req) /\ refresh.req # 0
  /\ refresh.pc = "sent" =>
       /\ store.prev = refresh.t /\ store.req = refresh.req /\ refresh.req # 0
       /\ refresh.ans \in {"none", "ok", "network"}
  /\ refresh.pc = "sent" /\ refresh.ans = "ok" =>
       /\ Current(s, refresh.got)
       /\ ~web => srv[s].by = refresh.req /\ refresh.t.s = s /\ refresh.t.g + 1 = refresh.got.g
  /\ refresh.pc \in {"keep1", "keep2"} => Current(s, refresh.got)

(* Where a restore under way is, and that what it read is still what is
   stored. *)
RestoreOf(s) ==
  /\ restore # Idle => restore.pc \in {"read", "session", "pending", "keep", "join", "browser"}
  /\ restore.pc \in {"read", "session", "pending"} => restore.snap = store
  /\ restore.pc = "read" => restore.ans = "none"
  /\ restore.pc = "session" => restore.snap # Empty /\ restore.snap.prev = NoToken
  /\ restore.pc = "pending" =>
       /\ restore.snap.prev # NoToken
       /\ ~web /\ restore.ans = "ok" => restore.snap.t.g = srv[s].gen
  /\ restore.pc = "keep" => restore.snap.t.s = s
  /\ restore.pc = "browser" => /\ web /\ restore.ans \in {"none", "ok", "network"}
                               /\ restore.ans = "ok" => Current(s, restore.got)

(* All that protects the session. *)
Kept(s) == RowGood(s) /\ Home(s) /\ StateOf(s) /\ CallerOf(s) /\ RefreshOf(s) /\ RestoreOf(s)

(* Between the request of a login and its answer no session is held, nothing
   else is under way, and the row of the new session is as it was made. *)
Waiting == adopt.pc = "sent" =>
  /\ Held = {} /\ state \in SignedOut
  /\ refresh = Idle /\ restore = Idle /\ logout = Idle /\ \A c \in Caller : caller[c] = Idle
  /\ adopt.t.g = 0 /\ srv[adopt.t.s].gen = 0 /\ srv[adopt.t.s].exp[0] = "good"
  /\ srv[adopt.t.s].st \in {"live", "revoked"}

(* The app takes up only sessions Identity has created. *)
Created == \A s \in owned : srv[s].st # "none"

(* The inductive invariant: until operations overlap, every session held is
   protected. *)
KeptInv == taken \/ (Created /\ Waiting /\ \A s \in Held : Kept(s))

(* The state before a step, about one session held. *)
At(s) == TypeOK /\ s \in Held /\ ~taken /\ Kept(s)

(* Each part reads only the variables named here: a step that leaves them
   alone keeps it. *)
LEMMA RowFrame ==
  ASSUME NEW s \in Session, RowGood(s), srv'[s] = srv[s] PROVE RowGood(s)'
  BY DEF RowGood

(* The same for where the tokens are. *)
LEMMA HomeFrame ==
  ASSUME NEW s \in Session, Home(s), srv'[s] = srv[s], UNCHANGED <<web, cookie, store>>
  PROVE  Home(s)'
  BY DEF Home, Leading, OneBehind

(* The same for the callers. *)
LEMMA CallerFrame ==
  ASSUME NEW s \in Session, CallerOf(s), UNCHANGED <<caller, restore>> PROVE CallerOf(s)'
  BY DEF CallerOf

(* The same for a refresh. *)
LEMMA RefreshFrame ==
  ASSUME NEW s \in Session, RefreshOf(s), srv'[s] = srv[s], UNCHANGED <<web, refresh, restore, store>>
  PROVE  RefreshOf(s)'
  BY DEF RefreshOf, Current, Fresh

(* The same for a restore. *)
LEMMA RestoreFrame ==
  ASSUME NEW s \in Session, RestoreOf(s), srv'[s] = srv[s], UNCHANGED <<web, restore, store>>
  PROVE  RestoreOf(s)'
  BY DEF RestoreOf, Current, Fresh

(* The same for all parts. *)
LEMMA KeptFrame ==
  ASSUME NEW s \in Session, Kept(s), srv'[s] = srv[s],
         UNCHANGED <<web, cookie, store, tokens, state, ident, refresh, restore, logout, adopt, caller>>
  PROVE  Kept(s)'
<1>1. StateOf(s)'
  BY DEF Kept, StateOf, Fresh
<1> QED BY <1>1, RowFrame, HomeFrame, CallerFrame, RefreshFrame, RestoreFrame DEF Kept

(* What At says, in the form the steps use. *)
LEMMA HeldFacts ==
  ASSUME NEW s \in Session, At(s)
  PROVE  /\ srv[s].st = "live" /\ s \in owned /\ ~taken /\ TypeOK
         /\ RowGood(s) /\ Home(s) /\ StateOf(s) /\ CallerOf(s) /\ RefreshOf(s) /\ RestoreOf(s)
         /\ logout = Idle /\ ~WebEnding /\ s # NoSession
  BY BoundsAssumption DEF At, Held, Live, Kept, StateOf, WebEnding

(* The states of a session in use are not states of being signed out. *)
LEMMA NotSignedOut ==
  /\ "degraded" \notin SignedOut /\ "authenticated" \notin SignedOut /\ "restoring" \notin SignedOut
  BY DEF SignedOut

(* A refresh that ends degraded, with the tokens where they were. *)
LEMMA RefreshEnds ==
  ASSUME NEW s \in Session, At(s), refresh' = Idle, state' = "degraded", Home(s)',
         UNCHANGED <<web, srv, store, restore, logout, adopt, caller>>
  PROVE  Kept(s)'
<1>1. StateOf(s)'
  BY HeldFacts, NotSignedOut DEF StateOf, Fresh
<1>2. RefreshOf(s)'
  BY IdleFields DEF RefreshOf
<1> QED BY <1>1, <1>2, HeldFacts, RowFrame, CallerFrame, RestoreFrame DEF Kept

(* A restore that ends degraded. *)
LEMMA RestoreEnds ==
  ASSUME NEW s \in Session, At(s), restore' = Idle, state' = "degraded", Home(s)',
         UNCHANGED <<web, srv, store, refresh, logout, adopt, caller>>
  PROVE  Kept(s)'
<1>1. StateOf(s)'
  BY HeldFacts, NotSignedOut DEF StateOf, Fresh
<1>2. RefreshOf(s)'
  BY HeldFacts DEF RefreshOf, Current, Fresh
<1>3. RestoreOf(s)'
  BY IdleFields DEF RestoreOf
<1>4. CallerOf(s)'
  BY HeldFacts DEF CallerOf
<1> QED BY <1>1, <1>2, <1>3, <1>4, HeldFacts, RowFrame DEF Kept

(* A restore that ends by showing the account. *)
LEMMA RestoreShows ==
  ASSUME NEW s \in Session, At(s), restore # Idle, restore' = Idle,
         state' = "authenticated", ident'.s = s, store # Empty,
         UNCHANGED <<web, srv, cookie, store, refresh, logout, adopt, caller>>
  PROVE  Kept(s)'
<1>1. \A c \in Caller : caller[c].pc # "join"
  BY HeldFacts DEF CallerOf
<1>2. StateOf(s)'
  BY <1>1, HeldFacts, NotSignedOut DEF StateOf, Fresh
<1>3. RefreshOf(s)'
  BY HeldFacts DEF RefreshOf, Current, Fresh
<1>4. RestoreOf(s)'
  BY IdleFields DEF RestoreOf
<1>5. CallerOf(s)'
  BY HeldFacts DEF CallerOf
<1> QED BY <1>2, <1>3, <1>4, <1>5, HeldFacts, RowFrame, HomeFrame DEF Kept

----------------------------------------------------------------------------
(* The callers of getUsableAccessToken. *)

(* A caller finds the access token expired. *)
LEMMA KeptCallRefresh ==
  ASSUME NEW s \in Session, At(s), NEW c \in Caller, CallRefresh(c) PROVE Kept(s)'
<1>1. state = "authenticated" /\ srv[ident.s].exp[ident.g] # "good" /\ ident.s = s /\ store # Empty
  BY HeldFacts DEF CallRefresh, StateOf
<1>2. restore = Idle
  BY <1>1, HeldFacts DEF StateOf, Fresh
<1>3. caller \in [Caller -> Op]
  BY HeldFacts DEF TypeOK
<1>4. caller' = [caller EXCEPT ![c] = [Idle EXCEPT !.pc = "read", !.snap = store]]
  BY <1>2 DEF CallRefresh
<1>5. /\ caller'[c].pc = "read" /\ caller'[c].snap = store
      /\ \A d \in Caller \ {c} : caller'[d] = caller[d]
  BY <1>3, <1>4 DEF Idle
<1>6. UNCHANGED <<web, srv, cookie, store, tokens, state, ident, refresh, restore, logout, adopt, owned, taken>>
  BY DEF CallRefresh, server, memory
<1>7. CallerOf(s)'
  BY <1>1, <1>2, <1>5, <1>6, HeldFacts DEF CallerOf
<1>8. StateOf(s)'
  BY <1>5, <1>6, HeldFacts DEF StateOf, Fresh
<1> QED BY <1>6, <1>7, <1>8, HeldFacts, RowFrame, HomeFrame, RefreshFrame, RestoreFrame DEF Kept

(* A caller goes on with what is stored: it joins a refresh or starts one. *)
LEMMA KeptContinueRefresh ==
  ASSUME NEW s \in Session, At(s), NEW c \in Caller, ContinueRefresh(c), ~taken' PROVE Kept(s)'
<1> DEFINE snap == caller[c].snap
<1>1. caller[c].pc = "read" /\ snap # Empty /\ snap \in Stored /\ snap.t \in MaybeToken /\ snap.prev \in MaybeToken
  BY HeldFacts, Fields, StoredFields DEF ContinueRefresh, CallerOf
<1>2. caller \in [Caller -> Op] /\ store \in Stored
  BY HeldFacts DEF TypeOK
<1>3. caller'[c].pc # "await" /\ (caller'[c].pc = "join" => snap = store)
  BY HeldFacts DEF ContinueRefresh
<1>4. UNCHANGED <<web, srv, cookie, logout, adopt, owned>>
  BY DEF ContinueRefresh, server
<1>5. CASE Overtaken
  <2>1. caller' = [caller EXCEPT ![c] = Idle] /\ UNCHANGED <<store, tokens, state, ident, refresh, restore>>
    BY <1>5 DEF ContinueRefresh, memory
  <2>2. caller'[c].pc = "idle" /\ \A d \in Caller \ {c} : caller'[d] = caller[d]
    BY <1>2, <2>1, IdleFields
  <2>3. CallerOf(s)'
    BY <2>1, <2>2, HeldFacts DEF CallerOf
  <2>4. StateOf(s)'
    BY <1>4, <2>1, <2>2, HeldFacts DEF StateOf, Fresh
  <2> QED BY <1>4, <2>1, <2>3, <2>4, HeldFacts, RowFrame, HomeFrame, RefreshFrame, RestoreFrame DEF Kept
<1>6. CASE ~Overtaken
  <2>1. restore = Idle
    <3>1. [Idle EXCEPT !.pc = "await"].pc = "await"
      BY DEF Idle
    <3> QED BY <1>2, <1>3, <1>6, <3>1 DEF ContinueRefresh
  <2>2. snap.prev = NoToken
    <3>1. snap.prev # NoToken => [Idle EXCEPT !.pc = IF snap.prev # NoToken THEN "await" ELSE "join"].pc = "await"
      BY DEF Idle
    <3> QED BY <1>1, <1>2, <1>3, <1>6, <2>1, <3>1 DEF ContinueRefresh
  <2>3. /\ tokens' = snap.t /\ StartRefresh(snap.t, 0) /\ UNCHANGED <<store, state, ident, restore>>
        /\ caller' = [caller EXCEPT ![c] = [Idle EXCEPT !.pc = "join"]]
    BY <1>1, <1>6, <2>1, <2>2 DEF ContinueRefresh
  <2>4. caller'[c].pc = "join" /\ \A d \in Caller \ {c} : caller'[d] = caller[d]
    BY <1>2, <2>3 DEF Idle
  <2>5. snap = store
    BY <1>3, <2>4
  <2>6. store = Plain(snap.t) /\ snap.t # NoToken
    <3>1. store.prev = NoToken /\ store.req = 0
      BY <2>2, <2>5, HeldFacts DEF Home
    <3>2. store = Plain(store.t)
      BY <1>2, <3>1 DEF Stored, Plain
    <3> QED BY <1>1, <2>5, <3>2 DEF Empty
  <2>7. refresh' # Idle
    BY <2>3 DEF StartRefresh, Idle
  <2>8. CallerOf(s)'
    BY <2>1, <2>3, <2>4, HeldFacts DEF CallerOf
  <2>9. StateOf(s)'
    BY <1>4, <2>1, <2>3, <2>7, HeldFacts DEF StateOf, Fresh
  <2>10. RefreshOf(s)'
    <3>1. CASE refresh # Idle
      <4>1. refresh' = refresh
        BY <2>3, <3>1 DEF StartRefresh
      <4> QED BY <1>4, <2>3, <4>1, HeldFacts, RefreshFrame
    <3>2. CASE refresh = Idle
      <4>1. refresh'.pc = "start" /\ refresh'.t = snap.t /\ refresh'.req = 0 /\ refresh'.ans = "none"
        BY <2>3, <3>2 DEF StartRefresh, Idle
      <4> QED BY <2>1, <2>3, <2>6, <4>1 DEF RefreshOf
    <3> QED BY <3>1, <3>2
  <2> QED BY <1>4, <2>3, <2>8, <2>9, <2>10, HeldFacts, RowFrame, HomeFrame, RestoreFrame DEF Kept
<1> QED BY <1>5, <1>6

(* A caller takes the outcome of the refresh it joined. *)
LEMMA KeptEndRefresh ==
  ASSUME NEW s \in Session, At(s), NEW c \in Caller, EndRefresh(c) PROVE Kept(s)'
<1>1. caller[c].pc = "join" /\ refresh = Idle
  BY HeldFacts DEF EndRefresh, Returns, CallerOf
<1>2. state = "authenticated" => tokens # NoToken /\ ident.s = s /\ srv[s].exp[ident.g] = "good"
  BY <1>1, HeldFacts DEF StateOf, Fresh
<1>3. UNCHANGED <<web, srv, cookie, store, tokens, state, ident, refresh, restore, logout, adopt>>
  BY <1>2 DEF EndRefresh, server, memory
<1>4. caller'[c].pc = "idle" /\ \A d \in Caller \ {c} : caller'[d] = caller[d]
  BY HeldFacts, IdleFields DEF EndRefresh, TypeOK
<1>5. CallerOf(s)'
  BY <1>3, <1>4, HeldFacts DEF CallerOf
<1>6. StateOf(s)'
  BY <1>3, <1>4, HeldFacts DEF StateOf, Fresh
<1> QED BY <1>3, <1>5, <1>6, HeldFacts, RowFrame, HomeFrame, RefreshFrame, RestoreFrame DEF Kept

----------------------------------------------------------------------------
(* performRefresh. *)

(* A refresh that is on its way changes nothing else: what remains to show is
   where the session's tokens are, what is shown, and the refresh itself. *)
LEMMA RefreshGoesOn ==
  ASSUME NEW s \in Session, At(s), refresh # Idle, refresh' # Idle,
         store' # Empty, \A g \in 0..MaxGen : srv[s].exp[g] = "good" => srv'[s].exp[g] = "good",
         UNCHANGED <<web, state, ident, restore, logout, adopt, caller>>,
         RowGood(s)', Home(s)', RefreshOf(s)'
  PROVE  Kept(s)'
<1>1. restore = Idle \/ restore.pc = "join"
  BY HeldFacts DEF RefreshOf
<1>2. ident.g \in 0..MaxGen /\ adopt.t.g \in 0..MaxGen
  BY HeldFacts, Fields, Tokens DEF TypeOK
<1>3. CallerOf(s)'
  BY HeldFacts DEF CallerOf
<1>5. StateOf(s)'
  BY <1>2, HeldFacts DEF StateOf, Fresh
<1>4. RestoreOf(s)'
  BY <1>1, IdleFields, HeldFacts DEF RestoreOf
<1> QED BY <1>3, <1>4, <1>5 DEF Kept

(* The tokens of the session are somewhere, so something is stored. *)
LEMMA StoredSomething ==
  ASSUME TypeOK, store.prev # NoToken \/ store.t # NoToken PROVE store # Empty
  BY StoredFields, Basic DEF Empty

(* A token of a session is a token. *)
LEMMA SessionToken ==
  ASSUME NEW s \in Session, NEW t, t.s = s PROVE t # NoToken
  BY Basic, BoundsAssumption

(* The refresh records its request before it sends it. *)
LEMMA KeptPrepareRefresh ==
  ASSUME NEW s \in Session, At(s), PrepareRefresh PROVE Kept(s)'
<1>1. /\ refresh.pc = "start" /\ refresh # Idle /\ refresh.ans = "none" /\ refresh \in Op
      /\ refresh.t \in MaybeToken
  BY HeldFacts, IdleFields, Fields DEF PrepareRefresh, RefreshOf, TypeOK
<1>2. UNCHANGED <<web, srv, cookie, restore, logout, adopt, caller>>
  BY DEF PrepareRefresh, server, Others
<1>3. CASE refresh.req # 0
  <2>1. refresh' = [refresh EXCEPT !.pc = "sent"] /\ UNCHANGED <<store, tokens, state, ident>>
    BY <1>3 DEF PrepareRefresh, memory
  <2>2. refresh'.pc = "sent" /\ refresh'.t = refresh.t /\ refresh'.req = refresh.req /\ refresh'.ans = "none"
    BY <1>1, <2>1 DEF Op
  <2>3. store.prev = refresh.t /\ store.req = refresh.req
    BY <1>1, <1>3, HeldFacts DEF RefreshOf
  <2>4. store # Empty
    BY <1>3, <2>3, HeldFacts, Basic DEF Empty, Plain
  <2>5. RefreshOf(s)'
    BY <1>1, <1>2, <1>3, <2>1, <2>2, <2>3, HeldFacts DEF RefreshOf
  <2> QED BY <1>1, <1>2, <2>1, <2>2, <2>4, <2>5, IdleFields, HeldFacts, RowFrame, HomeFrame, RefreshGoesOn
<1>4. CASE refresh.req = 0 /\ Degrade(tokens) /\ refresh' = Idle
  BY <1>2, <1>4, HeldFacts, HomeFrame, RefreshEnds DEF Degrade
<1>5. ASSUME refresh.req = 0, NEW id \in NewId, store' = Pending(refresh.t, refresh.t, id),
             refresh' = [refresh EXCEPT !.pc = "prepare", !.req = id], UNCHANGED memory
      PROVE  Kept(s)'
  <2>1. /\ refresh'.pc = "prepare" /\ refresh'.t = refresh.t /\ refresh'.req = id /\ refresh'.ans = "none"
    BY <1>1, <1>5 DEF Op
  <2>2. id # 0 /\ id \in ReqId
    BY NewIdType
  <2>3. store = Plain(refresh.t) /\ refresh.t # NoToken
    BY <1>1, <1>5, HeldFacts DEF RefreshOf
  <2>4. /\ store.t = refresh.t /\ store.prev = NoToken /\ store.req = 0
        /\ store'.t = refresh.t /\ store'.prev = refresh.t /\ store'.req = id
    BY <1>1, <1>5, <2>2, <2>3, StoredFields
  <2>5. store # Empty /\ store' # Empty
    BY <2>3, <2>4, StoredFields DEF Empty, Plain
  <2>6. Home(s)'
    <3>1. ~web => Leading(s)'
      BY <1>2, <2>4, HeldFacts, <2>3 DEF Home, Leading
    <3> QED BY <1>2, <2>2, <2>3, <2>4, <2>5, <3>1, HeldFacts DEF Home, OneBehind
  <2>7. RefreshOf(s)'
    BY <1>1, <1>2, <1>5, <2>1, <2>2, HeldFacts DEF RefreshOf
  <2>8. refresh' # Idle
    BY <2>1, IdleFields
  <2> QED BY <1>1, <1>2, <1>5, <2>5, <2>6, <2>7, <2>8, HeldFacts, RowFrame, RefreshGoesOn DEF memory
<1> QED BY <1>3, <1>4, <1>5 DEF PrepareRefresh

(* The refresh is sent. *)
LEMMA KeptSendRefresh ==
  ASSUME NEW s \in Session, At(s), SendRefresh PROVE Kept(s)'
<1>1. /\ refresh.pc = "prepare" /\ refresh # Idle /\ refresh.ans = "none" /\ refresh \in Op
      /\ refresh.t \in MaybeToken /\ refresh.req \in ReqId
      /\ store = Pending(refresh.t, refresh.t, refresh.req) /\ refresh.req # 0
  BY HeldFacts, IdleFields, Fields DEF SendRefresh, RefreshOf, TypeOK
<1>2. /\ UNCHANGED <<web, srv, cookie, store, tokens, state, ident, restore, logout, adopt, caller>>
      /\ refresh' = [refresh EXCEPT !.pc = "sent"]
  BY <1>1 DEF SendRefresh, server, memory, Others
<1>3. refresh'.pc = "sent" /\ refresh'.t = refresh.t /\ refresh'.req = refresh.req /\ refresh'.ans = "none"
  BY <1>1, <1>2 DEF Op
<1>4. store.prev = refresh.t /\ store.req = refresh.req
  BY <1>1, StoredFields
<1>5. store # Empty
  BY <1>1, <1>4, Basic DEF Empty, Plain
<1>6. RefreshOf(s)'
  BY <1>1, <1>2, <1>3, <1>4, HeldFacts DEF RefreshOf
<1> QED BY <1>1, <1>2, <1>3, <1>5, <1>6, IdleFields, HeldFacts, RowFrame, HomeFrame, RefreshGoesOn

(* A refresh that was sent is recorded in the store with its request. *)
LEMMA SentFacts ==
  ASSUME NEW s \in Session, At(s), refresh.pc = "sent"
  PROVE  /\ refresh # Idle /\ refresh \in Op /\ refresh.t \in MaybeToken /\ refresh.req \in ReqId
         /\ store.prev = refresh.t /\ store.req = refresh.req /\ refresh.req # 0 /\ refresh.t # NoToken
         /\ refresh.ans \in {"none", "ok", "network"} /\ store # Empty
<1>1. /\ refresh # Idle /\ refresh \in Op /\ refresh.t \in MaybeToken /\ refresh.req \in ReqId
      /\ store.prev = refresh.t /\ store.req = refresh.req /\ refresh.req # 0
      /\ refresh.ans \in {"none", "ok", "network"}
  BY HeldFacts, IdleFields, Fields DEF RefreshOf, TypeOK
<1>2. refresh.t # NoToken
  BY <1>1, HeldFacts DEF Home
<1> QED BY <1>1, <1>2, HeldFacts, StoredSomething

(* The answer of the refresh is lost. *)
LEMMA KeptLoseRefresh ==
  ASSUME NEW s \in Session, At(s), LoseRefresh PROVE Kept(s)'
<1>1. refresh.pc = "sent" /\ refresh' = [refresh EXCEPT !.ans = "network", !.got = NoToken]
      /\ UNCHANGED <<web, srv, cookie, store, tokens, state, ident, restore, logout, adopt, caller>>
  BY DEF LoseRefresh, server, memory, Others
<1>2. refresh'.pc = "sent" /\ refresh'.t = refresh.t /\ refresh'.req = refresh.req /\ refresh'.ans = "network"
  BY <1>1, SentFacts DEF Op
<1>3. RefreshOf(s)'
  BY <1>1, <1>2, SentFacts, HeldFacts DEF RefreshOf
<1> QED BY <1>1, <1>2, <1>3, SentFacts, IdleFields, HeldFacts, RowFrame, HomeFrame, RefreshGoesOn

(* Identity answers the device that comes with what it holds: a rotation, or
   the rotation whose answer was lost again. *)
LEMMA Served ==
  ASSUME NEW s \in Session, TypeOK, srv[s].st = "live", RowGood(s),
         NEW t \in MaybeToken, NEW id \in ReqId, id # 0, Bounded(t), t.s = s,
         t.g = srv[s].gen \/ (t.g + 1 = srv[s].gen /\ srv[s].by = id),
         srv' = Refreshed(t, id), srv'[s].st = "live"
  PROVE  /\ RowGood(s)' /\ RefreshAnswer(t, id) = "ok"
         /\ Renewed(t, id) = [s |-> s, g |-> t.g + 1]
         /\ srv'[s].gen = t.g + 1 /\ srv'[s].by = id /\ srv'[s].exp[t.g + 1] = "good"
         /\ \A g \in 0..MaxGen : srv[s].exp[g] = "good" => srv'[s].exp[g] = "good"
<1>1. /\ t # NoToken /\ t.g \in 0..MaxGen /\ srv \in [Session -> Row] /\ srv[s] \in Row
      /\ srv[s].gen \in 0..MaxGen /\ MaxGen \in Nat
  BY SessionToken, Tokens, BoundsAssumption, RowFields DEF TypeOK
<1>2. CASE t.g = srv[s].gen
  <2>1. CanRotate(t) /\ t.g + 1 \in 0..MaxGen
    BY <1>1, <1>2 DEF CanRotate, Bounded
  <2>2. srv'[s] = [srv[s] EXCEPT !.gen = t.g + 1, !.by = id, !.age[t.g] = "fresh", !.exp[t.g + 1] = "good"]
    BY <1>1, <2>1 DEF Refreshed
  <2>3. /\ srv'[s].gen = t.g + 1 /\ srv'[s].by = id
        /\ srv'[s].exp = [srv[s].exp EXCEPT ![t.g + 1] = "good"]
        /\ srv'[s].age = [srv[s].age EXCEPT ![t.g] = "fresh"]
    BY <1>1, <2>2 DEF Row
  <2>4. srv[s].exp \in [0..MaxGen -> Expiry] /\ srv[s].age \in [0..MaxGen -> Age]
    BY <1>1, RowFields
  <2>5. \A g \in 0..MaxGen : srv'[s].exp[g] = IF g = t.g + 1 THEN "good" ELSE srv[s].exp[g]
    BY <2>3, <2>4
  <2>6. \A g \in 0..MaxGen : g # t.g => srv'[s].age[g] = srv[s].age[g]
    BY <2>3, <2>4
  <2>7. RowGood(s)'
    <3> SUFFICES ASSUME NEW g \in 1..srv'[s].gen PROVE srv'[s].exp[g] = "good" \/ srv'[s].age[g - 1] = "old"
      BY <2>3 DEF RowGood
    <3>1. CASE g = t.g + 1
      BY <2>1, <2>5, <3>1
    <3>2. CASE g # t.g + 1
      <4>1. g \in 1..srv[s].gen /\ g \in 0..MaxGen /\ g - 1 \in 0..MaxGen /\ g - 1 # t.g
        BY <1>1, <1>2, <2>1, <2>3, <3>2
      <4> QED BY <2>5, <2>6, <3>2, <4>1 DEF RowGood
    <3> QED BY <3>1, <3>2
  <2>8. RefreshAnswer(t, id) = "ok"
    BY <2>1 DEF RefreshAnswer
  <2> QED BY <1>1, <2>1, <2>3, <2>5, <2>7, <2>8, RenewedType
<1>3. CASE t.g + 1 = srv[s].gen /\ srv[s].by = id
  <2>1. ~CanRotate(t)
    BY <1>1, <1>3 DEF CanRotate
  <2>2. ~IsReuse(t, id)
    <3>1. ASSUME IsReuse(t, id) PROVE FALSE
      <4>1. srv' = [srv EXCEPT ![s].st = "compromised"]
        BY <2>1, <3>1 DEF Refreshed
      <4>2. srv'[s].st = "compromised"
        BY <1>1, <4>1 DEF Row
      <4> QED BY <4>2
    <3> QED BY <3>1
  <2>3. srv' = srv
    BY <2>1, <2>2 DEF Refreshed
  <2>4. srv[s].age[t.g] # "old"
    <3>1. CASE srv[s].age[t.g] = "old"
      <4>1. IsReuse(t, id)
        BY <1>1, <1>3, <3>1 DEF IsReuse, CanReplay
      <4> QED BY <2>2, <4>1
    <3> QED BY <3>1
  <2>5. RefreshAnswer(t, id) = "ok"
    BY <1>1, <1>3, <2>4 DEF RefreshAnswer, CanReplay
  <2>6. srv[s].exp[t.g + 1] = "good"
    <3>1. t.g + 1 \in 1..srv[s].gen /\ (t.g + 1) - 1 = t.g
      BY <1>1, <1>3
    <3> QED BY <2>4, <3>1 DEF RowGood
  <2> QED BY <1>1, <1>3, <2>3, <2>5, <2>6, RenewedType DEF RowGood
<1> QED BY <1>2, <1>3

(* Identity serves the refresh. *)
LEMMA KeptServeRefresh ==
  ASSUME NEW s \in Session, At(s), ServeRefresh, srv'[s].st = "live" PROVE Kept(s)'
<1> DEFINE t == Sent(refresh.t)
           id == SentId(refresh.req)
<1>1. refresh.pc = "sent" /\ refresh.ans = "none"
  BY DEF ServeRefresh
<1>2. t \in MaybeToken /\ id \in ReqId /\ id # 0
  BY <1>1, SentFacts, HeldFacts, Basic, BoundsAssumption DEF Sent, SentId, TypeOK, CookieId
<1>3. t.s = s /\ (t.g = srv[s].gen \/ (t.g + 1 = srv[s].gen /\ srv[s].by = id))
  <2>1. CASE web
    BY <2>1, HeldFacts DEF Sent, SentId, Home, OneBehind
  <2>2. CASE ~web
    BY <1>1, <2>2, HeldFacts, SentFacts DEF Sent, SentId, Home, Leading
  <2> QED BY <2>1, <2>2
<1>4. /\ Bounded(t) /\ srv' = Refreshed(t, id)
      /\ refresh' = [refresh EXCEPT !.ans = RefreshAnswer(t, id), !.got = Renewed(t, id)]
      /\ UNCHANGED <<web, cookie, store, tokens, state, ident, restore, logout, adopt, caller>>
  BY DEF ServeRefresh, memory, Others
<1>5. ~web => t = refresh.t /\ id = refresh.req
  BY DEF Sent, SentId
<1>6. web => t = cookie /\ id = CookieId
  BY DEF Sent, SentId
<1> HIDE DEF t, id
<1>7. /\ RowGood(s)' /\ RefreshAnswer(t, id) = "ok" /\ Renewed(t, id) = [s |-> s, g |-> t.g + 1]
      /\ srv'[s].gen = t.g + 1 /\ srv'[s].by = id /\ srv'[s].exp[t.g + 1] = "good"
      /\ \A g \in 0..MaxGen : srv[s].exp[g] = "good" => srv'[s].exp[g] = "good"
  BY <1>2, <1>3, <1>4, Served, HeldFacts
<1>8. /\ refresh'.pc = "sent" /\ refresh'.t = refresh.t /\ refresh'.req = refresh.req
      /\ refresh'.ans = "ok" /\ refresh'.got.s = s /\ refresh'.got.g = t.g + 1
  BY <1>1, <1>4, <1>7, SentFacts DEF Op
<1>9. Home(s)'
  <2>1. web => OneBehind(s, cookie, CookieId)'
    BY <1>3, <1>4, <1>6, <1>7 DEF OneBehind
  <2>2. ~web => Leading(s)'
    <3>1. t.g \in Nat /\ srv[s].gen \in Nat /\ store.t.g \in Nat
      BY <1>2, Tokens, RowFields, HeldFacts, Fields DEF TypeOK
    <3> QED BY <1>1, <1>3, <1>4, <1>5, <1>7, <3>1, SentFacts, HeldFacts DEF Home, Leading
  <2> QED BY <1>4, <2>1, <2>2, HeldFacts DEF Home
<1>10. RefreshOf(s)'
  BY <1>1, <1>3, <1>4, <1>5, <1>7, <1>8, SentFacts, HeldFacts DEF RefreshOf, Current, Fresh
<1> QED BY <1>1, <1>4, <1>7, <1>8, <1>9, <1>10, SentFacts, IdleFields, RefreshGoesOn

(* The answer of the refresh arrives. *)
LEMMA KeptAnswerRefresh ==
  ASSUME NEW s \in Session, At(s), AnswerRefresh PROVE Kept(s)'
<1>1. /\ refresh.pc = "sent" /\ cookie' = CookieAfter(refresh.ans, refresh.got)
      /\ UNCHANGED <<web, srv, restore, logout, adopt, caller>>
  BY DEF AnswerRefresh, Others
<1>2. CASE refresh.ans = "ok"
  <2>1. /\ Current(s, refresh.got)
        /\ ~web => srv[s].by = refresh.req /\ refresh.t.s = s /\ refresh.t.g + 1 = refresh.got.g
    BY <1>1, <1>2, HeldFacts DEF RefreshOf
  <2>2. web => OneBehind(s, cookie, CookieId)'
    BY <1>1, <1>2, <2>1 DEF CookieAfter, OneBehind, Current, Fresh
  <2>3. CASE Degrade(refresh.t) /\ refresh' = Idle
    <3>1. Home(s)'
      BY <1>1, <2>2, <2>3, HeldFacts DEF Home, Leading, Degrade
    <3> QED BY <1>1, <2>3, <3>1, RefreshEnds DEF Degrade
  <2>4. CASE /\ store' = Pending(refresh.got, refresh.t, refresh.req)
             /\ refresh' = [refresh EXCEPT !.pc = "keep1"] /\ UNCHANGED memory
    <3>1. refresh.got \in MaybeToken /\ refresh.got # NoToken
      BY <2>1, HeldFacts, Fields, SessionToken DEF Current, Fresh
    <3>2. store'.t = refresh.got /\ store'.prev = refresh.t /\ store'.req = refresh.req
      BY <1>1, <2>4, <3>1, SentFacts, StoredFields
    <3>3. store' # Empty
      BY <1>1, <3>2, SentFacts, Basic DEF Empty, Plain
    <3>4. refresh'.pc = "keep1" /\ refresh'.got = refresh.got
      BY <1>1, <2>4, SentFacts DEF Op
    <3>5. Home(s)'
      <4>1. ~web => Leading(s)'
        BY <1>1, <2>1, <3>2 DEF Leading, Current, Fresh
      <4>2. store'.t.s = s
        BY <2>1, <3>2 DEF Current, Fresh
      <4>3. store'.prev # NoToken /\ store'.req # 0
        BY <1>1, <3>2, SentFacts
      <4> QED BY <1>1, <2>2, <4>1, <4>2, <4>3 DEF Home
    <3>6. RefreshOf(s)'
      BY <1>1, <2>1, <3>4, SentFacts, HeldFacts DEF RefreshOf, Current, Fresh
    <3> QED BY <1>1, <2>4, <3>3, <3>4, <3>5, <3>6, SentFacts, IdleFields, HeldFacts, RowFrame, RefreshGoesOn
            DEF memory
  <2> QED BY <1>2, <2>3, <2>4 DEF AnswerRefresh
<1>3. CASE refresh.ans # "ok"
  <2>1. refresh.ans \in {"none", "network"}
    BY <1>1, <1>3, SentFacts
  <2>2. Degrade(tokens) /\ refresh' = Idle
    BY <2>1 DEF AnswerRefresh
  <2>3. cookie' = cookie
    BY <1>1, <2>1 DEF CookieAfter
  <2> QED BY <1>1, <2>2, <2>3, HeldFacts, HomeFrame, RefreshEnds DEF Degrade
<1> QED BY <1>2, <1>3

(* The new tokens are stored. *)
LEMMA KeptKeepRefreshed ==
  ASSUME NEW s \in Session, At(s), KeepRefreshed PROVE Kept(s)'
<1>1. /\ refresh.pc = "keep1" /\ refresh # Idle /\ refresh \in Op /\ Current(s, refresh.got)
      /\ refresh.got \in MaybeToken /\ refresh.got # NoToken
  BY HeldFacts, IdleFields, Fields, SessionToken DEF KeepRefreshed, RefreshOf, Current, Fresh, TypeOK
<1>2. UNCHANGED <<web, srv, cookie, restore, logout, adopt, caller>>
  BY DEF KeepRefreshed, server, Others
<1>3. CASE Degrade(refresh.t) /\ refresh' = Idle
  BY <1>2, <1>3, HeldFacts, HomeFrame, RefreshEnds DEF Degrade
<1>4. CASE /\ store' = Plain(refresh.got) /\ refresh' = [refresh EXCEPT !.pc = "keep2"] /\ UNCHANGED memory
  <2>1. store'.t = refresh.got /\ store'.prev = NoToken /\ store'.req = 0 /\ store' # Empty
    BY <1>1, <1>4, StoredFields DEF Empty, Plain
  <2>2. refresh'.pc = "keep2" /\ refresh'.got = refresh.got
    BY <1>1, <1>4 DEF Op
  <2>3. Home(s)'
    BY <1>1, <1>2, <2>1, HeldFacts DEF Home, Leading, OneBehind, Current, Fresh
  <2>4. RefreshOf(s)'
    BY <1>1, <1>2, <2>2, HeldFacts DEF RefreshOf, Current, Fresh
  <2> QED BY <1>1, <1>2, <1>4, <2>1, <2>2, <2>3, <2>4, IdleFields, HeldFacts, RowFrame, RefreshGoesOn DEF memory
<1> QED BY <1>3, <1>4 DEF KeepRefreshed

(* The new tokens are shown. *)
LEMMA KeptAdoptRefreshed ==
  ASSUME NEW s \in Session, At(s), AdoptRefreshed PROVE Kept(s)'
<1>1. /\ refresh.pc = "keep2" /\ Current(s, refresh.got)
      /\ refresh.got \in MaybeToken /\ refresh.got # NoToken
  BY HeldFacts, Fields, SessionToken DEF AdoptRefreshed, RefreshOf, Current, Fresh
<1>2. UNCHANGED <<web, srv, cookie, store, restore, logout, adopt, caller>> /\ refresh' = Idle
  BY DEF AdoptRefreshed, server, Others, Degrade
<1>3. CASE Degrade(refresh.t)
  BY <1>2, <1>3, HeldFacts, HomeFrame, RefreshEnds DEF Degrade
<1>4. CASE store = Plain(refresh.got) /\ Authenticate(refresh.got, refresh.got)
  <2>1. store # Empty
    BY <1>1, <1>4 DEF Empty, Plain
  <2>2. StateOf(s)'
    BY <1>1, <1>2, <1>4, <2>1, HeldFacts, NotSignedOut DEF StateOf, Authenticate, Current, Fresh
  <2>3. RefreshOf(s)'
    BY <1>2, IdleFields DEF RefreshOf
  <2> QED BY <1>2, <2>2, <2>3, HeldFacts, RowFrame, HomeFrame, CallerFrame, RestoreFrame DEF Kept
<1> QED BY <1>3, <1>4 DEF AdoptRefreshed

(* A session that is protected never enters the conflict branch of
   performRefresh. *)
LEMMA NoConflict ==
  ASSUME NEW s \in Session, At(s) PROVE ~RecheckConflict /\ ~AskConflict /\ ~EndConflict
  BY HeldFacts, IdleFields DEF RefreshOf, RecheckConflict, AskConflict, EndConflict

----------------------------------------------------------------------------
(* restore. *)

(* A restore that is on its way, before it starts a refresh of its own. *)
LEMMA RestoreGoesOn ==
  ASSUME NEW s \in Session, At(s), restore # Idle, restore.pc # "join", restore' # Idle,
         \A g \in 0..MaxGen : srv[s].exp[g] = "good" => srv'[s].exp[g] = "good",
         store = Empty \/ store' # Empty,
         UNCHANGED <<web, state, ident, refresh, logout, adopt, caller>>,
         RowGood(s)', Home(s)', RestoreOf(s)'
  PROVE  Kept(s)'
<1>1. refresh = Idle /\ \A c \in Caller : caller[c].pc # "join"
  BY HeldFacts DEF RefreshOf, CallerOf
<1>2. ident.g \in 0..MaxGen /\ adopt.t.g \in 0..MaxGen
  BY HeldFacts, Fields, Tokens DEF TypeOK
<1>3. CallerOf(s)'
  BY <1>1, HeldFacts DEF CallerOf
<1>4. StateOf(s)'
  BY <1>1, <1>2, HeldFacts DEF StateOf, Fresh
<1>5. RefreshOf(s)'
  BY <1>1, IdleFields DEF RefreshOf
<1> QED BY <1>3, <1>4, <1>5 DEF Kept

(* A restore that hands over to a refresh. *)
LEMMA RestoreHandsOver ==
  ASSUME NEW s \in Session, At(s), restore # Idle, restore.pc # "join",
         NEW t, NEW id, StartRefresh(t, id), restore' = [Idle EXCEPT !.pc = "join"],
         \/ id = 0 /\ store = Plain(t) /\ t # NoToken
         \/ id # 0 /\ store.prev = t /\ store.req = id,
         UNCHANGED <<web, srv, cookie, store, state, ident, logout, adopt, caller>>
  PROVE  Kept(s)'
<1>1. refresh = Idle /\ \A c \in Caller : caller[c].pc # "join"
  BY HeldFacts DEF RefreshOf, CallerOf
<1>2. /\ refresh'.pc = "start" /\ refresh'.t = t /\ refresh'.req = id /\ refresh'.ans = "none"
      /\ restore'.pc = "join"
  BY <1>1 DEF StartRefresh, Idle
<1>3. refresh' # Idle /\ restore' # Idle
  BY <1>2, IdleFields
<1>4. CallerOf(s)'
  BY <1>1, HeldFacts DEF CallerOf
<1>5. StateOf(s)'
  BY <1>1, <1>3, HeldFacts DEF StateOf, Fresh
<1>6. RefreshOf(s)'
  BY <1>2, <1>3 DEF RefreshOf
<1>7. RestoreOf(s)'
  BY <1>2, <1>3 DEF RestoreOf
<1> QED BY <1>4, <1>5, <1>6, <1>7, HeldFacts, RowFrame, HomeFrame DEF Kept

(* A restore begins. *)
LEMMA KeptStartRestore ==
  ASSUME NEW s \in Session, At(s), StartRestore, ~taken' PROVE Kept(s)'
<1>1. /\ refresh = Idle /\ restore = Idle /\ state' = "restoring" /\ restore' = Starting(store)
      /\ UNCHANGED <<web, srv, cookie, store, refresh, logout, adopt, caller>>
  BY DEF StartRestore, server
<1>2. \A c \in Caller : caller[c].pc # "join"
  BY <1>1 DEF StartRestore, Settled, Returns
<1>3. restore'.pc = "read" /\ restore'.snap = store /\ restore'.ans = "none"
  BY <1>1 DEF Starting, Idle
<1>4. restore' # Idle
  BY <1>3, IdleFields
<1>5. CallerOf(s)'
  BY <1>1, <1>2, HeldFacts DEF CallerOf
<1>6. StateOf(s)'
  BY <1>1, <1>2, HeldFacts, NotSignedOut DEF StateOf, Fresh
<1>7. RefreshOf(s)'
  BY <1>1, IdleFields DEF RefreshOf
<1>8. RestoreOf(s)'
  BY <1>1, <1>3, <1>4 DEF RestoreOf
<1> QED BY <1>1, <1>5, <1>6, <1>7, <1>8, HeldFacts, RowFrame, HomeFrame DEF Kept

(* The fields of a restore under way. *)
LEMMA RestoreTypes ==
  ASSUME NEW s \in Session, At(s)
  PROVE  /\ restore \in Op /\ restore.snap \in Stored /\ restore.snap.t \in MaybeToken
         /\ restore.snap.prev \in MaybeToken /\ restore.snap.req \in ReqId /\ restore.got \in MaybeToken
         /\ store \in Stored
  BY HeldFacts, Fields DEF TypeOK

(* A restore reads what is stored. *)
LEMMA KeptReadStored ==
  ASSUME NEW s \in Session, At(s), ReadStored PROVE Kept(s)'
<1>1. /\ restore.pc = "read" /\ restore # Idle /\ restore.snap = store /\ restore.ans = "none"
      /\ UNCHANGED <<web, srv, cookie, refresh, logout, adopt, caller>>
  BY HeldFacts, IdleFields DEF ReadStored, RestoreOf, server, Restoring
<1>2. CASE store = Empty
  <2>1. web
    BY <1>2, HeldFacts, SessionToken, StoredFields, Basic DEF Home, Leading, Empty
  <2>2. restore' = [restore EXCEPT !.pc = "browser"] /\ UNCHANGED <<store, state, ident>>
    BY <1>1, <1>2, <2>1 DEF ReadStored
  <2>3. restore'.pc = "browser" /\ restore'.ans = "none"
    BY <1>1, <2>2, RestoreTypes DEF Op
  <2>4. RestoreOf(s)'
    BY <1>1, <2>1, <2>3 DEF RestoreOf
  <2> QED BY <1>1, <1>2, <2>2, <2>3, <2>4, IdleFields, HeldFacts, RowFrame, HomeFrame, RestoreGoesOn
<1>3. CASE store # Empty
  <2>1. /\ restore' = [restore EXCEPT !.pc = IF restore.snap.prev = NoToken THEN "session" ELSE "pending"]
        /\ UNCHANGED <<store, state, ident>>
    BY <1>1, <1>3 DEF ReadStored
  <2>2. /\ restore'.pc = (IF restore.snap.prev = NoToken THEN "session" ELSE "pending")
        /\ restore'.snap = restore.snap /\ restore'.ans = "none"
    BY <1>1, <2>1, RestoreTypes DEF Op
  <2>3. RestoreOf(s)'
    BY <1>1, <1>3, <2>1, <2>2 DEF RestoreOf
  <2>4. restore' # Idle
    BY <2>2, IdleFields
  <2> QED BY <1>1, <1>3, <2>1, <2>3, <2>4, HeldFacts, RowFrame, HomeFrame, RestoreGoesOn
<1> QED BY <1>2, <1>3

(* A restore asks Identity for the session. *)
LEMMA KeptAskSession ==
  ASSUME NEW s \in Session, At(s), AskSession PROVE Kept(s)'
<1>1. PICK a \in SessionAnswer(restore.snap.t) : restore' = [restore EXCEPT !.ans = a]
  BY DEF AskSession
<1>2. /\ restore.pc \in {"session", "pending"} /\ restore.snap = store
      /\ UNCHANGED <<web, srv, cookie, store, tokens, state, ident, refresh, logout, adopt, caller>>
  BY HeldFacts DEF AskSession, RestoreOf, server, memory, Restoring
<1>3. restore'.pc = restore.pc /\ restore'.snap = restore.snap /\ restore'.ans = a
  BY <1>1, RestoreTypes DEF Op
<1>4. restore.pc = "pending" /\ ~web /\ a = "ok" => restore.snap.t.g = srv[s].gen
  BY <1>2, HeldFacts DEF SessionAnswer, Resolves, Home, Leading
<1>5. RestoreOf(s)'
  BY <1>2, <1>3, <1>4, HeldFacts DEF RestoreOf
<1> QED BY <1>2, <1>3, <1>5, IdleFields, HeldFacts, RowFrame, HomeFrame, RestoreGoesOn

(* A restore takes the answer about the session. *)
LEMMA KeptEndSession ==
  ASSUME NEW s \in Session, At(s), EndSession PROVE Kept(s)'
<1>1. /\ restore.pc = "session" /\ restore # Idle /\ restore.snap = store
      /\ store # Empty /\ store.prev = NoToken /\ store.t.s = s
      /\ UNCHANGED <<web, srv, cookie, logout, adopt, caller>>
  BY HeldFacts, IdleFields DEF EndSession, RestoreOf, Home, server, Restoring
<1>2. store = Plain(store.t) /\ store.t # NoToken
  <2>1. store.req = 0
    BY <1>1, HeldFacts DEF Home
  <2>2. store = Plain(store.t)
    BY <1>1, <2>1, RestoreTypes DEF Stored, Plain
  <2> QED BY <1>1, <2>2, SessionToken
<1>3. CASE /\ state' = "authenticated" /\ ident' = restore.snap.t /\ restore' = Idle
           /\ UNCHANGED <<store, refresh>>
  BY <1>1, <1>3, RestoreShows
<1>4. CASE /\ StartRefresh(restore.snap.t, 0) /\ restore' = [Idle EXCEPT !.pc = "join"]
           /\ UNCHANGED <<store, memory>>
  BY <1>1, <1>2, <1>4, RestoreHandsOver DEF memory
<1>5. CASE Degrade(tokens) /\ restore' = Idle /\ UNCHANGED refresh
  BY <1>1, <1>5, HeldFacts, HomeFrame, RestoreEnds DEF Degrade
<1> QED BY <1>3, <1>4, <1>5 DEF EndSession

(* A restore takes the answer about a rotation it found pending. *)
LEMMA KeptEndPending ==
  ASSUME NEW s \in Session, At(s), EndPending PROVE Kept(s)'
<1>1. /\ restore.pc = "pending" /\ restore # Idle /\ restore.snap = store
      /\ store.prev # NoToken /\ store # Empty /\ store.t.s = s /\ store.t # NoToken
      /\ UNCHANGED <<web, srv, cookie, logout, adopt, caller>>
  BY HeldFacts, IdleFields, StoredSomething, SessionToken DEF EndPending, RestoreOf, Home, server, Restoring
<1>2. CASE /\ restore.ans = "ok" /\ store' = Plain(restore.snap.t)
           /\ restore' = [Idle EXCEPT !.pc = "keep", !.snap = restore.snap]
           /\ UNCHANGED <<memory, refresh>>
  <2>1. store'.t = store.t /\ store'.prev = NoToken /\ store'.req = 0 /\ store' # Empty
    BY <1>1, <1>2, StoredFields, RestoreTypes DEF Empty, Plain
  <2>2. restore'.pc = "keep" /\ restore'.snap = store
    BY <1>1, <1>2 DEF Idle
  <2>3. Home(s)'
    <3>1. ~web => Leading(s)'
      BY <1>1, <1>2, <2>1, HeldFacts DEF RestoreOf, Leading
    <3> QED BY <1>1, <2>1, <3>1, HeldFacts DEF Home, OneBehind
  <2>4. RestoreOf(s)'
    BY <1>1, <2>2 DEF RestoreOf
  <2> QED BY <1>1, <1>2, <2>1, <2>2, <2>3, <2>4, IdleFields, HeldFacts, RowFrame, RestoreGoesOn DEF memory
<1>3. CASE /\ StartRefresh(restore.snap.prev, restore.snap.req) /\ restore' = [Idle EXCEPT !.pc = "join"]
           /\ UNCHANGED <<store, state, ident>>
  <2>1. store.req # 0
    BY <1>1, HeldFacts DEF Home
  <2> QED BY <1>1, <1>3, <2>1, RestoreHandsOver
<1>4. CASE Degrade(tokens) /\ restore' = Idle /\ UNCHANGED refresh
  BY <1>1, <1>4, HeldFacts, HomeFrame, RestoreEnds DEF Degrade
<1> QED BY <1>2, <1>3, <1>4 DEF EndPending

(* A restore keeps the pending token that was accepted. *)
LEMMA KeptKeepPending ==
  ASSUME NEW s \in Session, At(s), KeepPending PROVE Kept(s)'
<1>1. /\ restore.pc = "keep" /\ restore # Idle /\ restore.snap.t.s = s /\ restore' = Idle
      /\ UNCHANGED <<web, srv, cookie, refresh, logout, adopt, caller>>
  BY HeldFacts, IdleFields DEF KeepPending, RestoreOf, server, Restoring
<1>2. CASE store = Plain(restore.snap.t) /\ Authenticate(restore.snap.t, restore.snap.t) /\ UNCHANGED store
  <2>1. store # Empty
    BY <1>1, <1>2, SessionToken DEF Empty, Plain
  <2> QED BY <1>1, <1>2, <2>1, RestoreShows DEF Authenticate
<1>3. CASE Degrade(tokens)
  BY <1>1, <1>3, HeldFacts, HomeFrame, RestoreEnds DEF Degrade
<1> QED BY <1>2, <1>3 DEF KeepPending

(* A restore takes the outcome of the refresh it started. *)
LEMMA KeptJoinRefresh ==
  ASSUME NEW s \in Session, At(s), JoinRefresh PROVE Kept(s)'
<1>1. /\ restore.pc = "join" /\ restore # Idle /\ refresh = Idle /\ restore' = Idle
      /\ UNCHANGED <<web, srv, cookie, store, tokens, state, ident, refresh, logout, adopt, caller>>
  BY IdleFields DEF JoinRefresh, server, memory, Restoring
<1>2. \A c \in Caller : caller[c].pc # "join"
  BY <1>1, HeldFacts DEF CallerOf
<1>3. CallerOf(s)'
  BY <1>1, HeldFacts DEF CallerOf
<1>4. StateOf(s)'
  BY <1>1, <1>2, HeldFacts DEF StateOf, Fresh
<1>5. RefreshOf(s)'
  BY <1>1, IdleFields DEF RefreshOf
<1>6. RestoreOf(s)'
  BY <1>1, IdleFields DEF RestoreOf
<1> QED BY <1>1, <1>3, <1>4, <1>5, <1>6, HeldFacts, RowFrame, HomeFrame DEF Kept

(* A restore that asks with the cookie is one of the browser. *)
LEMMA BrowserFacts ==
  ASSUME NEW s \in Session, At(s), restore.pc = "browser"
  PROVE  /\ web /\ restore # Idle /\ restore.ans \in {"none", "ok", "network"}
         /\ restore.ans = "ok" => Current(s, restore.got)
  BY HeldFacts, IdleFields DEF RestoreOf

(* Identity serves a restore of the browser. *)
LEMMA KeptServeBrowser ==
  ASSUME NEW s \in Session, At(s), ServeBrowser, srv'[s].st = "live" PROVE Kept(s)'
<1>1. /\ restore.pc = "browser" /\ Bounded(cookie) /\ srv' = Refreshed(cookie, CookieId)
      /\ restore' = [restore EXCEPT !.ans = RefreshAnswer(cookie, CookieId), !.got = Renewed(cookie, CookieId)]
      /\ UNCHANGED <<web, cookie, store, tokens, state, ident, refresh, logout, adopt, caller>>
  BY DEF ServeBrowser, memory, Restoring
<1>2. /\ cookie \in MaybeToken /\ CookieId \in ReqId /\ CookieId # 0
      /\ cookie.s = s /\ (cookie.g = srv[s].gen \/ (cookie.g + 1 = srv[s].gen /\ srv[s].by = CookieId))
  BY <1>1, BrowserFacts, HeldFacts, Basic, BoundsAssumption DEF TypeOK, CookieId, Home, OneBehind
<1>3. /\ RowGood(s)' /\ RefreshAnswer(cookie, CookieId) = "ok"
      /\ Renewed(cookie, CookieId) = [s |-> s, g |-> cookie.g + 1]
      /\ srv'[s].gen = cookie.g + 1 /\ srv'[s].by = CookieId /\ srv'[s].exp[cookie.g + 1] = "good"
      /\ \A g \in 0..MaxGen : srv[s].exp[g] = "good" => srv'[s].exp[g] = "good"
  BY <1>1, <1>2, Served, HeldFacts
<1>4. restore'.pc = "browser" /\ restore'.ans = "ok" /\ restore'.got.s = s /\ restore'.got.g = cookie.g + 1
  BY <1>1, <1>3, RestoreTypes DEF Op
<1>5. Home(s)'
  BY <1>1, <1>2, <1>3, BrowserFacts, HeldFacts DEF Home, OneBehind
<1>6. RestoreOf(s)'
  BY <1>1, <1>3, <1>4, BrowserFacts DEF RestoreOf, Current, Fresh
<1> QED BY <1>1, <1>3, <1>4, <1>5, <1>6, BrowserFacts, IdleFields, RestoreGoesOn

(* The answer to a restore of the browser is lost. *)
LEMMA KeptLoseBrowser ==
  ASSUME NEW s \in Session, At(s), LoseBrowser PROVE Kept(s)'
<1>1. /\ restore.pc = "browser" /\ restore' = [restore EXCEPT !.ans = "network", !.got = NoToken]
      /\ UNCHANGED <<web, srv, cookie, store, tokens, state, ident, refresh, logout, adopt, caller>>
  BY DEF LoseBrowser, server, memory, Restoring
<1>2. restore'.pc = "browser" /\ restore'.ans = "network"
  BY <1>1, RestoreTypes DEF Op
<1>3. RestoreOf(s)'
  BY <1>1, <1>2, BrowserFacts DEF RestoreOf
<1> QED BY <1>1, <1>2, <1>3, BrowserFacts, IdleFields, HeldFacts, RowFrame, HomeFrame, RestoreGoesOn

(* A restore of the browser takes its answer. *)
LEMMA KeptEndBrowser ==
  ASSUME NEW s \in Session, At(s), EndBrowser PROVE Kept(s)'
<1>1. /\ restore.pc = "browser" /\ cookie' = CookieAfter(restore.ans, restore.got)
      /\ restore.ans \in {"ok", "network"}
      /\ UNCHANGED <<web, srv, refresh, logout, adopt, caller>>
  BY BrowserFacts DEF EndBrowser, Restoring
<1>2. CASE restore.ans = "ok"
  <2>1. Current(s, restore.got) /\ restore.got # NoToken
    BY <1>1, <1>2, BrowserFacts, SessionToken DEF Current, Fresh
  <2>2. /\ store' = Plain(restore.got) /\ UNCHANGED memory
        /\ restore' = [Idle EXCEPT !.pc = "keep", !.snap = Plain(restore.got)]
    BY <1>2, HeldFacts DEF EndBrowser
  <2>3. store'.t = restore.got /\ store'.prev = NoToken /\ store'.req = 0 /\ store' # Empty
    BY <2>1, <2>2, StoredFields, RestoreTypes DEF Empty, Plain
  <2>4. restore'.pc = "keep" /\ restore'.snap.t = restore.got
    BY <2>2, <2>3 DEF Idle
  <2>5. cookie' = restore.got
    BY <1>1, <1>2, BrowserFacts DEF CookieAfter
  <2>6. Home(s)'
    BY <1>1, <2>1, <2>3, <2>5, BrowserFacts DEF Home, OneBehind, Current, Fresh
  <2>7. RestoreOf(s)'
    BY <2>1, <2>4 DEF RestoreOf, Current, Fresh
  <2> QED BY <1>1, <2>2, <2>3, <2>4, <2>6, <2>7, BrowserFacts, IdleFields, HeldFacts, RowFrame, RestoreGoesOn
          DEF memory
<1>3. CASE restore.ans = "network"
  <2>1. Degrade(tokens) /\ restore' = Idle /\ cookie' = cookie
    BY <1>1, <1>3, BrowserFacts DEF EndBrowser, CookieAfter
  <2> QED BY <1>1, <2>1, HeldFacts, HomeFrame, RestoreEnds DEF Degrade
<1> QED BY <1>1, <1>2, <1>3

----------------------------------------------------------------------------
(* The other steps. *)

(* A login ends. *)
LEMMA KeptAdoptPair ==
  ASSUME NEW s \in Session, At(s), AdoptPair PROVE Kept(s)'
<1>1. /\ adopt.pc = "keep" /\ adopt # Idle /\ Fresh(s, adopt.t) /\ adopt.t # NoToken /\ adopt' = Idle
      /\ UNCHANGED <<web, srv, cookie, store, refresh, restore, logout, caller>>
  BY HeldFacts, IdleFields, SessionToken DEF AdoptPair, StateOf, Fresh, server, Degrade
<1>2. CASE store = Plain(adopt.t) /\ Authenticate(adopt.t, adopt.t)
  <2>1. store # Empty
    BY <1>1, <1>2 DEF Empty, Plain
  <2>2. StateOf(s)'
    BY <1>1, <1>2, <2>1, HeldFacts, NotSignedOut DEF StateOf, Authenticate, Fresh
  <2> QED BY <1>1, <2>2, HeldFacts, RowFrame, HomeFrame, CallerFrame, RefreshFrame, RestoreFrame DEF Kept
<1>3. CASE Degrade(tokens)
  <2>1. StateOf(s)'
    BY <1>1, <1>3, HeldFacts, NotSignedOut DEF StateOf, Degrade
  <2> QED BY <1>1, <2>1, HeldFacts, RowFrame, HomeFrame, CallerFrame, RefreshFrame, RestoreFrame DEF Kept
<1> QED BY <1>2, <1>3 DEF AdoptPair

(* A token expires, or a rotation grows old. *)
LEMMA KeptTick ==
  ASSUME NEW s \in Session, At(s), NEW r \in Session, NEW g \in 0..MaxGen, Tick(r, g) PROVE Kept(s)'
<1>1. UNCHANGED <<web, cookie, store, tokens, state, ident, refresh, restore, logout, adopt, caller>>
  BY DEF Tick, memory
<1>2. srv \in [Session -> Row] /\ srv[s] \in Row
  BY HeldFacts DEF TypeOK
<1>3. CASE r # s
  <2>1. srv'[s] = srv[s]
    BY <1>2, <1>3 DEF Tick
  <2> QED BY <1>1, <2>1, HeldFacts, KeptFrame DEF Kept
<1>4. CASE r = s
  <2>1. /\ srv[s].exp \in [0..MaxGen -> Expiry] /\ srv[s].age \in [0..MaxGen -> Age] /\ srv[s].gen \in 0..MaxGen
        /\ MaxGen \in Nat
    BY <1>2, RowFields, BoundsAssumption
  <2>2. srv'[s].gen = srv[s].gen /\ srv'[s].by = srv[s].by
    BY <1>2, <1>4 DEF Tick, Row
  <2>3. CASE srv' = [srv EXCEPT ![s].exp[g] = "near"] /\ srv[s].exp[g] = "good" /\ Quiet
             /\ (g > 0 => srv[s].age[g - 1] = "old")
    <3>1. srv'[s].age = srv[s].age /\ srv'[s].exp = [srv[s].exp EXCEPT ![g] = "near"]
      BY <1>2, <2>3 DEF Row
    <3>2. RowGood(s)'
      BY <2>1, <2>2, <2>3, <3>1, HeldFacts DEF RowGood
    <3>3. Home(s)'
      BY <1>1, <2>2, HeldFacts DEF Home, Leading, OneBehind
    <3>4. refresh = Idle /\ restore = Idle /\ adopt = Idle /\ \A c \in Caller : caller[c].pc = "idle"
      BY <2>3, IdleFields DEF Quiet
    <3>5. StateOf(s)'
      BY <1>1, <3>4, HeldFacts DEF StateOf
    <3>6. RefreshOf(s)' /\ RestoreOf(s)'
      BY <1>1, <3>4, IdleFields DEF RefreshOf, RestoreOf
    <3> QED BY <1>1, <3>2, <3>3, <3>5, <3>6, HeldFacts, CallerFrame DEF Kept
  <2>4. ASSUME RowGood(s)', \A i \in 0..MaxGen : srv[s].exp[i] = "good" => srv'[s].exp[i] = "good"
        PROVE  Kept(s)'
    <3>1. /\ ident.g \in 0..MaxGen /\ adopt.t.g \in 0..MaxGen /\ refresh.got.g \in 0..MaxGen
          /\ restore.got.g \in 0..MaxGen
      BY HeldFacts, Fields, Tokens DEF TypeOK
    <3>2. Home(s)'
      BY <1>1, <2>2, HeldFacts DEF Home, Leading, OneBehind
    <3>3. StateOf(s)'
      BY <1>1, <2>4, <3>1, HeldFacts DEF StateOf, Fresh
    <3>4. RefreshOf(s)'
      BY <1>1, <2>2, <2>4, <3>1, HeldFacts DEF RefreshOf, Current, Fresh
    <3>5. RestoreOf(s)'
      BY <1>1, <2>2, <2>4, <3>1, HeldFacts DEF RestoreOf, Current, Fresh
    <3> QED BY <1>1, <2>4, <3>2, <3>3, <3>4, <3>5, HeldFacts, CallerFrame DEF Kept
  <2>5. CASE srv' = [srv EXCEPT ![s].exp[g] = "expired"] /\ srv[s].exp[g] = "near"
    <3>1. srv'[s].age = srv[s].age /\ srv'[s].exp = [srv[s].exp EXCEPT ![g] = "expired"]
      BY <1>2, <2>5 DEF Row
    <3>2. RowGood(s)'
      BY <2>1, <2>2, <2>5, <3>1, HeldFacts DEF RowGood
    <3> QED BY <2>1, <2>4, <2>5, <3>1, <3>2
  <2>6. CASE srv' = [srv EXCEPT ![s].age[g] = "recent"] /\ srv[s].age[g] = "fresh"
    <3>1. srv'[s].exp = srv[s].exp /\ srv'[s].age = [srv[s].age EXCEPT ![g] = "recent"]
      BY <1>2, <2>6 DEF Row
    <3>2. RowGood(s)'
      BY <2>1, <2>2, <2>6, <3>1, HeldFacts DEF RowGood
    <3> QED BY <2>4, <3>1, <3>2
  <2>7. CASE srv' = [srv EXCEPT ![s].age[g] = "old"]
    <3>1. srv'[s].exp = srv[s].exp /\ srv'[s].age = [srv[s].age EXCEPT ![g] = "old"]
      BY <1>2, <2>7 DEF Row
    <3>2. RowGood(s)'
      BY <2>1, <2>2, <3>1, HeldFacts DEF RowGood
    <3> QED BY <2>4, <3>1, <3>2
  <2> QED BY <1>4, <2>3, <2>5, <2>6, <2>7 DEF Tick
<1> QED BY <1>3, <1>4

(* The process of the device is restarted. *)
LEMMA KeptRestart ==
  ASSUME NEW s \in Session, At(s), Restart PROVE Kept(s)'
<1>1. /\ state' = "restoring" /\ refresh' = Idle /\ logout' = Idle /\ adopt' = Idle
      /\ restore' = Starting(store') /\ store' = (IF web THEN Empty ELSE store)
      /\ \A c \in Caller : caller'[c].pc = "idle"
      /\ UNCHANGED <<web, srv, cookie>>
  BY IdleFields DEF Restart, server
<1>2. restore'.pc = "read" /\ restore'.snap = store' /\ restore'.ans = "none"
  BY <1>1 DEF Starting, Idle
<1>3. Home(s)'
  <2>1. Empty.prev = NoToken /\ Empty.req = 0
    BY DEF Empty, Plain
  <2> QED BY <1>1, <2>1, HeldFacts DEF Home, Leading, OneBehind
<1>4. StateOf(s)'
  BY <1>1, NotSignedOut DEF StateOf
<1>5. CallerOf(s)'
  BY <1>1 DEF CallerOf
<1>6. RefreshOf(s)'
  BY <1>1, IdleFields DEF RefreshOf
<1>7. RestoreOf(s)'
  BY <1>2, IdleFields DEF RestoreOf
<1> QED BY <1>1, <1>3, <1>4, <1>5, <1>6, <1>7, HeldFacts, RowFrame DEF Kept

(* A login finds no session to protect. *)
LEMMA NoneHeld ==
  ASSUME NEW r \in Session, Login(r), \A s \in Held : Kept(s) PROVE Held = {}
  BY IdleFields DEF Login, Kept, StateOf

(* The answer of a login: what it stores is the session to protect, with
   everything else at rest. *)
LEMMA KeptKeepLogin ==
  ASSUME TypeOK, ~taken, Waiting, KeepLogin, NEW s \in Held' PROVE Kept(s)'
<1>1. /\ adopt.pc = "sent" /\ adopt \in Op /\ adopt # Idle /\ adopt.t \in Token /\ Held = {}
  BY IdleFields DEF KeepLogin, Waiting, TypeOK
<1>2. UNCHANGED <<web, srv, refresh, restore, logout, caller>> /\ cookie' = IF web THEN adopt.t ELSE cookie
  BY DEF KeepLogin
<1>3. s \notin owned /\ s \in owned'
  BY <1>1, <1>2 DEF Held, Live
<1>4. /\ store' = Plain(adopt.t) /\ adopt' = [adopt EXCEPT !.pc = "keep"]
      /\ s = adopt.t.s /\ UNCHANGED <<tokens, state, ident>>
  BY <1>3 DEF KeepLogin, memory
<1>5. /\ refresh = Idle /\ restore = Idle /\ logout = Idle /\ \A c \in Caller : caller[c].pc = "idle"
      /\ state \in SignedOut /\ adopt.t.g = 0 /\ srv[s].gen = 0 /\ srv[s].exp[0] = "good"
  BY <1>1, <1>4, IdleFields DEF Waiting
<1>6. RowGood(s)'
  BY <1>2, <1>5 DEF RowGood
<1>7. store'.t = adopt.t /\ store'.prev = NoToken /\ store'.req = 0
  BY <1>4 DEF Plain
<1>8. Home(s)'
  BY <1>2, <1>4, <1>5, <1>7 DEF Home, Leading, OneBehind
<1>9. adopt'.pc = "keep" /\ adopt'.t = adopt.t
  BY <1>1, <1>4 DEF Op
<1>10. StateOf(s)'
  BY <1>2, <1>4, <1>5, <1>9, NotSignedOut DEF StateOf, Fresh
<1>11. CallerOf(s)'
  BY <1>2, <1>5 DEF CallerOf
<1>12. RefreshOf(s)' /\ RestoreOf(s)'
  BY <1>2, <1>5, IdleFields DEF RefreshOf, RestoreOf
<1> QED BY <1>6, <1>8, <1>10, <1>11, <1>12 DEF Kept

----------------------------------------------------------------------------
(* What a step does to the row of a session. *)

(* What serving a refresh does to one row. *)
LEMMA RefreshedRow ==
  ASSUME TypeOK, NEW t \in MaybeToken, NEW id \in ReqId, NEW s \in Session, srv' = Refreshed(t, id)
  PROVE  \/ srv'[s] = srv[s]
         \/ srv[s].st = "live" /\ srv'[s].st = "live"
         \/ /\ srv[s].st = "live" /\ srv'[s].st = "compromised" /\ t.s = s /\ IsReuse(t, id)
            /\ srv'[s].age = srv[s].age
<1>1. srv \in [Session -> Row] /\ srv[s] \in Row
  BY DEF TypeOK
<1>2. CASE CanRotate(t)
  <2> DEFINE q == [srv[t.s] EXCEPT !.gen = t.g + 1, !.by = id, !.age[t.g] = "fresh", !.exp[t.g + 1] = "good"]
  <2>1. t.s \in Session /\ srv[t.s].st = "live" /\ srv[t.s] \in Row
    BY <1>1, <1>2, Tokens DEF CanRotate
  <2>2. q.st = srv[t.s].st
    BY <2>1 DEF Row
  <2>3. srv' = [srv EXCEPT ![t.s] = q]
    BY <1>2 DEF Refreshed
  <2> HIDE DEF q
  <2>4. CASE t.s = s
    BY <1>1, <2>1, <2>2, <2>3, <2>4
  <2>5. CASE t.s # s
    BY <1>1, <2>3, <2>5
  <2> QED BY <2>4, <2>5
<1>3. CASE ~CanRotate(t) /\ IsReuse(t, id)
  <2>1. t.s \in Session /\ srv[t.s].st = "live"
    BY <1>3, Tokens DEF IsReuse
  <2>2. srv' = [srv EXCEPT ![t.s] = [srv[t.s] EXCEPT !.st = "compromised"]]
    BY <1>3 DEF Refreshed
  <2>3. CASE t.s = s
    <3>1. srv'[s] = [srv[s] EXCEPT !.st = "compromised"]
      BY <1>1, <2>2, <2>3
    <3> QED BY <1>1, <1>3, <2>1, <2>3, <3>1 DEF Row
  <2>4. CASE t.s # s
    BY <1>1, <2>2, <2>4
  <2> QED BY <2>3, <2>4
<1>4. CASE ~CanRotate(t) /\ ~IsReuse(t, id)
  BY <1>4 DEF Refreshed
<1> QED BY <1>2, <1>3, <1>4

(* A row that is not live stays as it is; a live one stays live, is revoked,
   or is taken for stolen by one of the three requests that refresh. *)
Stolen(s, t, id) ==
  /\ srv[s].st = "live" /\ srv'[s].st = "compromised" /\ t.s = s /\ IsReuse(t, id)
  /\ srv'[s].age = srv[s].age

(* What a step can do to a row. *)
RowStep(s) ==
  \/ srv'[s] = srv[s]
  \/ srv[s].st = "live" /\ srv'[s].st \in {"live", "revoked"}
  \/ ServeRefresh /\ Stolen(s, Sent(refresh.t), SentId(refresh.req))
  \/ ServeBrowser /\ Stolen(s, cookie, CookieId)
  \/ ServeRenew /\ Stolen(s, logout.t, logout.req)

(* A revoked row is revoked. *)
LEMMA RevokedRow ==
  ASSUME NEW r \in Row PROVE [r EXCEPT !.st = "revoked"].st = "revoked"
  BY DEF Row

(* Every step but the login of the session does one of these to its row. *)
LEMMA RowSteps ==
  ASSUME TypeOK, [Next]_vars, NEW s \in Session, ~Login(s) PROVE RowStep(s)
<1>1. srv \in [Session -> Row] /\ srv[s] \in Row /\ cookie \in MaybeToken
  BY DEF TypeOK
<1>2. CASE ServeRefresh
  <2> DEFINE t == Sent(refresh.t)
             id == SentId(refresh.req)
  <2>1. t \in MaybeToken /\ id \in ReqId
    BY <1>1, Fields, Basic DEF Sent, SentId
  <2>2. srv' = Refreshed(t, id)
    BY <1>2 DEF ServeRefresh
  <2> HIDE DEF t, id
  <2>3. srv'[s] = srv[s] \/ (srv[s].st = "live" /\ srv'[s].st = "live") \/ Stolen(s, t, id)
    BY <2>1, <2>2, RefreshedRow DEF Stolen
  <2> QED BY <1>2, <2>3 DEF RowStep, t, id
<1>3. CASE ServeBrowser
  <2>1. srv' = Refreshed(cookie, CookieId) /\ CookieId \in ReqId
    BY <1>3, Basic DEF ServeBrowser
  <2>2. srv'[s] = srv[s] \/ (srv[s].st = "live" /\ srv'[s].st = "live") \/ Stolen(s, cookie, CookieId)
    BY <1>1, <2>1, RefreshedRow DEF Stolen
  <2> QED BY <1>3, <2>2 DEF RowStep
<1>4. CASE ServeRenew
  <2>1. srv' = Refreshed(logout.t, logout.req) /\ logout.t \in MaybeToken /\ logout.req \in ReqId
    BY <1>4, Fields DEF ServeRenew
  <2>2. srv'[s] = srv[s] \/ (srv[s].st = "live" /\ srv'[s].st = "live") \/ Stolen(s, logout.t, logout.req)
    BY <2>1, RefreshedRow DEF Stolen
  <2> QED BY <1>4, <2>2 DEF RowStep
<1>5. CASE ServeLogout
  <2>1. PICK t : srv' = LoggedOut(t)
    BY <1>5 DEF ServeLogout
  <2>2. CASE srv' = srv
    BY <2>2 DEF RowStep
  <2>3. CASE srv' # srv
    <3>1. srv[t.s].st = "live" /\ srv' = [srv EXCEPT ![t.s].st = "revoked"]
      BY <2>1, <2>3 DEF LoggedOut
    <3>2. t.s = s => srv'[s] = [srv[s] EXCEPT !.st = "revoked"]
      BY <1>1, <3>1
    <3>3. t.s # s => srv'[s] = srv[s]
      BY <1>1, <3>1
    <3> QED BY <1>1, <3>1, <3>2, <3>3, RevokedRow DEF RowStep
  <2> QED BY <2>2, <2>3
<1>6. CASE ServeWebLogout
  <2> DEFINE bearer == IF Resolves(logout.t) THEN {logout.t.s} ELSE {}
             jar == IF cookie # NoToken /\ srv[cookie.s].st = "live" /\ ~IsStale(cookie, CookieId)
                    THEN {cookie.s} ELSE {}
  <2>1. srv'[s] = IF s \in bearer \union jar THEN [srv[s] EXCEPT !.st = "revoked"] ELSE srv[s]
    BY <1>6 DEF ServeWebLogout
  <2>2. s \in bearer \union jar => srv[s].st = "live"
    BY DEF Resolves
  <2> QED BY <1>1, <2>1, <2>2, RevokedRow DEF RowStep
<1>7. CASE Recover
  BY <1>1, <1>7, RevokedRow DEF Recover, RowStep
<1>8. ASSUME NEW r \in Session, Login(r) \/ Revoke(r) PROVE RowStep(s)
  <2>1. CASE r = s
    <3>1. srv[s].st = "live" /\ srv'[s] = [srv[s] EXCEPT !.st = "revoked"]
      BY <1>1, <1>8, <2>1 DEF Revoke
    <3> QED BY <1>1, <3>1, RevokedRow DEF RowStep
  <2>2. CASE r # s
    BY <1>1, <1>8, <2>2 DEF Login, Revoke, RowStep
  <2> QED BY <2>1, <2>2
<1>9. ASSUME NEW r \in Session, NEW g \in 0..MaxGen, Tick(r, g) PROVE RowStep(s)
  <2>1. CASE r = s
    <3>1. srv[s].st = "live"
      BY <1>9, <2>1 DEF Tick
    <3>2. \/ \E e : srv' = [srv EXCEPT ![s].exp[g] = e]
          \/ \E a : srv' = [srv EXCEPT ![s].age[g] = a]
      BY <1>9, <2>1 DEF Tick
    <3>3. srv'[s].st = srv[s].st
      BY <1>1, <3>2 DEF Row
    <3> QED BY <3>1, <3>3 DEF RowStep
  <2>2. CASE r # s
    BY <1>1, <1>9, <2>2 DEF Tick, RowStep
  <2> QED BY <2>1, <2>2
<1>10. CASE srv' = srv
  BY <1>10 DEF RowStep
<1>11. RefreshStep \/ RestoreStep \/ LogoutStep \/ StartRestore \/ LoseLogin \/ KeepLogin \/ AdoptPair
        \/ StartLogout \/ Restart => srv' = srv
  BY DEF RefreshStep, RestoreStep, LogoutStep, StartRestore, LoseLogin, KeepLogin, AdoptPair, StartLogout, Restart, PrepareRefresh,
     SendRefresh, LoseRefresh, AnswerRefresh, KeepRefreshed, AdoptRefreshed, RecheckConflict, AskConflict,
     EndConflict, ReadStored, AskSession, EndSession, EndPending, KeepPending, JoinRefresh, LoseBrowser,
     EndBrowser, RenewToEnd, EndRenewed, LoseLogout, EndLogout, WaitToEnd, EndWebLogout, server
<1>12. \A c \in Caller : CallRefresh(c) \/ ContinueRefresh(c) \/ EndRefresh(c) => srv' = srv
  BY DEF CallRefresh, ContinueRefresh, EndRefresh, server
<1> QED BY <1>2, <1>3, <1>4, <1>5, <1>6, <1>7, <1>8, <1>9, <1>10, <1>11, <1>12 DEF Next, vars

(* Only the answer of a login makes a session one the app has taken up, and
   what overlapped is never taken back. *)
NothingForgotten == (KeepLogin \/ owned' \subseteq owned) /\ (taken => taken')

(* Every step keeps both. *)
LEMMA Histories == ASSUME TypeOK, [Next]_vars PROVE NothingForgotten
<1>1. owned' = owned /\ taken' = taken => NothingForgotten
  <2>1. owned' = owned => owned' \subseteq owned
    BY SMT
  <2>2. taken' = taken => (taken => taken')
    BY SMT
  <2> QED BY <2>1, <2>2, Zenon DEF NothingForgotten
<1>2. CASE RefreshStep \/ ServeRefresh \/ RestoreStep \/ ServeBrowser
  <2> owned' = owned /\ taken' = taken
    BY <1>2 DEF RefreshStep, RestoreStep, ServeRefresh, ServeBrowser, PrepareRefresh,
       SendRefresh, LoseRefresh, AnswerRefresh, KeepRefreshed, AdoptRefreshed, RecheckConflict, AskConflict,
       EndConflict, ReadStored, AskSession, EndSession, EndPending, KeepPending, JoinRefresh, LoseBrowser,
       EndBrowser, Others, Restoring
  <2> QED BY <1>1
<1>3. CASE LogoutStep \/ ServeLogout \/ ServeRenew \/ ServeWebLogout
  <2> owned' = owned /\ taken' = taken
    BY <1>3 DEF LogoutStep, RenewToEnd, EndRenewed, LoseLogout, EndLogout, WaitToEnd, EndWebLogout,
       ServeLogout, ServeRenew, ServeWebLogout, Ending, count
  <2> QED BY <1>1
<1>4. CASE LoseLogin \/ AdoptPair \/ StartLogout \/ Recover \/ Restart
  <2>1. owned' \subseteq owned /\ taken' = taken
    BY <1>4 DEF LoseLogin, AdoptPair, StartLogout, Recover, Restart, count
  <2> QED BY <2>1, Zenon DEF NothingForgotten
<1>5. CASE StartRestore
  <2>1. owned' = owned /\ (taken => taken')
    BY <1>5, Zenon DEF StartRestore
  <2> QED BY <2>1, Zenon DEF NothingForgotten
<1>6. ASSUME NEW s \in Session, Revoke(s) \/ \E g \in 0..MaxGen : Tick(s, g) PROVE NothingForgotten
  <2> owned' = owned /\ taken' = taken
    BY <1>6 DEF Revoke, Tick, count
  <2> QED BY <1>1
<1>11. CASE KeepLogin
  <2>1. taken' = taken
    BY <1>11, Zenon DEF KeepLogin
  <2> QED BY <1>11, <2>1, Zenon DEF NothingForgotten
<1>7. ASSUME NEW s \in Session, Login(s) PROVE NothingForgotten
  <2>1. owned' = owned /\ (taken => taken')
    BY <1>7, Zenon DEF Login
  <2> QED BY <2>1, Zenon DEF NothingForgotten
<1>8. ASSUME NEW c \in Caller, CallRefresh(c) \/ EndRefresh(c) PROVE NothingForgotten
  <2> owned' = owned /\ taken' = taken
    BY <1>8 DEF CallRefresh, EndRefresh, count
  <2> QED BY <1>1
<1>9. ASSUME NEW c \in Caller, ContinueRefresh(c) PROVE NothingForgotten
  <2>1. owned' = owned /\ (taken => taken')
    BY <1>9, Zenon DEF ContinueRefresh
  <2> QED BY <2>1, Zenon DEF NothingForgotten
<1>10. CASE UNCHANGED vars
  <2> owned' = owned /\ taken' = taken
    BY <1>10 DEF vars
  <2> QED BY <1>1
<1> QED BY <1>2, <1>3, <1>4, <1>5, <1>6, <1>7, <1>8, <1>9, <1>10, <1>11 DEF Next

(* A step leaves created what was created. *)
LEMMA CreatedStep ==
  ASSUME TypeOK, Created, Waiting, [Next]_vars PROVE Created'
<1> SUFFICES ASSUME NEW s \in owned' PROVE srv'[s].st # "none"
  BY DEF Created
<1>1. s \in Session
  BY TypeStep DEF TypeOK
<1>2. srv[s].st # "none"
  <2>1. CASE KeepLogin
    BY <2>1 DEF KeepLogin, Waiting, Created
  <2>2. CASE ~KeepLogin
    BY <2>2, Histories DEF NothingForgotten, Created
  <2> QED BY <2>1, <2>2
<1>3. ~Login(s)
  BY <1>2 DEF Login
<1> QED BY <1>1, <1>2, <1>3, RowSteps DEF RowStep, Stolen

(* Only the steps of a login and a restart touch the login. *)
LEMMA AdoptAlone ==
  ASSUME [Next]_vars, \A r \in Session : ~Login(r), ~LoseLogin, ~KeepLogin, ~AdoptPair, ~Restart
  PROVE  adopt' = adopt
<1>1. RefreshStep \/ ServeRefresh => adopt' = adopt
  BY DEF RefreshStep, ServeRefresh, PrepareRefresh, SendRefresh, LoseRefresh, AnswerRefresh,
     KeepRefreshed, AdoptRefreshed, RecheckConflict, AskConflict, EndConflict, Others
<1>2. StartRestore \/ RestoreStep \/ ServeBrowser => adopt' = adopt
  BY DEF StartRestore, RestoreStep, ServeBrowser, ReadStored, AskSession, EndSession, EndPending, KeepPending,
     JoinRefresh, LoseBrowser, EndBrowser, Restoring
<1>3. StartLogout \/ LogoutStep \/ ServeLogout \/ ServeRenew \/ ServeWebLogout \/ Recover => adopt' = adopt
  BY DEF StartLogout, LogoutStep, RenewToEnd, EndRenewed, LoseLogout, EndLogout, WaitToEnd, EndWebLogout,
     ServeLogout, ServeRenew, ServeWebLogout, Recover, Ending
<1>4. \A c \in Caller : CallRefresh(c) \/ ContinueRefresh(c) \/ EndRefresh(c) => adopt' = adopt
  BY DEF CallRefresh, ContinueRefresh, EndRefresh
<1>5. \A r \in Session : Revoke(r) \/ (\E g \in 0..MaxGen : Tick(r, g)) => adopt' = adopt
  BY DEF Revoke, Tick
<1>6. UNCHANGED vars => adopt' = adopt
  BY DEF vars
<1> QED BY <1>1, <1>2, <1>3, <1>4, <1>5, <1>6 DEF Next

(* While the answer of a login is awaited nothing else begins. *)
LEMMA WaitingStep ==
  ASSUME TypeOK, Created, Waiting, \A s \in Held : Kept(s), [Next]_vars, ~taken, ~taken'
  PROVE  Waiting'
<1> SUFFICES ASSUME adopt'.pc = "sent" PROVE Waiting'
  BY DEF Waiting
<1>1. ASSUME NEW r \in Session, Login(r) PROVE Waiting'
  <2>1. Held = {} /\ srv[r].st = "none" /\ Quiet /\ state \in SignedOut
    BY <1>1, NoneHeld DEF Login
  <2>2. srv' = [srv EXCEPT ![r] = NewRow] /\ srv \in [Session -> Row]
        /\ UNCHANGED <<state, refresh, restore, logout, caller, owned>>
    BY <1>1 DEF Login, TypeOK, memory
  <2>3. Held' = {}
    BY <2>1, <2>2 DEF Held, Live, Created
  <2>4. adopt'.t = [s |-> r, g |-> 0]
    BY <1>1 DEF Login, Idle
  <2>5. srv'[r] = NewRow
    BY <2>2
  <2>6. srv'[r].gen = 0 /\ srv'[r].exp[0] = "good" /\ srv'[r].st = "live"
    BY <2>5, BoundsAssumption DEF NewRow
  <2> QED BY <2>1, <2>2, <2>3, <2>4, <2>6 DEF Waiting, Quiet
<1>2. CASE \A r \in Session : ~Login(r)
  <2>1. ~LoseLogin /\ ~KeepLogin /\ ~AdoptPair /\ ~Restart
    BY IdleFields DEF LoseLogin, KeepLogin, AdoptPair, Restart, TypeOK, Op
  <2>2. adopt' = adopt
    BY <1>2, <2>1, AdoptAlone
  <2>3. /\ Held = {} /\ state \in SignedOut /\ adopt # Idle
        /\ refresh = Idle /\ restore = Idle /\ logout = Idle /\ \A c \in Caller : caller[c] = Idle
        /\ adopt.t.g = 0 /\ srv[adopt.t.s].gen = 0 /\ srv[adopt.t.s].exp[0] = "good"
        /\ srv[adopt.t.s].st \in {"live", "revoked"} /\ adopt.t.s \in Session
    BY <2>2, IdleFields DEF Waiting, TypeOK, Token
  <2> DEFINE k == adopt.t.s
  <2>4. srv \in [Session -> Row] /\ srv[k] \in Row
    BY <2>3 DEF TypeOK
  <2>5. Held' = {}
    <3>1. owned' \subseteq owned
      BY <2>1, Histories DEF NothingForgotten
    <3>2. \A s \in Session : srv'[s].st = "live" => srv[s].st = "live"
      BY <1>2, RowSteps DEF RowStep, Stolen
    <3> QED BY <2>3, <3>1, <3>2 DEF Held, Live
  <2>6. ~RefreshStep /\ ~ServeRefresh
    BY <2>3, IdleFields DEF RefreshStep, ServeRefresh, PrepareRefresh, SendRefresh, LoseRefresh, AnswerRefresh,
       KeepRefreshed, AdoptRefreshed, RecheckConflict, AskConflict, EndConflict
  <2>7. ~RestoreStep /\ ~ServeBrowser
    BY <2>3, IdleFields DEF RestoreStep, ServeBrowser, ReadStored, AskSession, EndSession, EndPending, KeepPending,
       JoinRefresh, LoseBrowser, EndBrowser
  <2>8. ~StartRestore
    BY <2>2 DEF StartRestore
  <2>9. ~LogoutStep /\ ~ServeLogout /\ ~ServeRenew /\ ~ServeWebLogout
    BY <2>3, IdleFields DEF LogoutStep, RenewToEnd, EndRenewed, LoseLogout, EndLogout, WaitToEnd, EndWebLogout,
       ServeLogout, ServeRenew, ServeWebLogout
  <2>10. ~StartLogout /\ \A c \in Caller : ~CallRefresh(c)
    BY <2>3, NotSignedOut DEF StartLogout, CallRefresh
  <2>11. \A c \in Caller : ~ContinueRefresh(c) /\ ~EndRefresh(c)
    BY <2>3, IdleFields DEF ContinueRefresh, EndRefresh, Returns
  <2>12. ASSUME /\ UNCHANGED <<refresh, restore, logout, caller>> /\ state' \in SignedOut
                /\ srv'[k].gen = 0 /\ srv'[k].exp[0] = "good" /\ srv'[k].st \in {"live", "revoked"}
         PROVE  Waiting'
    BY <2>2, <2>3, <2>5, <2>12 DEF Waiting
  <2>13. [srv[k] EXCEPT !.st = "revoked"].gen = srv[k].gen /\ [srv[k] EXCEPT !.st = "revoked"].exp = srv[k].exp
         /\ [srv[k] EXCEPT !.st = "revoked"].st = "revoked"
    BY <2>4 DEF Row
  <2>14. ASSUME NEW r \in Session, Revoke(r) PROVE Waiting'
    <3>1. srv'[k] = srv[k] \/ srv'[k] = [srv[k] EXCEPT !.st = "revoked"]
      BY <2>3, <2>4, <2>14 DEF Revoke
    <3>2. UNCHANGED <<state, refresh, restore, logout, caller>>
      BY <2>14 DEF Revoke, memory
    <3> QED BY <2>3, <2>12, <2>13, <3>1, <3>2
  <2>15. CASE Recover
    <3>1. srv'[k] = srv[k] \/ srv'[k] = [srv[k] EXCEPT !.st = "revoked"]
      BY <2>3, <2>4, <2>15 DEF Recover
    <3>2. UNCHANGED <<refresh, restore, logout, caller>> /\ state' \in SignedOut
      BY <2>15 DEF Recover, SignOut, SignedOut
    <3> QED BY <2>3, <2>12, <2>13, <3>1, <3>2
  <2>16. ASSUME NEW r \in Session, NEW g \in 0..MaxGen, Tick(r, g) PROVE Waiting'
    <3>1. r # k
      BY <2>3, <2>16, BoundsAssumption DEF Tick, Quiet
    <3>2. srv'[k] = srv[k]
      BY <2>3, <2>4, <2>16, <3>1 DEF Tick
    <3>3. UNCHANGED <<state, refresh, restore, logout, caller>>
      BY <2>16 DEF Tick, memory
    <3> QED BY <2>3, <2>12, <3>2, <3>3
  <2>17. CASE UNCHANGED vars
    BY <2>3, <2>12, <2>17 DEF vars
  <2> QED BY <1>2, <2>1, <2>6, <2>7, <2>8, <2>9, <2>10, <2>11, <2>14, <2>15, <2>16, <2>17 DEF Next
<1> QED BY <1>1, <1>2

(* Every step keeps the invariant: one lemma above for each action that can
   disturb it; the others cannot happen to a session held. *)
LEMMA KeptStep == TypeOK /\ KeptInv /\ [Next]_vars => KeptInv'
<1> SUFFICES ASSUME TypeOK, KeptInv, [Next]_vars, ~taken' PROVE KeptInv'
  BY DEF KeptInv
<1>2. ~taken /\ Created /\ Waiting /\ \A r \in Held : Kept(r)
  BY Histories DEF NothingForgotten, KeptInv
<1>5. Created' /\ Waiting'
  BY <1>2, CreatedStep, WaitingStep
<1> SUFFICES ASSUME NEW s \in Held' PROVE Kept(s)'
  BY <1>5 DEF KeptInv
<1>6. s \in Session /\ srv'[s].st = "live" /\ s \in owned'
  BY DEF Held, Live
<1>3. CASE KeepLogin
  BY <1>2, <1>3, KeptKeepLogin
<1>4. CASE ~KeepLogin
  <2>0. s \in owned /\ ~Login(s)
    BY <1>2, <1>4, <1>6, Histories DEF NothingForgotten, Created, Login
  <2>1. srv[s].st = "live"
    BY <1>6, <2>0, RowSteps DEF RowStep, Stolen
  <2>2. At(s) /\ srv[s].st = "live"
    BY <1>6, <1>2, <2>0, <2>1 DEF At, Held, Live
  <2>14. ASSUME NEW r \in Session, Login(r) PROVE FALSE
    BY <1>2, <2>2, <2>14, NoneHeld DEF At
  <2>15. ~LoseLogin
    BY <1>6, <2>2, HeldFacts, IdleFields DEF LoseLogin, StateOf
  <2>3. ASSUME NEW c \in Caller, CallRefresh(c) \/ ContinueRefresh(c) \/ EndRefresh(c) PROVE Kept(s)'
    BY <1>6, <2>2, <2>3, KeptCallRefresh, KeptContinueRefresh, KeptEndRefresh
  <2>4. CASE RefreshStep \/ ServeRefresh
    BY <1>6, <2>2, <2>4, KeptPrepareRefresh, KeptSendRefresh, KeptLoseRefresh, KeptAnswerRefresh,
       KeptKeepRefreshed, KeptAdoptRefreshed, NoConflict, KeptServeRefresh DEF RefreshStep
  <2>5. CASE StartRestore \/ RestoreStep \/ ServeBrowser
    BY <1>6, <2>2, <2>5, KeptStartRestore, KeptReadStored, KeptAskSession, KeptEndSession, KeptEndPending,
       KeptKeepPending, KeptJoinRefresh, KeptLoseBrowser, KeptEndBrowser, KeptServeBrowser DEF RestoreStep
  <2>6. CASE AdoptPair
    BY <1>6, <2>2, <2>6, KeptAdoptPair
  <2>7. ~StartLogout
    BY <1>6, <2>0, <2>1 DEF StartLogout, Live
  <2>8. ~LogoutStep /\ ~ServeLogout /\ ~ServeRenew /\ ~ServeWebLogout
    BY <1>6, <2>2, HeldFacts, IdleFields DEF LogoutStep, RenewToEnd, EndRenewed, LoseLogout, EndLogout,
       WaitToEnd, EndWebLogout, ServeLogout, ServeRenew, ServeWebLogout
  <2>9. ~Recover
    BY <1>6, <2>1, HeldFacts, <2>2, RevokedRow DEF Recover, TypeOK
  <2>10. CASE Restart
    BY <1>6, <2>2, <2>10, KeptRestart
  <2>11. ASSUME NEW r \in Session, Revoke(r) PROVE Kept(s)'
    <3>1. srv' = [srv EXCEPT ![r].st = "revoked"] /\ srv \in [Session -> Row]
      BY <2>11 DEF Revoke, TypeOK
    <3>2. r # s
      <4>1. r = s => srv'[s] = [srv[s] EXCEPT !.st = "revoked"]
        BY <1>6, <3>1
      <4> QED BY <1>6, <3>1, <4>1, RevokedRow
    <3>3. srv'[s] = srv[s]
      BY <1>6, <3>1, <3>2
    <3> QED BY <1>6, <2>2, <2>11, <3>3, HeldFacts, KeptFrame DEF Revoke, memory, Kept
  <2>12. ASSUME NEW r \in Session, NEW g \in 0..MaxGen, Tick(r, g) PROVE Kept(s)'
    BY <1>6, <2>2, <2>12, KeptTick
  <2>13. CASE UNCHANGED vars
    BY <1>6, <2>2, <2>13, KeptFrame DEF vars, At
  <2> QED BY <1>4, <2>14, <2>15, <2>3, <2>4, <2>5, <2>6, <2>7, <2>8, <2>9, <2>10, <2>11, <2>12, <2>13 DEF Next
<1> QED BY <1>3, <1>4

(* At the start there is no session to protect. *)
LEMMA KeptInit == Init => KeptInv
<1> SUFFICES ASSUME Init PROVE KeptInv
  OBVIOUS
<1>1. owned = {} /\ adopt.pc # "sent"
  BY IdleFields DEF Init
<1> QED BY <1>1 DEF KeptInv, Held, Waiting, Created

(* The invariant holds throughout. *)
LEMMA AlwaysKept == Spec => [](TypeOK /\ KeptInv)
<1>1. Init => TypeOK /\ KeptInv
  BY TypeInit, KeptInit
<1>2. TypeOK /\ KeptInv /\ [Next]_vars => TypeOK' /\ KeptInv'
  BY TypeStep, KeptStep
<1> QED BY <1>1, <1>2, PTL DEF Spec

(* A protected session can be reached from the device that holds it. *)
LEMMA KeptReachable ==
  ASSUME TypeOK, KeptInv PROVE Recoverable
<1>0. ASSUME NEW s \in Live, NEW t, NEW id, OneBehind(s, t, id) PROVE Leads(s, t, id)
  BY <1>0, BoundsAssumption DEF Live, OneBehind, Leads, RefreshAnswer, CanRotate, CanReplay, Lapsed, NoToken
<1> SUFFICES ASSUME ~taken, NEW s \in Live \cap owned, Kept(s)
             PROVE IF web THEN Leads(s, cookie, CookieId)
                   ELSE Leads(s, store.t, 0) \/ Leads(s, store.prev, store.req)
  BY DEF Recoverable, Reachable, KeptInv, Held
<1>1. Home(s)
  BY DEF Kept
<1>2. CASE web
  BY <1>0, <1>1, <1>2 DEF Home
<1>3. CASE ~web
  <2>1. OneBehind(s, store.t, 0) \/ OneBehind(s, store.prev, store.req)
    BY <1>1, <1>3 DEF Home, Leading, OneBehind
  <2> QED BY <1>0, <1>3, <2>1
<1> QED BY <1>2, <1>3

(* While a session lives that the app took up and nobody asked to end, and no
   two operations of the manager have overlapped, the app can get its current
   tokens again, or their answer was lost for five minutes: for any number of
   sessions, callers, rotations and faults, with logins whose answer or write
   is lost among them. *)
THEOREM SessionRecoverable == Spec => []Recoverable
<1>1. TypeOK /\ KeptInv => Recoverable
  BY KeptReachable
<1> QED BY <1>1, AlwaysKept, PTL

----------------------------------------------------------------------------
(* Identity and the honest device. *)

(* A device that comes with what it holds of a session nobody ended is only
   taken for a thief when the rotation it missed is old. *)
LEMMA ReuseIsOld ==
  ASSUME TypeOK, NEW s \in Session, NEW t \in MaybeToken, NEW id,
         t.g = srv[s].gen \/ (t.g + 1 = srv[s].gen /\ srv[s].by = id), Stolen(s, t, id)
  PROVE  srv'[s].age[t.g] = "old" /\ t.g \in 0..MaxGen
<1>1. srv[s].gen \in 0..MaxGen /\ t.g \in 0..MaxGen /\ srv[s].age \in [0..MaxGen -> Age]
  BY Tokens, RowFields DEF TypeOK
<1>2. t.g < srv[s].gen /\ ~CanReplay(t, id) /\ t # NoToken /\ t.s = s /\ srv[s].st = "live"
  BY DEF Stolen, IsReuse
<1>3. t.g + 1 = srv[s].gen /\ srv[s].by = id
  BY <1>1, <1>2
<1>4. srv[s].age[t.g] = "old"
  BY <1>2, <1>3 DEF CanReplay
<1> QED BY <1>1, <1>4 DEF Stolen

(* Every step keeps HonestDeviceTrusted, which is inductive beside the
   invariant. *)
LEMMA HonestStep == TypeOK /\ KeptInv /\ HonestDeviceTrusted /\ [Next]_vars => HonestDeviceTrusted'
<1> SUFFICES ASSUME TypeOK, KeptInv, HonestDeviceTrusted, [Next]_vars, ~taken',
                    NEW s \in owned', srv'[s].st = "compromised"
             PROVE  \E g \in 0..MaxGen : srv'[s].age[g] = "old"
  BY DEF HonestDeviceTrusted
<1>0. ~taken /\ s \in Session
  BY Histories, TypeStep DEF NothingForgotten, TypeOK
<1>9. CASE KeepLogin
  <2>1. srv' = srv /\ (s \in owned \/ s = adopt.t.s)
    BY <1>9 DEF KeepLogin
  <2>2. s \in owned
    BY <1>0, <1>9, <2>1 DEF KeptInv, Waiting, KeepLogin
  <2> QED BY <1>0, <2>1, <2>2 DEF HonestDeviceTrusted
<1> SUFFICES ASSUME ~KeepLogin, s \in Session PROVE \E g \in 0..MaxGen : srv'[s].age[g] = "old"
  BY <1>0, <1>9
<1>1. ~taken /\ s \in owned
  BY <1>0, Histories DEF NothingForgotten
<1>2. ~Login(s)
  <2>1. ASSUME Login(s) PROVE FALSE
    <3>1. srv'[s] = NewRow
      BY <2>1 DEF Login, TypeOK
    <3> QED BY <3>1 DEF NewRow
  <2> QED BY <2>1
<1>3. CASE srv'[s] = srv[s]
  BY <1>1, <1>3 DEF HonestDeviceTrusted
<1>4. ASSUME srv[s].st = "live" PROVE At(s)
  BY <1>1, <1>4 DEF At, Held, Live, KeptInv
<1>5. CASE ServeRefresh /\ Stolen(s, Sent(refresh.t), SentId(refresh.req))
  <2>1. At(s) /\ refresh.pc = "sent"
    BY <1>4, <1>5 DEF Stolen, ServeRefresh
  <2>2. Sent(refresh.t) \in MaybeToken
    BY Fields DEF Sent, TypeOK
  <2>3. \/ Sent(refresh.t).g = srv[s].gen
        \/ Sent(refresh.t).g + 1 = srv[s].gen /\ srv[s].by = SentId(refresh.req)
    <3>1. CASE web
      BY <2>1, <3>1, HeldFacts DEF Sent, SentId, Home, OneBehind
    <3>2. CASE ~web
      BY <2>1, <3>2, HeldFacts, SentFacts DEF Sent, SentId, Home, Leading
    <3> QED BY <3>1, <3>2
  <2> QED BY <1>5, <2>2, <2>3, ReuseIsOld
<1>6. CASE ServeBrowser /\ Stolen(s, cookie, CookieId)
  <2>1. At(s) /\ restore.pc = "browser"
    BY <1>4, <1>6 DEF Stolen, ServeBrowser
  <2>2. cookie.g = srv[s].gen \/ (cookie.g + 1 = srv[s].gen /\ srv[s].by = CookieId)
    BY <2>1, HeldFacts, BrowserFacts DEF Home, OneBehind
  <2> QED BY <1>6, <2>2, ReuseIsOld DEF TypeOK
<1>7. CASE ServeRenew /\ Stolen(s, logout.t, logout.req)
  BY <1>4, <1>7, HeldFacts, IdleFields DEF Stolen, ServeRenew
<1>8. RowStep(s)
  BY <1>2, RowSteps
<1> QED BY <1>3, <1>5, <1>6, <1>7, <1>8 DEF RowStep

(* Identity takes a session nobody ended for stolen only when its device came
   back more than five minutes after a rotation, or two operations of its
   manager have overlapped. *)
THEOREM HonestDeviceIsTrusted == Spec => []HonestDeviceTrusted
<1>1. Init => HonestDeviceTrusted
  BY DEF Init, HonestDeviceTrusted, NewRow
<1>2. TypeOK /\ KeptInv /\ HonestDeviceTrusted /\ [Next]_vars => HonestDeviceTrusted'
  BY HonestStep
<1> QED BY <1>1, <1>2, AlwaysKept, PTL DEF Spec

----------------------------------------------------------------------------
(* A logout comes to its end: what liveness rests on, short of ENABLED. *)

(* Where an operation stands when it is under way, and the answers it can
   have then: whatever the answer, some step handles it. *)
RefreshAt ==
  \/ refresh = Idle
  \/ refresh.pc \in {"start", "prepare", "sent", "recheck", "keep1", "keep2", "keep"}
  \/ refresh.pc = "session" /\ refresh.ans # "stale"
RestoreAt ==
  \/ restore = Idle
  \/ restore.pc = "read" /\ restore.ans = "none"
  \/ restore.pc \in {"browser", "keep", "join"}
  \/ restore.pc \in {"session", "pending"} /\ restore.ans # "stale"
LogoutAt ==
  \/ logout = Idle
  \/ logout.pc = "wait" /\ web /\ logout.ans = "none"
  \/ logout.pc = "end" /\ logout.ans # "stale" /\ (web => logout.ans # "unauthenticated")
  \/ logout.pc = "renew" /\ ~web /\ logout.ans # "network"
  \/ logout.pc = "end2" /\ ~web /\ logout.ans \in {"none", "ok", "unauthenticated"}
AllAt == RefreshAt /\ RestoreAt /\ LogoutAt

(* How far an operation is from its end: the turns it still has, and within a
   turn whether the answer has come. *)
RefreshTurns == [idle |-> 0, start |-> 6, prepare |-> 5, sent |-> 4, recheck |-> 3,
                 session |-> 2, keep1 |-> 2, keep |-> 1, keep2 |-> 1]
RestoreTurns == [idle |-> 0, read |-> 3, browser |-> 2, session |-> 2, pending |-> 2,
                 keep |-> 1, join |-> 1]
LogoutTurns == [idle |-> 0, wait |-> 4, end |-> 3, renew |-> 2, end2 |-> 1]

Open(op) == IF op.ans = "none" THEN 2 ELSE IF op.ans # "network" THEN 1 ELSE 0

RefreshLeft == 3 * RefreshTurns[refresh.pc] + Open(refresh)
RestoreLeft == 3 * RestoreTurns[restore.pc] + Open(restore)
LogoutLeft == IF logout.ans = "network" THEN 3 ELSE 3 * LogoutTurns[logout.pc] + Open(logout)

(* A restore may still hand over to a whole refresh, but not the other way
   round. *)
Ahead == 21 * RestoreLeft + RefreshLeft

(* The step a waiting operation is at can be taken.  Request ids are random in
   the code; in the model one must be left. *)
RefreshReady ==
  \/ refresh.pc \in {"prepare", "sent", "recheck", "keep1", "keep2", "keep"}
  \/ refresh.pc = "start" /\ (refresh.req # 0 \/ NewId # {})
  \/ refresh.pc = "session" /\ refresh.ans \in {"none", "ok", "unauthenticated", "network"}
RestoreReady ==
  \/ restore.pc \in {"read", "browser", "keep"}
  \/ restore.pc = "join" /\ refresh = Idle
  \/ restore.pc \in {"session", "pending"} /\ restore.ans \in {"none", "ok", "unauthenticated", "network"}
LogoutReady ==
  \/ logout.pc = "wait" /\ restore = Idle /\ refresh = Idle
  \/ logout.pc \in {"end", "renew", "end2"} /\ logout.ans # "network"
  \/ logout.pc = "end" /\ logout.ans = "network"

LEMMA OpenRange ==
  ASSUME NEW op
  PROVE  Open(op) \in 0..2 /\ (op.ans = "none" => Open(op) = 2) /\ (op.ans # "none" => Open(op) < 2)
         /\ (op.ans = "network" => Open(op) = 0) /\ (op.ans # "network" => Open(op) > 0)
  BY DEF Open

LEMMA TurnsAre ==
  /\ RefreshTurns["idle"] = 0 /\ RefreshTurns["start"] = 6 /\ RefreshTurns["prepare"] = 5
  /\ RefreshTurns["sent"] = 4 /\ RefreshTurns["recheck"] = 3 /\ RefreshTurns["session"] = 2
  /\ RefreshTurns["keep1"] = 2 /\ RefreshTurns["keep"] = 1 /\ RefreshTurns["keep2"] = 1
  /\ RestoreTurns["idle"] = 0 /\ RestoreTurns["read"] = 3 /\ RestoreTurns["browser"] = 2
  /\ RestoreTurns["session"] = 2 /\ RestoreTurns["pending"] = 2 /\ RestoreTurns["keep"] = 1
  /\ RestoreTurns["join"] = 1
  /\ LogoutTurns["idle"] = 0 /\ LogoutTurns["wait"] = 4 /\ LogoutTurns["end"] = 3
  /\ LogoutTurns["renew"] = 2 /\ LogoutTurns["end2"] = 1
  BY DEF RefreshTurns, RestoreTurns, LogoutTurns

(* The turns an operation has left, whatever the answer, before and after. *)
LEMMA RefreshRange ==
  ASSUME NEW n \in 0..6
  PROVE  /\ RefreshTurns[refresh.pc] = n => RefreshLeft \in 3 * n .. 3 * n + 2
         /\ RefreshTurns[refresh'.pc] = n => RefreshLeft' \in 3 * n .. 3 * n + 2
<1>1. Open(refresh) \in 0..2 /\ Open(refresh') \in 0..2
  BY OpenRange
<1> QED BY <1>1 DEF RefreshLeft, Open

LEMMA RestoreRange ==
  ASSUME NEW n \in 0..3
  PROVE  /\ RestoreTurns[restore.pc] = n => RestoreLeft \in 3 * n .. 3 * n + 2
         /\ RestoreTurns[restore'.pc] = n => RestoreLeft' \in 3 * n .. 3 * n + 2
<1>1. Open(restore) \in 0..2 /\ Open(restore') \in 0..2
  BY OpenRange
<1> QED BY <1>1 DEF RestoreLeft, Open

LEMMA LogoutRange ==
  ASSUME NEW n \in 0..4
  PROVE  /\ LogoutTurns[logout.pc] = n /\ logout.ans # "network" => LogoutLeft \in 3 * n + 1 .. 3 * n + 2
         /\ LogoutTurns[logout'.pc] = n /\ logout'.ans # "network" => LogoutLeft' \in 3 * n + 1 .. 3 * n + 2
         /\ logout.ans = "network" => LogoutLeft = 3
         /\ logout'.ans = "network" => LogoutLeft' = 3
  BY DEF LogoutLeft, Open

(* The answer to a request brings its operation nearer. *)
LEMMA Answered ==
  /\ refresh'.pc = refresh.pc /\ RefreshTurns[refresh.pc] \in 0..6 =>
       /\ refresh.ans = "none" /\ refresh'.ans # "none" => RefreshLeft' < RefreshLeft
       /\ refresh.ans # "network" /\ refresh'.ans = "network" => RefreshLeft' < RefreshLeft
  /\ restore'.pc = restore.pc /\ RestoreTurns[restore.pc] \in 0..3 =>
       /\ restore.ans = "none" /\ restore'.ans # "none" => RestoreLeft' < RestoreLeft
       /\ restore.ans # "network" /\ restore'.ans = "network" => RestoreLeft' < RestoreLeft
  BY DEF RefreshLeft, RestoreLeft, Open

(* Nothing is left of an operation that is idle. *)
LEMMA IdleLeft ==
  /\ refresh' = Idle => RefreshLeft' = 2 /\ RefreshAt'
  /\ restore' = Idle => RestoreLeft' = 2 /\ RestoreAt'
  /\ logout' = Idle => LogoutLeft' = 2 /\ LogoutAt'
  BY IdleFields, TurnsAre DEF RefreshLeft, RestoreLeft, LogoutLeft, RefreshAt, RestoreAt, LogoutAt, Open

(* A step that changes the turn of an operation. *)
LEMMA TurnFalls ==
  /\ RefreshTurns[refresh.pc] \in 1..6 /\ RefreshTurns[refresh'.pc] \in 0..6
     /\ RefreshTurns[refresh'.pc] < RefreshTurns[refresh.pc] => RefreshLeft' < RefreshLeft
  /\ RestoreTurns[restore.pc] \in 1..3 /\ RestoreTurns[restore'.pc] \in 0..3
     /\ RestoreTurns[restore'.pc] < RestoreTurns[restore.pc] => RestoreLeft' < RestoreLeft
<1>1. \A n \in 1..6, m \in 0..6 : m < n => \A x \in 3 * n .. 3 * n + 2, y \in 3 * m .. 3 * m + 2 : y < x
  OBVIOUS
<1> QED BY <1>1, RefreshRange, RestoreRange

(* The request of a refresh or of a restore is answered as Refresh answers. *)
LEMMA Answers ==
  /\ \A t, id : RefreshAnswer(t, id) \in {"ok", "stale", "unauthenticated"}
  /\ \A t : SessionAnswer(t) \subseteq {"ok", "unauthenticated", "network"}
  BY DEF RefreshAnswer, SessionAnswer

(* A refresh comes nearer to its end with every step of its own. *)
LEMMA RefreshNears ==
  ASSUME TypeOK, RefreshStep
  PROVE  RefreshLeft' < RefreshLeft /\ RefreshAt' /\ UNCHANGED <<web, restore, logout>>
<1>0. refresh \in Op /\ UNCHANGED <<web, restore, logout>>
  <2>1. UNCHANGED <<web, logout>>
    BY DEF RefreshStep, PrepareRefresh, SendRefresh, LoseRefresh, AnswerRefresh, KeepRefreshed,
           AdoptRefreshed, RecheckConflict, AskConflict, EndConflict, Others
  <2>2. UNCHANGED restore
    BY DEF RefreshStep, PrepareRefresh, SendRefresh, LoseRefresh, AnswerRefresh, KeepRefreshed,
           AdoptRefreshed, RecheckConflict, AskConflict, EndConflict
  <2> QED BY <2>1, <2>2 DEF TypeOK
<1>1. ASSUME refresh' = Idle, refresh.pc \in {"start", "prepare", "sent", "recheck", "session", "keep1", "keep2", "keep"}
      PROVE  RefreshLeft' < RefreshLeft /\ RefreshAt'
  BY <1>1, TurnsAre, TurnFalls, IdleLeft, IdleFields
<1>9. ASSUME refresh.pc \in {"start", "prepare"}, refresh'.pc \in {"prepare", "sent"}, refresh'.pc # refresh.pc,
             refresh.pc = "prepare" => refresh'.pc = "sent"
      PROVE  RefreshLeft' < RefreshLeft /\ RefreshAt'
  BY <1>9, TurnsAre, TurnFalls DEF RefreshAt
<1>2. CASE PrepareRefresh
  <2>1. refresh.pc = "start"
    BY <1>2 DEF PrepareRefresh
  <2>2. ASSUME refresh' = [refresh EXCEPT !.pc = "sent"] PROVE refresh'.pc = "sent"
    BY <1>0, <2>2 DEF Op
  <2>3. ASSUME NEW id, refresh' = [refresh EXCEPT !.pc = "prepare", !.req = id] PROVE refresh'.pc = "prepare"
    BY <1>0, <2>3 DEF Op
  <2>4. refresh' = Idle \/ refresh'.pc \in {"prepare", "sent"}
    BY <1>2, <2>2, <2>3, Zenon DEF PrepareRefresh
  <2> QED BY <1>0, <1>1, <1>9, <2>1, <2>4
<1>10. CASE SendRefresh
  <2>1. refresh.pc = "prepare" /\ (refresh' = Idle \/ refresh'.pc = "sent")
    BY <1>0, <1>10 DEF SendRefresh, Op
  <2> QED BY <1>0, <1>1, <1>9, <2>1
<1>3. CASE LoseRefresh
  <2>1. refresh.pc = "sent" /\ refresh.ans # "network" /\ refresh'.pc = "sent" /\ refresh'.ans = "network"
    BY <1>0, <1>3 DEF LoseRefresh, Op
  <2> QED BY <1>0, <2>1, TurnsAre, TurnFalls, Answered, IdleFields DEF RefreshAt
<1>4. CASE AnswerRefresh
  <2>1. refresh.pc = "sent"
    BY <1>4 DEF AnswerRefresh
  <2>2. refresh' = Idle \/ refresh'.pc \in {"keep1", "recheck"}
    BY <1>0, <1>4 DEF AnswerRefresh, Op
  <2>3. ASSUME refresh'.pc \in {"keep1", "recheck"} PROVE RefreshLeft' < RefreshLeft /\ RefreshAt'
    BY <2>1, <2>3, TurnsAre, TurnFalls, Answered, IdleFields DEF RefreshAt
  <2> QED BY <1>0, <1>1, <2>1, <2>2, <2>3
<1>5. CASE KeepRefreshed \/ AdoptRefreshed
  <2>1. \/ refresh.pc \in {"keep1", "keep2"} /\ refresh' = Idle
        \/ refresh.pc = "keep1" /\ refresh'.pc = "keep2"
    BY <1>0, <1>5 DEF KeepRefreshed, AdoptRefreshed, Op
  <2>2. ASSUME refresh.pc = "keep1", refresh'.pc = "keep2" PROVE RefreshLeft' < RefreshLeft /\ RefreshAt'
    BY <2>2, TurnsAre, TurnFalls, Answered, IdleFields DEF RefreshAt
  <2> QED BY <1>0, <1>1, <2>1, <2>2
<1>6. CASE RecheckConflict
  <2>1. refresh.pc = "recheck"
    BY <1>6 DEF RecheckConflict
  <2>2. CASE refresh' = Idle
    BY <1>0, <1>1, <2>1, <2>2
  <2>3. CASE refresh' = [refresh EXCEPT !.pc = "session", !.ans = "none"]
    <3>1. refresh'.pc = "session" /\ refresh'.ans = "none"
      BY <1>0, <2>3 DEF Op
    <3> QED BY <1>0, <2>1, <3>1, TurnsAre, TurnFalls DEF RefreshAt
  <2> QED BY <1>6, <2>2, <2>3, Zenon DEF RecheckConflict
<1>7. CASE AskConflict
  <2>1. PICK a \in SessionAnswer(refresh.snap.t) : refresh' = [refresh EXCEPT !.ans = a]
    BY <1>7 DEF AskConflict
  <2>2. refresh.pc = "session" /\ refresh.ans = "none"
    BY <1>7 DEF AskConflict
  <2>3. refresh'.pc = "session" /\ refresh'.ans = a /\ a \in {"ok", "unauthenticated", "network"}
    BY <1>0, <2>1, <2>2, Answers DEF Op
  <2> QED BY <1>0, <2>2, <2>3, TurnsAre, TurnFalls, Answered, IdleFields DEF RefreshAt
<1>8. CASE EndConflict
  <2>1. \/ refresh.pc \in {"session", "keep"} /\ refresh' = Idle
        \/ refresh.pc = "session" /\ refresh'.pc = "keep"
    BY <1>0, <1>8 DEF EndConflict, Op
  <2>2. ASSUME refresh.pc = "session", refresh'.pc = "keep" PROVE RefreshLeft' < RefreshLeft /\ RefreshAt'
    BY <2>2, TurnsAre, TurnFalls, Answered, IdleFields DEF RefreshAt
  <2> QED BY <1>0, <1>1, <2>1, <2>2
<1> QED BY <1>0, <1>2, <1>3, <1>4, <1>5, <1>6, <1>7, <1>8, <1>10 DEF RefreshStep

(* What a restore hands to a refresh: at most a whole one. *)
LEMMA HandsOver ==
  ASSUME NEW t, NEW id, StartRefresh(t, id)
  PROVE  refresh' = refresh \/ (refresh = Idle /\ refresh'.pc = "start")
  BY IdleFields DEF StartRefresh, Idle

(* A restore comes nearer to its end with every step of its own, and hands over
   to a refresh only as it begins to wait for it. *)
LEMMA RestoreNears ==
  ASSUME TypeOK, RestoreAt, RestoreStep
  PROVE  /\ RestoreLeft' < RestoreLeft /\ RestoreAt' /\ UNCHANGED <<web, logout>>
         /\ refresh' = refresh \/ (refresh = Idle /\ refresh'.pc = "start")
<1>0. restore \in Op /\ UNCHANGED <<web, logout>>
  BY DEF TypeOK, RestoreStep, ReadStored, AskSession, EndSession, EndPending, KeepPending, JoinRefresh,
         LoseBrowser, EndBrowser, Restoring
<1>1. refresh' = refresh \/ (refresh = Idle /\ refresh'.pc = "start")
  BY HandsOver DEF RestoreStep, ReadStored, AskSession, EndSession, EndPending, KeepPending, JoinRefresh,
         LoseBrowser, EndBrowser
<1>2. ASSUME restore' = Idle, restore.pc \in {"read", "session", "pending", "keep", "join", "browser"}
      PROVE  RestoreLeft' < RestoreLeft /\ RestoreAt'
  BY <1>2, TurnsAre, TurnFalls, IdleLeft, IdleFields
<1>3. ASSUME restore.pc \in {"session", "pending", "browser"}, restore'.pc \in {"keep", "join"}
      PROVE  RestoreLeft' < RestoreLeft /\ RestoreAt'
  BY <1>3, TurnsAre, TurnFalls, Answered, IdleFields DEF RestoreAt
<1>4. CASE ReadStored
  <2>2. ASSUME NEW p, restore' = [restore EXCEPT !.pc = p] PROVE restore'.pc = p /\ restore'.ans = restore.ans
    BY <1>0, <2>2 DEF Op
  <2>1. restore.pc = "read" /\ (restore' = Idle \/ (restore'.pc \in {"browser", "session", "pending"} /\ restore'.ans = restore.ans))
    BY <1>4, <2>2 DEF ReadStored
  <2>3. restore.ans = "none"
    BY <2>1, IdleFields DEF RestoreAt
  <2> QED BY <1>0, <1>1, <1>2, <2>1, <2>3, TurnsAre, TurnFalls, Answered, IdleFields DEF RestoreAt
<1>5. CASE AskSession
  <2>1. PICK a \in SessionAnswer(restore.snap.t) : restore' = [restore EXCEPT !.ans = a]
    BY <1>5 DEF AskSession
  <2>2. restore.pc \in {"session", "pending"} /\ restore.ans = "none"
    BY <1>5 DEF AskSession
  <2>3. restore'.pc = restore.pc /\ restore'.ans = a /\ a \in {"ok", "unauthenticated", "network"}
    BY <1>0, <2>1, Answers DEF Op
  <2> QED BY <1>0, <1>1, <2>2, <2>3, TurnsAre, TurnFalls, Answered, IdleFields DEF RestoreAt
<1>6. CASE EndSession \/ EndPending \/ KeepPending \/ JoinRefresh
  <2>1. \/ restore' = Idle /\ restore.pc \in {"session", "pending", "keep", "join"}
        \/ restore.pc \in {"session", "pending"} /\ restore'.pc \in {"keep", "join"}
    BY <1>6, IdleFields DEF EndSession, EndPending, KeepPending, JoinRefresh, Idle
  <2> QED BY <1>0, <1>1, <1>2, <1>3, <2>1
<1>7. CASE LoseBrowser
  <2>1. restore.pc = "browser" /\ restore.ans # "network" /\ restore'.pc = "browser" /\ restore'.ans = "network"
    BY <1>0, <1>7 DEF LoseBrowser, Op
  <2> QED BY <1>0, <1>1, <2>1, TurnsAre, TurnFalls, Answered, IdleFields DEF RestoreAt
<1>8. CASE EndBrowser
  <2>1. restore.pc = "browser" /\ (restore' = Idle \/ restore'.pc = "keep")
    BY <1>8 DEF EndBrowser, Idle
  <2> QED BY <1>0, <1>1, <1>2, <1>3, <2>1
<1> QED BY <1>0, <1>1, <1>4, <1>5, <1>6, <1>7, <1>8 DEF RestoreStep

(* A logout comes nearer to its end with every step of its own. *)
LEMMA LogoutNears ==
  ASSUME TypeOK, LogoutAt, LogoutStep
  PROVE  /\ LogoutLeft' < LogoutLeft /\ LogoutAt' /\ UNCHANGED <<web, refresh, restore>>
<1>0. logout \in Op /\ UNCHANGED <<web, refresh, restore>>
  <2>1. UNCHANGED <<web, refresh, restore>>
    <3>1. UNCHANGED web
      BY DEF LogoutStep, RenewToEnd, EndRenewed, LoseLogout, EndLogout, WaitToEnd, EndWebLogout, Ending
    <3>2. UNCHANGED refresh
      BY DEF LogoutStep, RenewToEnd, EndRenewed, LoseLogout, EndLogout, WaitToEnd, EndWebLogout, Ending
    <3>3. UNCHANGED restore
      BY DEF LogoutStep, RenewToEnd, EndRenewed, LoseLogout, EndLogout, WaitToEnd, EndWebLogout, Ending
    <3> QED BY <3>1, <3>2, <3>3
  <2> QED BY <2>1 DEF TypeOK
<1>1. ASSUME logout' = Idle, logout.pc \in {"end", "renew", "end2"} PROVE LogoutLeft' < LogoutLeft /\ LogoutAt'
  <2>1. LogoutLeft > 2
    BY <1>1, TurnsAre, LogoutRange
  <2> QED BY <1>0, <1>1, <2>1, IdleLeft
<1>2. CASE RenewToEnd
  <2>3. ASSUME NEW t, NEW id, logout' = [Idle EXCEPT !.pc = "renew", !.t = t, !.req = id]
        PROVE  logout'.pc = "renew" /\ logout'.ans = "none"
    BY <2>3 DEF Idle
  <2>1. /\ logout.pc = "end" /\ logout.ans = "unauthenticated" /\ ~web
        /\ logout'.pc = "renew" /\ logout'.ans = "none"
    BY <1>2, <2>3 DEF RenewToEnd
  <2>2. LogoutLeft \in 10..11 /\ LogoutLeft' \in 7..8
    BY <2>1, TurnsAre, LogoutRange
  <2> QED BY <1>0, <2>1, <2>2 DEF LogoutAt
<1>3. CASE EndRenewed
  <2>1. logout.pc = "renew" /\ logout.ans = "ok" /\ logout'.pc = "end2" /\ logout'.ans = "none"
    BY <1>3, IdleFields DEF EndRenewed, Idle
  <2>2. ~web
    BY <2>1, IdleFields DEF LogoutAt
  <2>3. LogoutLeft \in 7..8 /\ LogoutLeft' \in 4..5
    BY <2>1, TurnsAre, LogoutRange
  <2> QED BY <1>0, <2>1, <2>2, <2>3 DEF LogoutAt
<1>4. CASE LoseLogout
  <2>1. /\ logout.pc \in {"end", "renew", "end2"} /\ logout.ans # "network"
        /\ logout'.pc = "end" /\ logout'.ans = "network"
    BY <1>4 DEF LoseLogout, Idle
  <2>2. LogoutLeft > 3 /\ LogoutLeft' = 3
    BY <2>1, TurnsAre, LogoutRange
  <2> QED BY <1>0, <2>1, <2>2 DEF LogoutAt
<1>5. CASE EndLogout \/ EndWebLogout
  BY <1>0, <1>1, <1>5 DEF EndLogout, EndWebLogout
<1>6. CASE WaitToEnd
  <2>1. logout.pc = "wait" /\ logout'.pc = "end" /\ logout'.ans = logout.ans /\ logout.ans = "none"
    BY <1>0, <1>6, IdleFields DEF WaitToEnd, LogoutAt, Op
  <2>2. LogoutLeft \in 13..14 /\ LogoutLeft' \in 10..11
    BY <2>1, TurnsAre, LogoutRange
  <2> QED BY <1>0, <2>1, <2>2 DEF LogoutAt
<1> QED BY <1>0, <1>2, <1>3, <1>4, <1>5, <1>6 DEF LogoutStep

(* Whoever answers a request brings its operation nearer. *)
LEMMA ServersAnswer ==
  ASSUME TypeOK, RefreshAt, RestoreAt, LogoutAt
  PROVE  /\ ServeRefresh => RefreshLeft' < RefreshLeft /\ RefreshAt' /\ UNCHANGED <<web, restore, logout>>
         /\ ServeBrowser => RestoreLeft' < RestoreLeft /\ RestoreAt' /\ UNCHANGED <<web, refresh, logout>>
         /\ ServeLogout \/ ServeRenew \/ ServeWebLogout =>
              LogoutLeft' <= LogoutLeft /\ LogoutAt' /\ UNCHANGED <<web, refresh, restore>>
<1>0. refresh \in Op /\ restore \in Op /\ logout \in Op
  BY DEF TypeOK
<1>1. ASSUME ServeRefresh PROVE RefreshLeft' < RefreshLeft /\ RefreshAt' /\ UNCHANGED <<web, restore, logout>>
  <2>1. refresh.pc = "sent" /\ refresh.ans = "none" /\ UNCHANGED <<web, restore, logout>>
    BY <1>1 DEF ServeRefresh, Others
  <2>2. ASSUME NEW a, NEW t, a # "none", refresh' = [refresh EXCEPT !.ans = a, !.got = t]
        PROVE  refresh'.pc = "sent" /\ refresh'.ans # "none"
    BY <1>0, <2>1, <2>2 DEF Op
  <2>3. refresh'.pc = "sent" /\ refresh'.ans # "none"
    BY <1>1, <2>2, Answers DEF ServeRefresh
  <2> QED BY <2>1, <2>3, TurnsAre, Answered DEF RefreshAt
<1>2. ASSUME ServeBrowser PROVE RestoreLeft' < RestoreLeft /\ RestoreAt' /\ UNCHANGED <<web, refresh, logout>>
  <2>1. restore.pc = "browser" /\ restore.ans = "none" /\ UNCHANGED <<web, refresh, logout>>
    BY <1>2 DEF ServeBrowser, Restoring
  <2>2. ASSUME NEW a, NEW t, a # "none", restore' = [restore EXCEPT !.ans = a, !.got = t]
        PROVE  restore'.pc = "browser" /\ restore'.ans # "none"
    BY <1>0, <2>1, <2>2 DEF Op
  <2>3. restore'.pc = "browser" /\ restore'.ans # "none"
    BY <1>2, <2>2, Answers DEF ServeBrowser
  <2> QED BY <2>1, <2>3, TurnsAre, Answered DEF RestoreAt
<1>3. ASSUME logout.ans = "none", logout'.pc = logout.pc, logout'.ans \notin {"none", "network"},
             LogoutTurns[logout.pc] \in 0..4
      PROVE  LogoutLeft' <= LogoutLeft
  BY <1>3 DEF LogoutLeft, Open
<1>4. ASSUME ServeLogout PROVE LogoutLeft' <= LogoutLeft /\ LogoutAt' /\ UNCHANGED <<web, refresh, restore>>
  <2>1. logout.pc \in {"end", "end2"} /\ logout.ans = "none" /\ ~web /\ UNCHANGED <<web, refresh, restore>>
    BY <1>4 DEF ServeLogout, Ending
  <2>2. \E a \in {"ok", "unauthenticated"} : logout' = [logout EXCEPT !.ans = a]
    BY <1>4, Zenon DEF ServeLogout
  <2>3. logout'.pc = logout.pc /\ logout'.ans \in {"ok", "unauthenticated"}
    BY <1>0, <2>2 DEF Op
  <2> QED BY <1>3, <2>1, <2>3, TurnsAre DEF LogoutAt
<1>5. ASSUME ServeRenew PROVE LogoutLeft' <= LogoutLeft /\ LogoutAt' /\ UNCHANGED <<web, refresh, restore>>
  <2>1. logout.pc = "renew" /\ logout.ans = "none" /\ UNCHANGED <<web, refresh, restore>>
    BY <1>5 DEF ServeRenew, Ending
  <2>2. ~web
    BY <2>1, IdleFields DEF LogoutAt
  <2>3. PICK a \in {"ok", "stale", "unauthenticated"}, t \in {Renewed(logout.t, logout.req)} :
          logout' = [logout EXCEPT !.ans = a, !.got = t]
    BY <1>5, Answers, Zenon DEF ServeRenew
  <2>4. logout'.pc = "renew" /\ logout'.ans = a
    BY <1>0, <2>1, <2>3 DEF Op
  <2> QED BY <1>3, <2>1, <2>2, <2>4, TurnsAre DEF LogoutAt
<1>6. ASSUME ServeWebLogout PROVE LogoutLeft' <= LogoutLeft /\ LogoutAt' /\ UNCHANGED <<web, refresh, restore>>
  <2>1. logout.pc = "end" /\ logout.ans = "none" /\ UNCHANGED <<web, refresh, restore>>
    BY <1>6 DEF ServeWebLogout, Ending
  <2>2. logout' = [logout EXCEPT !.ans = "ok"]
    BY <1>6 DEF ServeWebLogout
  <2>3. logout'.pc = "end" /\ logout'.ans = "ok"
    BY <1>0, <2>1, <2>2 DEF Op
  <2> QED BY <1>3, <2>1, <2>3, TurnsAre DEF LogoutAt
<1> QED BY <1>1, <1>2, <1>4, <1>5, <1>6

(* A step that leaves the operations alone leaves what they have left. *)
LEMMA LeftAlone ==
  /\ refresh' = refresh => RefreshLeft' = RefreshLeft /\ (RefreshAt => RefreshAt')
  /\ restore' = restore => RestoreLeft' = RestoreLeft /\ (RestoreAt => RestoreAt')
  /\ UNCHANGED <<web, logout>> => LogoutLeft' = LogoutLeft /\ (LogoutAt => LogoutAt')
  BY DEF RefreshLeft, RestoreLeft, LogoutLeft, RefreshAt, RestoreAt, LogoutAt, Open

(* Values of the counts, before and after a step. *)
LEMMA Counts ==
  /\ AllAt => RefreshLeft \in 0..20 /\ RestoreLeft \in 0..11 /\ LogoutLeft \in 0..14
  /\ AllAt' => RefreshLeft' \in 0..20 /\ RestoreLeft' \in 0..11 /\ LogoutLeft' \in 0..14
<1>1. ASSUME AllAt PROVE RefreshLeft \in 0..20 /\ RestoreLeft \in 0..11 /\ LogoutLeft \in 0..14
  <2>1. RefreshTurns[refresh.pc] \in 0..6
    BY <1>1, TurnsAre, IdleFields DEF AllAt, RefreshAt
  <2>2. RestoreTurns[restore.pc] \in 0..3
    BY <1>1, TurnsAre, IdleFields DEF AllAt, RestoreAt
  <2>3. LogoutTurns[logout.pc] \in 0..4
    BY <1>1, TurnsAre, IdleFields DEF AllAt, LogoutAt
  <2> QED BY <2>1, <2>2, <2>3 DEF RefreshLeft, RestoreLeft, LogoutLeft, Open
<1>2. ASSUME AllAt' PROVE RefreshLeft' \in 0..20 /\ RestoreLeft' \in 0..11 /\ LogoutLeft' \in 0..14
  <2>1. RefreshTurns[refresh'.pc] \in 0..6
    BY <1>2, TurnsAre, IdleFields DEF AllAt, RefreshAt
  <2>2. RestoreTurns[restore'.pc] \in 0..3
    BY <1>2, TurnsAre, IdleFields DEF AllAt, RestoreAt
  <2>3. LogoutTurns[logout'.pc] \in 0..4
    BY <1>2, TurnsAre, IdleFields DEF AllAt, LogoutAt
  <2> QED BY <2>1, <2>2, <2>3 DEF RefreshLeft, RestoreLeft, LogoutLeft, Open
<1> QED BY <1>1, <1>2

(* What a step does to the operations under way: none turns back, and while a
   browser is logging out none begins but the refresh a restore hands over to. *)
Onward ==
  /\ AllAt'
  /\ logout # Idle => LogoutLeft' <= LogoutLeft /\ (LogoutStep => LogoutLeft' < LogoutLeft)
  /\ WebEnding => \/ logout' = Idle
                  \/ Ahead' <= Ahead /\ (RefreshStep \/ RestoreStep => Ahead' < Ahead)

(* The order of the two counts that Ahead makes one of. *)
LEMMA AheadGrows ==
  \A a, b \in 0..11 : \A c, d \in 0..20 :
    a <= b => /\ c <= d => 21 * a + c <= 21 * b + d
              /\ c < d => 21 * a + c < 21 * b + d /\ 21 * a + c <= 21 * b + d
  OBVIOUS

(* A step of somebody else, by what it does. *)
LEMMA OthersOnward ==
  ASSUME AllAt, AllAt', ~RefreshStep, ~RestoreStep, ~LogoutStep,
         LogoutLeft' <= LogoutLeft \/ logout = Idle,
         WebEnding => \/ logout' = Idle
                      \/ RefreshLeft' <= RefreshLeft /\ RestoreLeft' <= RestoreLeft
  PROVE  Onward
<1>1. /\ RefreshLeft \in 0..20 /\ RestoreLeft \in 0..11
      /\ RefreshLeft' \in 0..20 /\ RestoreLeft' \in 0..11
  BY Counts
<1>2. ASSUME RefreshLeft' <= RefreshLeft, RestoreLeft' <= RestoreLeft PROVE Ahead' <= Ahead
  <2>1. 21 * RestoreLeft' + RefreshLeft' <= 21 * RestoreLeft + RefreshLeft
    BY <1>1, <1>2, AheadGrows
  <2> QED BY <2>1 DEF Ahead
<1>3. WebEnding => logout' = Idle \/ Ahead' <= Ahead
  BY <1>2
<1> QED BY <1>3 DEF Onward

LEMMA StepOnward == ASSUME TypeOK, AllAt, [Next]_vars PROVE Onward
<1>0. /\ RefreshAt /\ RestoreAt /\ LogoutAt
      /\ RefreshLeft \in 0..20 /\ RestoreLeft \in 0..11 /\ LogoutLeft \in 0..14
  BY Counts DEF AllAt
<1>1. CASE RefreshStep
  <2>1. /\ RefreshLeft' < RefreshLeft /\ RefreshAt' /\ UNCHANGED <<web, restore, logout>>
    BY <1>1, RefreshNears
  <2>2. AllAt' /\ RestoreLeft' = RestoreLeft /\ LogoutLeft' = LogoutLeft
    BY <1>0, <2>1, LeftAlone DEF AllAt
  <2>3. RefreshLeft' \in 0..20
    BY <2>2, Counts
  <2>4. Ahead' < Ahead /\ Ahead' <= Ahead
    <3>1. RestoreLeft' \in 0..11 /\ RestoreLeft' <= RestoreLeft
      BY <1>0, <2>2
    <3>2. /\ 21 * RestoreLeft' + RefreshLeft' < 21 * RestoreLeft + RefreshLeft
          /\ 21 * RestoreLeft' + RefreshLeft' <= 21 * RestoreLeft + RefreshLeft
      BY <1>0, <2>1, <2>3, <3>1, AheadGrows
    <3> QED BY <3>2 DEF Ahead
  <2> QED BY <1>0, <2>1, <2>2, <2>4, LogoutNears DEF Onward
<1>2. CASE RestoreStep
  <2>1. /\ RestoreLeft' < RestoreLeft /\ RestoreAt' /\ UNCHANGED <<web, logout>>
        /\ refresh' = refresh \/ (refresh = Idle /\ refresh'.pc = "start")
    BY <1>0, <1>2, RestoreNears
  <2>2. RefreshAt' /\ (RefreshLeft' = RefreshLeft \/ RefreshLeft' \in 18..20)
    BY <1>0, <2>1, LeftAlone, TurnsAre, RefreshRange DEF RefreshAt
  <2>3. AllAt' /\ LogoutLeft' = LogoutLeft
    BY <1>0, <2>1, <2>2, LeftAlone DEF AllAt
  <2>4. RestoreLeft' \in 0..11
    BY <2>3, Counts
  <2>5. Ahead' < Ahead
    BY <1>0, <2>1, <2>2, <2>4 DEF Ahead
  <2>6. Ahead' \in Nat /\ Ahead \in Nat
    BY <1>0, <2>2, <2>4 DEF Ahead
  <2> QED BY <1>0, <2>3, <2>5, <2>6, LogoutNears DEF Onward
<1>3. CASE LogoutStep
  <2>1. LogoutLeft' < LogoutLeft /\ LogoutAt' /\ UNCHANGED <<web, refresh, restore>>
    BY <1>0, <1>3, LogoutNears
  <2>2. AllAt' /\ RestoreLeft' = RestoreLeft /\ RefreshLeft' = RefreshLeft
    BY <1>0, <2>1, LeftAlone DEF AllAt
  <2>3. ~RefreshStep /\ ~RestoreStep
    BY <1>0, <2>2, RefreshNears, RestoreNears
  <2>4. LogoutLeft' \in 0..14
    BY <2>2, Counts
  <2> QED BY <1>0, <2>1, <2>2, <2>3, <2>4 DEF Onward, Ahead
<1>4. CASE ~RefreshStep /\ ~RestoreStep /\ ~LogoutStep
  <2>1. ASSUME UNCHANGED <<web, refresh, restore, logout>> PROVE Onward
    BY <1>0, <1>4, <2>1, LeftAlone, OthersOnward DEF AllAt
  <2>2. ASSUME ServeRefresh \/ ServeBrowser \/ ServeLogout \/ ServeRenew \/ ServeWebLogout PROVE Onward
    <3>1. CASE ServeRefresh
      <4>1. RefreshLeft' < RefreshLeft /\ RefreshAt' /\ UNCHANGED <<web, restore, logout>>
        BY <1>0, <3>1, ServersAnswer
      <4>2. AllAt' /\ LogoutLeft' = LogoutLeft /\ RestoreLeft' = RestoreLeft
        BY <1>0, <4>1, LeftAlone DEF AllAt
      <4>3. RefreshLeft' \in 0..20
        BY <4>2, Counts
      <4> QED BY <1>0, <1>4, <4>1, <4>2, <4>3, OthersOnward
    <3>2. CASE ServeBrowser
      <4>1. RestoreLeft' < RestoreLeft /\ RestoreAt' /\ UNCHANGED <<web, refresh, logout>>
        BY <1>0, <3>2, ServersAnswer
      <4>2. AllAt' /\ LogoutLeft' = LogoutLeft /\ RefreshLeft' = RefreshLeft
        BY <1>0, <4>1, LeftAlone DEF AllAt
      <4>3. RestoreLeft' \in 0..11
        BY <4>2, Counts
      <4> QED BY <1>0, <1>4, <4>1, <4>2, <4>3, OthersOnward
    <3>3. CASE ServeLogout \/ ServeRenew \/ ServeWebLogout
      <4>1. LogoutLeft' <= LogoutLeft /\ LogoutAt' /\ UNCHANGED <<web, refresh, restore>>
        BY <1>0, <3>3, ServersAnswer
      <4>2. AllAt' /\ RefreshLeft' = RefreshLeft /\ RestoreLeft' = RestoreLeft
        BY <1>0, <4>1, LeftAlone DEF AllAt
      <4> QED BY <1>0, <1>4, <4>1, <4>2, OthersOnward
    <3> QED BY <2>2, <3>1, <3>2, <3>3
  <2>3. ASSUME AllAt', ~WebEnding, UNCHANGED <<web, logout>> PROVE Onward
    BY <1>0, <1>4, <2>3, LeftAlone, OthersOnward
  <2>4. ASSUME NEW c \in Caller, ContinueRefresh(c) PROVE Onward
    <3>1. CASE Overtaken
      BY <2>1, <2>4, <3>1 DEF ContinueRefresh
    <3>2. CASE ~Overtaken
      <4>1. ~WebEnding /\ UNCHANGED <<web, logout>>
        BY <2>4, <3>2 DEF ContinueRefresh, Overtaken
      <4>2. refresh' = refresh \/ (refresh = Idle /\ refresh'.pc = "start")
        BY <2>4, HandsOver DEF ContinueRefresh
      <4>3. restore' = restore \/ (restore'.pc = "pending" /\ restore'.ans = "none")
        BY <2>4 DEF ContinueRefresh, Idle
      <4>4. RefreshAt' /\ RestoreAt' /\ LogoutAt'
        BY <1>0, <4>1, <4>2, <4>3, LeftAlone DEF RefreshAt, RestoreAt
      <4> QED BY <2>3, <4>1, <4>4 DEF AllAt
    <3> QED BY <3>1, <3>2
  <2>5. ASSUME StartRestore PROVE Onward
    <3>1. ~WebEnding /\ UNCHANGED <<web, logout, refresh>>
      BY <2>5 DEF StartRestore
    <3>2. restore'.pc = "read" /\ restore'.ans = "none"
      BY <2>5 DEF StartRestore, Starting, Idle
    <3>3. AllAt'
      BY <1>0, <3>1, <3>2, LeftAlone DEF AllAt, RestoreAt
    <3> QED BY <2>3, <3>1, <3>3
  <2>6. ASSUME StartLogout PROVE Onward
    <3>1. logout = Idle /\ UNCHANGED <<web, refresh, restore>>
      BY <2>6 DEF StartLogout
    <3>2. logout'.pc = (IF web THEN "wait" ELSE "end") /\ logout'.ans = "none"
      BY <2>6 DEF StartLogout, Idle
    <3>3. LogoutAt'
      BY <3>1, <3>2 DEF LogoutAt
    <3>4. AllAt' /\ RefreshLeft' = RefreshLeft /\ RestoreLeft' = RestoreLeft
      BY <1>0, <3>1, <3>3, LeftAlone DEF AllAt
    <3> QED BY <1>0, <1>4, <3>1, <3>4, OthersOnward
  <2>7. ASSUME Restart PROVE Onward
    <3>1. refresh' = Idle /\ logout' = Idle
      BY <2>7 DEF Restart
    <3>2. restore'.pc = "read" /\ restore'.ans = "none"
      BY <2>7 DEF Restart, Starting, Idle
    <3>3. AllAt'
      BY <3>1, <3>2, IdleLeft DEF AllAt, RestoreAt
    <3>4. LogoutLeft' = 2
      BY <3>1, IdleLeft
    <3>5. logout # Idle => LogoutLeft > 2
      BY <1>0, TurnsAre, LogoutRange DEF LogoutAt
    <3> QED BY <1>0, <1>4, <3>1, <3>3, <3>4, <3>5, OthersOnward
  <2>8. ASSUME NEW s \in Session, Login(s) \/ Revoke(s) \/ \E g \in 0..MaxGen : Tick(s, g) PROVE Onward
    BY <2>1, <2>8 DEF Login, Revoke, Tick
  <2>9. ASSUME NEW c \in Caller, CallRefresh(c) \/ EndRefresh(c) PROVE Onward
    BY <2>1, <2>9 DEF CallRefresh, EndRefresh
  <2>10. ASSUME LoseLogin \/ KeepLogin \/ AdoptPair \/ Recover \/ UNCHANGED vars PROVE Onward
    BY <2>1, <2>10 DEF LoseLogin, KeepLogin, AdoptPair, Recover, vars
  <2> QED BY <1>4, <2>2, <2>4, <2>5, <2>6, <2>7, <2>8, <2>9, <2>10 DEF Next
<1> QED BY <1>1, <1>2, <1>3, <1>4

LEMMA AtFirst == Init => AllAt
  BY DEF Init, Starting, Idle, AllAt, RefreshAt, RestoreAt, LogoutAt

LEMMA AlwaysAt == Spec => [](TypeOK /\ AllAt)
<1>1. TypeOK /\ AllAt /\ [Next]_vars => AllAt'
  BY StepOnward DEF Onward
<1> QED BY <1>1, AtFirst, SessionTypes, PTL DEF Spec

(* A logout is never stuck: it can take its next step, or it is a browser's that
   waits for a restore or a refresh, and one of these can take its own
   (session.ts logout() awaits both promises). *)
THEOREM LogoutProceeds ==
  Spec => [](logout # Idle /\ NewId # {} => LogoutReady \/ (web /\ (RefreshReady \/ RestoreReady)))
<1>1. ASSUME TypeOK, AllAt, logout # Idle, NewId # {}
      PROVE  LogoutReady \/ (web /\ (RefreshReady \/ RestoreReady))
  <2>1. refresh.ans \in Answer /\ restore.ans \in Answer /\ logout.ans \in Answer
    BY <1>1, OpFields DEF TypeOK
  <2>2. CASE logout.pc = "wait"
    <3>1. web
      BY <1>1, <2>2 DEF AllAt, LogoutAt
    <3>2. refresh # Idle => RefreshReady
      BY <1>1, <2>1 DEF AllAt, RefreshAt, RefreshReady, Answer
    <3>3. refresh = Idle /\ restore # Idle => RestoreReady
      BY <1>1, <2>1 DEF AllAt, RestoreAt, RestoreReady, Answer
    <3> QED BY <2>2, <3>1, <3>2, <3>3 DEF LogoutReady
  <2>3. CASE logout.pc # "wait"
    BY <1>1, <2>3 DEF AllAt, LogoutAt, LogoutReady
  <2> QED BY <2>2, <2>3
<1> QED BY <1>1, AlwaysAt, PTL

(* Every step of a logout brings it nearer to its end, nobody sets it back, and
   while a browser waits to log out every step of the restore or the refresh it
   waits for brings these nearer to theirs: no caller begins another
   (browserLogoutInFlight in session.ts). *)
THEOREM LogoutAdvances ==
  Spec => [][/\ logout # Idle => LogoutLeft' <= LogoutLeft /\ (LogoutStep => LogoutLeft' < LogoutLeft)
             /\ WebEnding => \/ logout' = Idle
                             \/ Ahead' <= Ahead /\ (RefreshStep \/ RestoreStep => Ahead' < Ahead)]_vars
<1>1. TypeOK /\ AllAt /\ [Next]_vars =>
        [/\ logout # Idle => LogoutLeft' <= LogoutLeft /\ (LogoutStep => LogoutLeft' < LogoutLeft)
         /\ WebEnding => \/ logout' = Idle
                         \/ Ahead' <= Ahead /\ (RefreshStep \/ RestoreStep => Ahead' < Ahead)]_vars
  BY StepOnward DEF Onward
<1> QED BY <1>1, AlwaysAt, PTL DEF Spec

=============================================================================
