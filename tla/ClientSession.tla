--------------------------- MODULE ClientSession ---------------------------
(***************************************************************************)
(* The session of one installation of an application: the manager of       *)
(* src/services/identity/clients/session.ts and the rows it talks to in    *)
(* Identity.  Every await of the manager that another call can overtake is *)
(* a step of its own.  web tells the two hosts apart: a native app keeps   *)
(* both tokens in the key store; a browser keeps the access token in       *)
(* memory and the refresh token in a cookie only the server reads.         *)
(***************************************************************************)
EXTENDS Naturals

CONSTANTS Session,   \* sessions Identity may create
          NoSession, \* the session of no token
          Caller,    \* bound: callers of getUsableAccessToken that overlap, by number
          MaxGen,    \* bound: rotations of one session
          MaxReq,    \* bound: refresh request ids
          MaxFaults  \* bound: restarts, failed writes of the key store, overlapping calls

ASSUME BoundsAssumption ==
  /\ NoSession \notin Session /\ Caller \subseteq Nat
  /\ MaxGen \in Nat /\ MaxReq \in Nat /\ MaxFaults \in Nat

VARIABLES
  web,      \* the host is a browser with a cookie session
  srv,      \* srv[s]: the row of session s in Identity
  cookie,   \* the refresh token in the cookie jar (web)
  store,    \* the stored session: key store, or memory of the page (web)
  tokens,   \* this.tokens
  state,    \* this.stateValue, a signed-out state named by its reason
  ident,    \* the token whose identity an authenticated state shows
  refresh,  \* refreshInFlight: performRefresh
  restore,  \* restoreInFlight: restoreFromStorage or restorePendingRefresh
  logout,   \* logout(), browserLogoutInFlight (web)
  adopt,    \* adopt() of a login
  caller,   \* caller[c]: getUsableAccessToken inside refresh()
  faults,
  owned,    \* history: sessions the app took up from a login (the pair stored, the
            \* cookie set) and nobody has asked since to end or to leave; not
            \* one taken up after operations have overlapped
  taken     \* history: a caller waited for a restore, or a caller, a restore or
            \* a login went on beside an operation that replaces what is stored

server == <<srv, cookie>>
memory == <<tokens, state, ident>>
count == <<faults, owned, taken>>
vars == <<web, srv, cookie, store, tokens, state, ident, refresh, restore,
          logout, adopt, caller, faults, owned, taken>>

----------------------------------------------------------------------------
(* Tokens are numbered by the rotation that made them. *)

Token == [s : Session, g : 0..MaxGen]
NoToken == [s |-> NoSession, g |-> 0]
MaybeToken == Token \union {NoToken}

CookieId == MaxReq + 1        \* the id the server derives from the cookie
ReqId == 0..CookieId          \* 0: no id

(* A stored session: tokens, and pendingRefresh as prev and req. *)
Stored == [t : MaybeToken, prev : MaybeToken, req : ReqId]
Plain(t) == [t |-> t, prev |-> NoToken, req |-> 0]
Pending(t, p, r) == [t |-> t, prev |-> p, req |-> r]
Empty == Plain(NoToken)

SignedOut == {"no_local_session", "terminal_invalidated", "local_proof_invalid",
              "explicit_logout", "recovery"}
Terminal == {"explicit_logout", "recovery"}   \* restore and refresh stop here
State == SignedOut \union {"restoring", "authenticated", "degraded"}

Answer == {"none", "ok", "unauthenticated", "stale", "network"}
Age == {"fresh", "recent", "old"}      \* 5 s race grace, 5 min reconciliation
Expiry == {"good", "near", "expired"}  \* near: inside the safety skew of 60 s

Row == [st : {"none", "live", "revoked", "compromised"}, gen : 0..MaxGen,
        by : ReqId, age : [0..MaxGen -> Age], exp : [0..MaxGen -> Expiry]]
NewRow == [st |-> "live", gen |-> 0, by |-> 0, age |-> [g \in 0..MaxGen |-> "fresh"],
           exp |-> [g \in 0..MaxGen |-> "good"]]

Op == [pc : {"idle", "start", "prepare", "sent", "keep1", "keep2", "read", "session", "recheck",
             "pending", "keep", "join", "await", "browser", "wait", "end", "renew", "end2"},
       t : MaybeToken, req : ReqId, ans : Answer, got : MaybeToken, snap : Stored]
Idle == [pc |-> "idle", t |-> NoToken, req |-> 0, ans |-> "none",
         got |-> NoToken, snap |-> Empty]

(* Every app restores when it starts. *)
Starting(stored) == [Idle EXCEPT !.pc = "read", !.snap = stored]

Init ==
  /\ web \in BOOLEAN
  /\ srv = [s \in Session |-> [NewRow EXCEPT !.st = "none"]]
  /\ cookie = NoToken /\ store = Empty
  /\ tokens = NoToken /\ state = "restoring" /\ ident = NoToken
  /\ refresh = Idle /\ restore = Starting(Empty) /\ logout = Idle /\ adopt = Idle
  /\ caller = [c \in Caller |-> Idle]
  /\ faults = 0 /\ owned = {} /\ taken = FALSE

----------------------------------------------------------------------------
(* Identity *)

(* ResolveAccessToken *)
Resolves(t) ==
  /\ t # NoToken
  /\ srv[t.s].st = "live" /\ srv[t.s].gen = t.g /\ srv[t.s].exp[t.g] # "expired"

(* Refresh, by what it answers: rotation, replay of the lost answer, stale
   inside the race grace, reuse, or no such session. *)
CanRotate(t) == t # NoToken /\ srv[t.s].st = "live" /\ srv[t.s].gen = t.g
CanReplayFresh(t, id) ==   \* mutant: the race grace in place of the five minutes
  /\ t # NoToken /\ srv[t.s].st = "live" /\ srv[t.s].gen = t.g + 1
  /\ srv[t.s].by = id /\ srv[t.s].age[t.g] = "fresh"

CanReplay(t, id) ==
  /\ t # NoToken /\ srv[t.s].st = "live" /\ srv[t.s].gen = t.g + 1
  /\ srv[t.s].by = id /\ srv[t.s].age[t.g] # "old"
IsStale(t, id) ==
  /\ t # NoToken /\ srv[t.s].st = "live" /\ t.g < srv[t.s].gen
  /\ ~CanReplay(t, id) /\ srv[t.s].age[t.g] = "fresh"
IsReuse(t, id) ==
  /\ t # NoToken /\ srv[t.s].st = "live" /\ t.g < srv[t.s].gen
  /\ ~CanReplay(t, id) /\ srv[t.s].age[t.g] # "fresh"

Refreshed(t, id) ==
  IF CanRotate(t)
  THEN [srv EXCEPT ![t.s] = [@ EXCEPT !.gen = t.g + 1, !.by = id, !.age[t.g] = "fresh",
                                      !.exp[t.g + 1] = "good"]]
  ELSE IF IsReuse(t, id) THEN [srv EXCEPT ![t.s].st = "compromised"] ELSE srv

RefreshAnswer(t, id) ==
  IF CanRotate(t) \/ CanReplay(t, id) THEN "ok"
  ELSE IF IsStale(t, id) THEN "stale" ELSE "unauthenticated"

Bounded(t) == CanRotate(t) => t.g < MaxGen
Renewed(t, id) == IF RefreshAnswer(t, id) = "ok" THEN [t EXCEPT !.g = @ + 1] ELSE NoToken

(* Logout: the row the access token names. *)
LoggedOut(t) == IF t # NoToken /\ srv[t.s].st = "live" /\ srv[t.s].gen = t.g
                THEN [srv EXCEPT ![t.s].st = "revoked"] ELSE srv

(* An operator, a recovery or a disabled role revokes the session. *)
Revoke(s) ==
  /\ srv[s].st = "live"
  /\ srv' = [srv EXCEPT ![s].st = "revoked"]
  /\ UNCHANGED <<web, cookie, store, memory, refresh, restore, logout, adopt, caller, count>>

Quiet == /\ refresh = Idle /\ restore = Idle /\ logout = Idle /\ adopt = Idle
         /\ \A c \in Caller : caller[c] = Idle

(* Time.  Calls end after seconds, tokens last 15 minutes: a token comes near
   its end, and a rotation leaves the reconciliation window, between calls. *)
Tick(s, g) ==
  /\ srv[s].st = "live" /\ g <= srv[s].gen
  /\ \/ /\ srv[s].exp[g] = "good" /\ Quiet
        /\ g > 0 => srv[s].age[g - 1] = "old"
        /\ srv' = [srv EXCEPT ![s].exp[g] = "near"]
     \/ /\ srv[s].exp[g] = "near"
        /\ srv' = [srv EXCEPT ![s].exp[g] = "expired"]
     \/ /\ g < srv[s].gen /\ srv[s].age[g] = "fresh"
        /\ srv' = [srv EXCEPT ![s].age[g] = "recent"]
     \/ /\ g < srv[s].gen /\ srv[s].age[g] = "recent" /\ Quiet
        /\ srv' = [srv EXCEPT ![s].age[g] = "old"]
  /\ UNCHANGED <<web, cookie, store, memory, refresh, restore, logout, adopt, caller, count>>

----------------------------------------------------------------------------
(* What the manager does to its own state *)

SignOut(reason) ==
  /\ tokens' = NoToken /\ store' = Empty /\ state' = reason /\ ident' = NoToken
Degrade(t) ==
  /\ tokens' = t /\ state' = "degraded" /\ ident' = NoToken /\ UNCHANGED store
Authenticate(t, identity) ==
  /\ tokens' = t /\ state' = "authenticated" /\ ident' = identity

(* A write of the key store fails (the await that made it degrades), the app
   restarts, or a second caller asks while one is waiting. *)
Fault == faults < MaxFaults /\ faults' = faults + 1

WebEnding == web /\ logout # Idle

----------------------------------------------------------------------------
(* getUsableAccessToken and refresh *)

(* The operation a caller awaits has ended; the caller goes on before the app
   handles anything else. *)
Returns(c) == \/ caller[c].pc = "join" /\ refresh = Idle
              \/ caller[c].pc = "await" /\ restore = Idle
Settled == /\ \A c \in Caller : ~Returns(c)
           /\ restore.pc = "join" => refresh # Idle

(* The state shows a token that is near its end: refresh() reads the store. *)
CallRefresh(c) ==
  /\ caller[c] = Idle /\ ~WebEnding /\ Settled
  /\ \A d \in Caller : d < c => caller[d] # Idle   \* callers are alike
  /\ state = "authenticated" /\ tokens # NoToken
  /\ srv[ident.s].exp[ident.g] # "good"
  /\ caller' = [caller EXCEPT ![c] =
       IF restore # Idle THEN [Idle EXCEPT !.pc = "await"]
       ELSE [Idle EXCEPT !.pc = "read", !.snap = store]]
  /\ IF \A d \in Caller : caller[d] = Idle THEN UNCHANGED faults ELSE Fault
  /\ UNCHANGED <<web, server, store, memory, refresh, restore, logout, adopt, owned, taken>>

(* What changed while the store was read ends the call or joins a restore. *)
Overtaken == WebEnding \/ state \in Terminal

StartRefresh(t, id) ==
  refresh' = IF refresh # Idle THEN refresh
             ELSE [Idle EXCEPT !.pc = "start", !.t = t, !.req = id]

ContinueRefresh(c) ==
  /\ caller[c].pc = "read"
  /\ LET snap == caller[c].snap IN
     \/ /\ Overtaken
        /\ caller' = [caller EXCEPT ![c] = Idle]
        /\ UNCHANGED <<store, memory, refresh, restore>>
     \/ /\ ~Overtaken /\ restore # Idle
        /\ caller' = [caller EXCEPT ![c] = [Idle EXCEPT !.pc = "await"]]
        /\ UNCHANGED <<store, memory, refresh, restore>>
     \/ /\ ~Overtaken /\ restore = Idle /\ snap = Empty
        /\ SignOut("no_local_session")
        /\ caller' = [caller EXCEPT ![c] = Idle]
        /\ UNCHANGED <<refresh, restore>>
     \/ /\ ~Overtaken /\ restore = Idle /\ snap # Empty
        /\ tokens' = snap.t
        /\ IF snap.prev # NoToken
           THEN /\ restore' = [Idle EXCEPT !.pc = "pending", !.snap = snap]
                /\ UNCHANGED refresh
           ELSE StartRefresh(snap.t, 0) /\ UNCHANGED restore
        /\ caller' = [caller EXCEPT ![c] =
             [Idle EXCEPT !.pc = IF snap.prev # NoToken THEN "await" ELSE "join"]]
        /\ UNCHANGED <<store, state, ident>>
  /\ taken' = (taken \/ caller'[c].pc = "await" \/ (caller'[c].pc = "join" /\ caller[c].snap # store))
  /\ UNCHANGED <<web, server, logout, adopt, faults, owned>>

(* The awaited operation ended: its answer must be usable. *)
EndRefresh(c) ==
  /\ Returns(c)
  /\ caller' = [caller EXCEPT ![c] = Idle]
  /\ IF /\ ~WebEnding /\ state = "authenticated"
        /\ tokens = NoToken \/ srv[ident.s].exp[ident.g] # "good"
     THEN SignOut("local_proof_invalid")
     ELSE UNCHANGED <<store, memory>>
  /\ UNCHANGED <<web, server, refresh, restore, logout, adopt, count>>

----------------------------------------------------------------------------
(* performRefresh: the request id is stored before the request leaves, so
   that a lost answer can be asked for again. *)

(* A request id nothing names any more stands for a fresh one; Identity
   compares ids with that of the latest rotation only. *)
IdsInUse == {srv[s].by : s \in Session}
            \union {store.req, refresh.req, restore.req, logout.req,
                    refresh.snap.req, restore.snap.req, logout.snap.req}
            \union {caller[c].snap.req : c \in Caller}
NewId == {i \in 1..MaxReq : i \notin IdsInUse /\ \A j \in 1..i - 1 : j \in IdsInUse}

Others == <<web, logout, adopt, caller, owned, taken>>

PrepareUnstored ==   \* mutant: the request id is not stored before the request
  /\ refresh.pc = "start"
  /\ \E id \in NewId : refresh' = [refresh EXCEPT !.pc = "sent",
                                  !.req = IF refresh.req = 0 THEN id ELSE refresh.req]
  /\ UNCHANGED <<server, store, memory, restore, faults, Others>>

PrepareRefresh ==
  /\ refresh.pc = "start"
  /\ \/ /\ refresh.req # 0
        /\ refresh' = [refresh EXCEPT !.pc = "sent"]
        /\ UNCHANGED <<store, memory, faults>>
     \/ /\ refresh.req = 0
        /\ \E id \in NewId :
             /\ store' = Pending(refresh.t, refresh.t, id)
             /\ refresh' = [refresh EXCEPT !.pc = "prepare", !.req = id]
        /\ UNCHANGED <<memory, faults>>
     \/ /\ refresh.req = 0 /\ Fault
        /\ Degrade(tokens) /\ refresh' = Idle
  /\ UNCHANGED <<server, restore, Others>>

(* persistSession reads back what it wrote. *)
SendRefresh ==
  /\ refresh.pc = "prepare"
  /\ IF store = Pending(refresh.t, refresh.t, refresh.req)
     THEN refresh' = [refresh EXCEPT !.pc = "sent"] /\ UNCHANGED <<store, memory>>
     ELSE refresh' = Idle /\ Degrade(tokens)
  /\ UNCHANGED <<server, restore, faults, Others>>

(* A browser sends its cookie, whatever the body names. *)
Sent(t) == IF web THEN cookie ELSE t
SentId(id) == IF web THEN CookieId ELSE id

ServeRefresh ==
  /\ refresh.pc = "sent" /\ refresh.ans = "none"
  /\ LET t == Sent(refresh.t)  id == SentId(refresh.req) IN
     /\ Bounded(t)
     /\ srv' = Refreshed(t, id)
     /\ refresh' = [refresh EXCEPT !.ans = RefreshAnswer(t, id), !.got = Renewed(t, id)]
  /\ UNCHANGED <<cookie, store, memory, restore, faults, Others>>

LoseAnswer ==   \* mutant: a request nobody serves waits for ever
  /\ refresh.pc = "sent" /\ refresh.ans = "ok"
  /\ refresh' = [refresh EXCEPT !.ans = "network"]
  /\ UNCHANGED <<server, store, memory, restore, faults, Others>>

(* The request or its answer is lost, or the eight seconds are over. *)
LoseRefresh ==
  /\ refresh.pc = "sent" /\ refresh.ans # "network"
  /\ refresh' = [refresh EXCEPT !.ans = "network", !.got = NoToken]
  /\ UNCHANGED <<server, store, memory, restore, faults, Others>>

(* The cookie an answer of the browser endpoint sets or clears. *)
CookieAfter(ans, got) ==
  IF ~web THEN cookie
  ELSE CASE ans = "ok" -> got [] ans = "unauthenticated" -> NoToken [] OTHER -> cookie

AnswerRefresh ==
  /\ refresh.pc = "sent"
  /\ cookie' = CookieAfter(refresh.ans, refresh.got)
  /\ \/ /\ refresh.ans = "ok"
        /\ store' = Pending(refresh.got, refresh.t, refresh.req)
        /\ refresh' = [refresh EXCEPT !.pc = "keep1"]
        /\ UNCHANGED <<memory, faults>>
     \/ /\ refresh.ans = "ok" /\ Fault
        /\ Degrade(refresh.t) /\ refresh' = Idle
     \/ /\ refresh.ans = "stale"
        /\ refresh' = [refresh EXCEPT !.pc = "recheck", !.snap = store]
        /\ UNCHANGED <<store, memory, faults>>
     \/ /\ refresh.ans = "unauthenticated"
        /\ SignOut("terminal_invalidated") /\ refresh' = Idle /\ UNCHANGED faults
     \/ /\ refresh.ans = "network"
        /\ Degrade(tokens) /\ refresh' = Idle /\ UNCHANGED faults
  /\ UNCHANGED <<srv, restore, Others>>

(* adoptRefreshed: the new tokens first with, then without, pendingRefresh. *)
KeepRefreshed ==
  /\ refresh.pc = "keep1"
  /\ \/ /\ store = Pending(refresh.got, refresh.t, refresh.req)
        /\ store' = Plain(refresh.got)
        /\ refresh' = [refresh EXCEPT !.pc = "keep2"]
        /\ UNCHANGED <<memory, faults>>
     \/ /\ store = Pending(refresh.got, refresh.t, refresh.req) /\ Fault
        /\ Degrade(refresh.t) /\ refresh' = Idle
     \/ /\ store # Pending(refresh.got, refresh.t, refresh.req)
        /\ Degrade(refresh.t) /\ refresh' = Idle /\ UNCHANGED faults
  /\ UNCHANGED <<server, restore, Others>>

AdoptRefreshed ==
  /\ refresh.pc = "keep2"
  /\ IF store = Plain(refresh.got)
     THEN Authenticate(refresh.got, refresh.got) /\ UNCHANGED store
     ELSE Degrade(refresh.t)
  /\ refresh' = Idle
  /\ UNCHANGED <<server, restore, faults, Others>>

(* reconcileRefreshConflict: somebody else's rotation may be in the store. *)
RecheckConflict ==
  /\ refresh.pc = "recheck"
  /\ IF refresh.snap = Empty \/ refresh.snap.t = refresh.t
     THEN refresh' = Idle /\ Degrade(tokens)
     ELSE refresh' = [refresh EXCEPT !.pc = "session", !.ans = "none"]
          /\ UNCHANGED <<store, memory>>
  /\ UNCHANGED <<server, restore, faults, Others>>

SessionAnswer(t) == IF Resolves(t) THEN {"ok", "network"} ELSE {"unauthenticated", "network"}

AskConflict ==
  /\ refresh.pc = "session" /\ refresh.ans = "none"
  /\ \E a \in SessionAnswer(refresh.snap.t) : refresh' = [refresh EXCEPT !.ans = a]
  /\ UNCHANGED <<server, store, memory, restore, faults, Others>>

EndConflict ==
  /\ \/ /\ refresh.pc = "session" /\ refresh.ans \in {"unauthenticated", "network"}
        /\ Degrade(tokens) /\ refresh' = Idle /\ UNCHANGED faults
     \/ /\ refresh.pc = "session" /\ refresh.ans = "ok" /\ refresh.snap.prev = NoToken
        /\ Authenticate(refresh.snap.t, refresh.snap.t)
        /\ refresh' = Idle /\ UNCHANGED <<store, faults>>
     \/ /\ refresh.pc = "session" /\ refresh.ans = "ok" /\ refresh.snap.prev # NoToken
        /\ store' = Plain(refresh.snap.t)
        /\ refresh' = [refresh EXCEPT !.pc = "keep"] /\ UNCHANGED <<memory, faults>>
     \/ /\ refresh.pc = "session" /\ refresh.ans = "ok" /\ refresh.snap.prev # NoToken
        /\ Fault /\ Degrade(tokens) /\ refresh' = Idle
     \/ /\ refresh.pc = "keep"
        /\ IF store = Plain(refresh.snap.t)
           THEN Authenticate(refresh.snap.t, refresh.snap.t) /\ UNCHANGED store
           ELSE Degrade(tokens)
        /\ refresh' = Idle /\ UNCHANGED faults
  /\ UNCHANGED <<server, restore, Others>>

----------------------------------------------------------------------------
(* restore: at the start of the app and from the retry of a degraded screen *)

Restoring == <<web, logout, adopt, caller, owned, taken>>

StartRestore ==
  /\ Settled /\ ~WebEnding /\ state \notin Terminal /\ state # "authenticated" /\ restore = Idle
  /\ state' = "restoring" /\ ident' = NoToken
  /\ restore' = Starting(store)
  /\ taken' = (taken \/ refresh # Idle \/ adopt.pc = "sent")
  /\ UNCHANGED <<server, store, tokens, refresh, faults, web, logout, adopt, caller, owned>>

ReadStored ==
  /\ restore.pc = "read"
  /\ \/ /\ restore.snap = Empty /\ ~web
        /\ SignOut("no_local_session") /\ restore' = Idle
     \/ /\ restore.snap = Empty /\ web
        /\ tokens' = NoToken /\ restore' = [restore EXCEPT !.pc = "browser"]
        /\ UNCHANGED <<store, state, ident>>
     \/ /\ restore.snap # Empty
        /\ tokens' = restore.snap.t
        /\ restore' = [restore EXCEPT !.pc =
             IF restore.snap.prev = NoToken THEN "session" ELSE "pending"]
        /\ UNCHANGED <<store, state, ident>>
  /\ UNCHANGED <<server, refresh, faults, Restoring>>

AskSession ==
  /\ restore.pc \in {"session", "pending"} /\ restore.ans = "none"
  /\ \E a \in SessionAnswer(restore.snap.t) : restore' = [restore EXCEPT !.ans = a]
  /\ UNCHANGED <<server, store, memory, refresh, faults, Restoring>>

EndSession ==
  /\ restore.pc = "session"
  /\ \/ /\ restore.ans = "ok"
        /\ state' = "authenticated" /\ ident' = restore.snap.t
        /\ restore' = Idle /\ UNCHANGED <<store, tokens, refresh>>
     \/ /\ restore.ans = "unauthenticated"
        /\ StartRefresh(restore.snap.t, 0)
        /\ restore' = [Idle EXCEPT !.pc = "join"]
        /\ UNCHANGED <<store, memory>>
     \/ /\ restore.ans = "network"
        /\ Degrade(tokens) /\ restore' = Idle /\ UNCHANGED refresh
  /\ UNCHANGED <<server, faults, Restoring>>

(* restorePendingRefresh: while the old access token answers, the rotation
   has not happened; otherwise the same request is sent again. *)
EndPending ==
  /\ restore.pc = "pending"
  /\ \/ /\ restore.ans = "ok"
        /\ store' = Plain(restore.snap.t)
        /\ restore' = [Idle EXCEPT !.pc = "keep", !.snap = restore.snap]
        /\ UNCHANGED <<memory, refresh, faults>>
     \/ /\ restore.ans = "ok" /\ Fault
        /\ Degrade(tokens) /\ restore' = Idle /\ UNCHANGED refresh
     \/ /\ restore.ans = "unauthenticated"
        /\ tokens' = restore.snap.prev
        /\ StartRefresh(restore.snap.prev, restore.snap.req)
        /\ restore' = [Idle EXCEPT !.pc = "join"]
        /\ UNCHANGED <<store, state, ident, faults>>
     \/ /\ restore.ans = "network"
        /\ Degrade(tokens) /\ restore' = Idle /\ UNCHANGED <<refresh, faults>>
  /\ UNCHANGED <<server, Restoring>>

KeepPending ==
  /\ restore.pc = "keep"
  /\ IF store = Plain(restore.snap.t)
     THEN Authenticate(restore.snap.t, restore.snap.t) /\ UNCHANGED store
     ELSE Degrade(tokens)
  /\ restore' = Idle
  /\ UNCHANGED <<server, refresh, faults, Restoring>>

JoinRefresh ==
  /\ restore.pc = "join" /\ refresh = Idle
  /\ restore' = Idle
  /\ UNCHANGED <<server, store, memory, refresh, faults, Restoring>>

(* restoreBrowserSession: a new page asks for tokens with its cookie. *)
ServeBrowser ==
  /\ restore.pc = "browser" /\ restore.ans = "none" /\ Bounded(cookie)
  /\ srv' = Refreshed(cookie, CookieId)
  /\ restore' = [restore EXCEPT !.ans = RefreshAnswer(cookie, CookieId), !.got = Renewed(cookie, CookieId)]
  /\ UNCHANGED <<cookie, store, memory, refresh, faults, Restoring>>

LoseBrowser ==
  /\ restore.pc = "browser" /\ restore.ans # "network"
  /\ restore' = [restore EXCEPT !.ans = "network", !.got = NoToken]
  /\ UNCHANGED <<server, store, memory, refresh, faults, Restoring>>

EndBrowser ==
  /\ restore.pc = "browser" /\ restore.ans # "none"
  /\ cookie' = CookieAfter(restore.ans, restore.got)
  /\ \/ /\ restore.ans = "ok" /\ WebEnding
        /\ restore' = Idle /\ UNCHANGED <<store, memory>>
     \/ /\ restore.ans = "ok" /\ ~WebEnding
        /\ store' = Plain(restore.got)
        /\ restore' = [Idle EXCEPT !.pc = "keep", !.snap = Plain(restore.got)]
        /\ UNCHANGED memory
     \/ /\ restore.ans \in {"stale", "unauthenticated"}
        /\ SignOut("no_local_session") /\ restore' = Idle
     \/ /\ restore.ans = "network"
        /\ Degrade(tokens) /\ restore' = Idle
  /\ UNCHANGED <<srv, refresh, faults, Restoring>>

----------------------------------------------------------------------------
(* adopt: a login.  It waits for nothing: an operation of the session before
   it that is still under way may write over it. *)

(* The login is sent and Identity creates the session; what the app does until
   the answer is handled are steps of their own. *)
Login(s) ==
  /\ Settled /\ state \in SignedOut /\ adopt = Idle /\ ~WebEnding
  /\ srv[s].st = "none"
  /\ srv' = [srv EXCEPT ![s] = NewRow]
  /\ adopt' = [Idle EXCEPT !.pc = "sent", !.t = [s |-> s, g |-> 0]]
  /\ taken' = (taken \/ ~Quiet)
  /\ UNCHANGED <<web, cookie, store, memory, refresh, restore, logout, caller, faults, owned>>

(* The answer is lost or comes too late: the screen shows an error, and the
   session lives on in Identity without a device. *)
LoseLogin ==
  /\ adopt.pc = "sent"
  /\ adopt' = Idle
  /\ UNCHANGED <<web, server, store, memory, refresh, restore, logout, caller, count>>

(* The answer is there: a browser has its cookie, and the pair is written.
   When the key store refuses, a phone is left degraded and without it; the
   store of a page is memory and takes every write. *)
KeepLogin ==
  /\ adopt.pc = "sent"
  /\ cookie' = IF web THEN adopt.t ELSE cookie
  /\ \/ /\ store' = Plain(adopt.t)
        /\ adopt' = [adopt EXCEPT !.pc = "keep"]
        /\ owned' = IF taken THEN owned ELSE owned \union {adopt.t.s}
        /\ UNCHANGED <<memory, faults>>
     \/ /\ ~web /\ Fault /\ Degrade(tokens)
        /\ adopt' = Idle /\ UNCHANGED owned
  /\ UNCHANGED <<web, srv, refresh, restore, logout, caller, taken>>

(* The pair is read back before the state shows it. *)
AdoptPair ==
  /\ adopt.pc = "keep"
  /\ IF store = Plain(adopt.t)
     THEN Authenticate(adopt.t, adopt.t) /\ UNCHANGED store
     ELSE Degrade(tokens)
  /\ adopt' = Idle
  /\ UNCHANGED <<web, server, refresh, restore, logout, caller, count>>

----------------------------------------------------------------------------
(* logout of a native app: local state ends whatever Identity answers *)

Live == {s \in Session : srv[s].st = "live"}

StartLogout ==
  /\ Settled /\ state = "authenticated" /\ logout = Idle
  /\ owned' = owned \ Live
  /\ logout' = IF web THEN [Idle EXCEPT !.pc = "wait"]
               ELSE [Idle EXCEPT !.pc = "end", !.snap = store,
                                 !.t = IF store = Empty THEN tokens ELSE store.t]
  /\ UNCHANGED <<web, server, store, memory, refresh, restore, adopt, caller, faults, taken>>

Ending == <<web, store, memory, refresh, restore, adopt, caller, owned, taken>>

(* client.logout with the stored access token, and again with a renewed one *)
ServeLogout ==
  /\ logout.pc \in {"end", "end2"} /\ logout.ans = "none" /\ ~web
  /\ LET t == IF logout.pc = "end" THEN logout.t ELSE logout.got IN
     /\ srv' = LoggedOut(t)
     /\ logout' = [logout EXCEPT !.ans = IF srv' = srv THEN "unauthenticated" ELSE "ok"]
  /\ UNCHANGED <<cookie, faults, Ending>>

(* An access token that has ended is renewed to end the session with it. *)
RenewToEnd ==
  /\ logout.pc = "end" /\ ~web /\ logout.ans = "unauthenticated" /\ logout.t # NoToken
  /\ IF logout.snap.prev # NoToken
     THEN logout' = [Idle EXCEPT !.pc = "renew", !.t = logout.snap.prev, !.req = logout.snap.req]
     ELSE \E id \in NewId :
            logout' = [Idle EXCEPT !.pc = "renew", !.t = logout.t, !.req = id]
  /\ UNCHANGED <<server, faults, Ending>>

ServeRenew ==
  /\ logout.pc = "renew" /\ logout.ans = "none" /\ Bounded(logout.t)
  /\ srv' = Refreshed(logout.t, logout.req)
  /\ logout' = [logout EXCEPT !.ans = RefreshAnswer(logout.t, logout.req), !.got = Renewed(logout.t, logout.req)]
  /\ UNCHANGED <<cookie, faults, Ending>>

EndRenewed ==
  /\ logout.pc = "renew" /\ logout.ans = "ok"
  /\ logout' = [Idle EXCEPT !.pc = "end2", !.got = logout.got]
  /\ UNCHANGED <<server, faults, Ending>>

LoseLogout ==
  /\ logout.pc \in {"end", "renew", "end2"} /\ logout.ans # "network"
  /\ logout' = [Idle EXCEPT !.pc = "end", !.ans = "network"]
  /\ UNCHANGED <<server, faults, Ending>>

(* The finally block; the removal of the stored session may fail unseen. *)
EndLogout ==
  /\ ~web /\ logout.pc \in {"end", "renew", "end2"}
  /\ \/ logout.ans = "network"
     \/ logout.pc = "end" /\ logout.ans = "ok"
     \/ logout.pc = "renew" /\ logout.ans \in {"stale", "unauthenticated"}
     \/ logout.pc = "end2" /\ logout.ans \in {"ok", "unauthenticated"}
     \/ logout.pc = "end" /\ logout.t = NoToken
  /\ \/ SignOut("explicit_logout") /\ UNCHANGED faults
     \/ /\ Fault /\ UNCHANGED store
        /\ tokens' = NoToken /\ state' = "explicit_logout" /\ ident' = NoToken
  /\ logout' = Idle
  /\ UNCHANGED <<web, server, refresh, restore, adopt, caller, owned, taken>>

(* logout of a browser: it waits for what may still set the cookie, and ends
   only when Identity has revoked the session and cleared the cookie *)

EndAtOnce ==   \* mutant: does not wait for a rotation under way
  /\ logout.pc = "wait"
  /\ logout' = [logout EXCEPT !.pc = "end", !.t = tokens]
  /\ UNCHANGED <<server, faults, Ending>>

WaitToEnd ==
  /\ logout.pc = "wait" /\ restore = Idle /\ refresh = Idle
  /\ logout' = [logout EXCEPT !.pc = "end", !.t = tokens]
  /\ UNCHANGED <<server, faults, Ending>>

ServeWebLogout ==
  /\ web /\ logout.pc = "end" /\ logout.ans = "none"
  /\ LET bearer == IF Resolves(logout.t) THEN {logout.t.s} ELSE {}
         jar == IF cookie # NoToken /\ srv[cookie.s].st = "live" /\ ~IsStale(cookie, CookieId)
                THEN {cookie.s} ELSE {}
     IN srv' = [s \in Session |-> IF s \in bearer \union jar
                                  THEN [srv[s] EXCEPT !.st = "revoked"] ELSE srv[s]]
  /\ logout' = [logout EXCEPT !.ans = "ok"]
  /\ UNCHANGED <<cookie, faults, Ending>>

EndWebLogout ==
  /\ web /\ logout.pc = "end" /\ logout.ans \in {"ok", "network"}
  /\ IF logout.ans = "ok"
     THEN SignOut("explicit_logout") /\ cookie' = NoToken
     ELSE UNCHANGED <<store, memory, cookie>>
  /\ logout' = Idle
  /\ UNCHANGED <<web, srv, refresh, restore, adopt, caller, count>>

(* clearLocalSession: the password was recovered, Identity ended the role's
   sessions *)
Recover ==
  /\ state \in SignedOut /\ ~WebEnding
  /\ SignOut("recovery")
  /\ srv' = [s \in Session |-> IF srv[s].st = "live" THEN [srv[s] EXCEPT !.st = "revoked"] ELSE srv[s]]
  /\ UNCHANGED <<web, cookie, refresh, restore, logout, adopt, caller, count>>

(* The app is killed or the page reloaded; a page loses its memory. *)
Restart ==
  /\ Fault
  /\ tokens' = NoToken /\ state' = "restoring" /\ ident' = NoToken
  /\ store' = IF web THEN Empty ELSE store
  /\ refresh' = Idle /\ restore' = Starting(store') /\ logout' = Idle /\ adopt' = Idle
  /\ caller' = [c \in Caller |-> Idle]
  /\ UNCHANGED <<web, server, owned, taken>>

----------------------------------------------------------------------------

RefreshStep == PrepareRefresh \/ SendRefresh \/ LoseRefresh \/ AnswerRefresh
               \/ KeepRefreshed \/ AdoptRefreshed \/ RecheckConflict \/ AskConflict \/ EndConflict
RestoreStep == ReadStored \/ AskSession \/ EndSession \/ EndPending \/ KeepPending
               \/ JoinRefresh \/ LoseBrowser \/ EndBrowser
LogoutStep == RenewToEnd \/ EndRenewed \/ LoseLogout \/ EndLogout \/ WaitToEnd \/ EndWebLogout

Next ==
  \/ \E s \in Session : Login(s) \/ Revoke(s) \/ \E g \in 0..MaxGen : Tick(s, g)
  \/ \E c \in Caller : CallRefresh(c) \/ ContinueRefresh(c) \/ EndRefresh(c)
  \/ RefreshStep \/ ServeRefresh
  \/ StartRestore \/ RestoreStep \/ ServeBrowser
  \/ LoseLogin \/ KeepLogin \/ AdoptPair
  \/ StartLogout \/ LogoutStep \/ ServeLogout \/ ServeRenew \/ ServeWebLogout
  \/ Recover \/ Restart

Spec == Init /\ [][Next]_vars

(* Every call of the client is aborted after eight seconds and every answer
   is handled: an operation that has begun takes its next step. *)
Fairness == /\ WF_vars(RefreshStep) /\ WF_vars(RestoreStep) /\ WF_vars(LogoutStep)

FairSpec == Spec /\ Fairness

----------------------------------------------------------------------------

TypeOK ==
  /\ web \in BOOLEAN /\ srv \in [Session -> Row]
  /\ cookie \in MaybeToken /\ store \in Stored /\ tokens \in MaybeToken
  /\ state \in State /\ ident \in MaybeToken
  /\ refresh \in Op /\ restore \in Op /\ logout \in Op /\ adopt \in Op
  /\ adopt # Idle => adopt.t \in Token
  /\ caller \in [Caller -> Op]
  /\ faults \in 0..MaxFaults /\ owned \subseteq Session
  /\ taken \in BOOLEAN

(* The answer of a refresh with t and id that was lost more than five minutes
   ago is not given again. *)
Lapsed(t, id) ==
  srv[t.s].gen = t.g + 1 /\ srv[t.s].by = id /\ srv[t.s].age[t.g] = "old"

(* Identity gives the current tokens of session s for t, sent with id. *)
Leads(s, t, id) ==
  t.s = s /\ (RefreshAnswer(t, id) = "ok" \/ Lapsed(t, id))

Reachable ==
  \A s \in Live \cap owned :
    IF web THEN Leads(s, cookie, CookieId)
    ELSE Leads(s, store.t, 0) \/ Leads(s, store.prev, store.req)

(* Identity takes a session for stolen only when the device that holds it
   comes back with an old token after the five minutes in which a lost answer
   is given again: not for a crash, a retry or two refreshes at once. *)
HonestDeviceTrusted ==
  \A s \in owned :
    srv[s].st = "compromised" => taken \/ \E g \in 0..MaxGen : srv[s].age[g] = "old"

(* While a session lives that the app took up and nobody asked to end, the
   app can get its current tokens again, whatever answers were lost, whichever
   writes failed and wherever it was killed: session.ts stores the request id
   before the request and both generations before it forgets the first.  The
   one limit is Identity's: an answer lost for five minutes is not repeated.
   Not claimed of a session whose login never reached the app, and not once
   two of the manager's operations have overlapped (README, Findings). *)
Recoverable == taken \/ Reachable

(* The same of every history, when nothing is under way any more. *)
RecoverableAtRest == Quiet => Reachable

(* After an explicit logout only a login makes the app authenticated again,
   on a browser (session-browser-logout.test.mjs). *)
WebLogoutTerminal ==
  [][web /\ state = "explicit_logout" /\ state' = "authenticated" => adopt # Idle]_vars

(* The same of every host.  Known not to hold: a native logout does not wait
   for the restore or the refresh in flight, whose answer authenticates the
   app again (README, Findings). *)
LogoutTerminal ==
  [][state = "explicit_logout" /\ state' = "authenticated" => adopt # Idle]_vars

(* A logout ends although it waits for restores and refreshes under way. *)
LogoutEnds == logout # Idle ~> logout = Idle

=============================================================================
