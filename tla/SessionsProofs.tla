---------------------------- MODULE SessionsProofs ----------------------------
(***************************************************************************)
(* What Accounts says of a few requests and tokens, and Reading of one tab or  *)
(* two, holds for any number of them, any time to live, and any number of        *)
(* pages and of requests in flight.                                           *)
(***************************************************************************)
EXTENDS Accounts, Reading, TLAPS

(* ---- the inductive invariant ---- *)

WithToken == {"slide", "index", "served", "get", "delete"}

\* A request that has read a session knows whose it is, or the session was logged
\* out since; one that is to make a session does it for an account.
Sound(r) ==
    /\ request[r].pc \in WithToken =>
          /\ request[r].token \in issued
          /\ SessionLive(request[r].token) =>
                request[r].user = session[request[r].token].user
          /\ ~SessionLive(request[r].token) => request[r].token \in out
    /\ request[r].pc = "create" => request[r].user \in users
    /\ request[r].pc \in {"recheck", "insert"} => request[r].user \in Names

\* A token is in one index only, its owner's, until a logout takes it out.
Owned == \A u \in Names, t \in Tokens : t \in index[u].tokens =>
            t \in issued /\ session[t].user = u

Gone == \A t \in out : /\ t \in issued
                       /\ ~SessionLive(t)
                       /\ \A u \in Names : t \notin index[u].tokens

AccountsInv ==
    /\ AccountsTypes
    /\ SetupCloses
    /\ \A r \in Requests : Sound(r)
    /\ Owned
    /\ Gone
    /\ SessionsRevocable

(* ---- steps ---- *)

\* Steps that only move one request on.
Moves(r) ==
    \/ \E u \in Names : BeginSetup(r, u) \/ VerifyLogin(r, u)
    \/ RecheckSetup(r) \/ AnswerPage(r) \/ ReadOwner(r) \/ BreakOff(r)
    \/ \E t \in Tokens, leave \in BOOLEAN : GetSession(r, t, leave)

LEMMA RecordTypes ==
    /\ IdleRequest \in RequestStates /\ IdleRequest.pc = "idle"
    /\ 0 \in 0..TTL /\ TTL \in 0..TTL /\ TTL > 0 /\ TTL \in Nat
    /\ \A n \in 0..TTL : /\ Sooner(n) \in 0..TTL
                         /\ n = 0 => Sooner(n) = 0
                         /\ n > 0 => Sooner(n) = n - 1
<1>1. IdleRequest \in RequestStates /\ IdleRequest.pc = "idle"
  BY DEF IdleRequest, RequestStates
<1> QED
  BY <1>1, AccountsAssumption DEF Sooner

LEMMA RequestTyped ==
    ASSUME AccountsTypes, NEW r \in Requests
    PROVE  request[r] \in RequestStates
BY DEF AccountsTypes

\* A step of one request leaves the others as they were.
LEMMA OthersKept ==
    ASSUME AccountsTypes, NEW r \in Requests, NEW q \in RequestStates,
           request' = [request EXCEPT ![r] = q]
    PROVE  /\ request' \in [Requests -> RequestStates]
           /\ request'[r] = q
           /\ \A p \in Requests \ {r} : request'[p] = request[p]
BY DEF AccountsTypes

LEMMA GoesTo ==
    ASSUME AccountsTypes, NEW r \in Requests,
           NEW pc \in {"idle", "recheck", "insert", "create", "slide", "index", "served",
                       "get", "delete"},
           GoTo(r, pc)
    PROVE  /\ request' \in [Requests -> RequestStates]
           /\ request'[r].pc = pc
           /\ request'[r].user = request[r].user /\ request'[r].token = request[r].token
           /\ \A p \in Requests \ {r} : request'[p] = request[p]
<1>1. [request[r] EXCEPT !.pc = pc] \in RequestStates
  BY RequestTyped DEF RequestStates
<1>2. request' = [request EXCEPT ![r] = [request[r] EXCEPT !.pc = pc]]
  BY DEF GoTo
<1>3. request[r] \in RequestStates
  BY RequestTyped
<1> QED
  BY <1>1, <1>2, <1>3, OthersKept DEF RequestStates

LEMMA Ends ==
    ASSUME AccountsTypes, NEW r \in Requests, End(r)
    PROVE  /\ request' \in [Requests -> RequestStates]
           /\ request'[r] = IdleRequest /\ request'[r].pc = "idle"
           /\ \A p \in Requests \ {r} : request'[p] = request[p]
BY RecordTypes, OthersKept DEF End

\* Where a move takes its request, and that it touches nothing but that.
LEMMA Moved ==
    ASSUME AccountsInv, NEW r \in Requests, Moves(r)
    PROVE  /\ request' \in [Requests -> RequestStates]
           /\ \A p \in Requests \ {r} : request'[p] = request[p]
           /\ request'[r].pc = "insert" => users = {}
           /\ request'[r].pc # "index"
           /\ Sound(r)'
           /\ broken' \in 0..MaxBroken
           /\ torn' \in SUBSET Tokens /\ torn \subseteq torn'
           /\ request[r].pc = "index" => request[r].token \in torn'
           /\ UNCHANGED <<users, session, index, issued, raced, out>>
<1> DEFINE Goal ==
        /\ request' \in [Requests -> RequestStates]
        /\ \A p \in Requests \ {r} : request'[p] = request[p]
        /\ request'[r].pc = "insert" => users = {}
        /\ request'[r].pc # "index"
        /\ Sound(r)'
        /\ broken' \in 0..MaxBroken
        /\ torn' \in SUBSET Tokens /\ torn \subseteq torn'
        /\ request[r].pc = "index" => request[r].token \in torn'
        /\ UNCHANGED <<users, session, index, issued, raced, out>>
<1> USE DEF AccountsInv
<1>1. broken \in 0..MaxBroken /\ torn \in SUBSET Tokens
  BY DEF AccountsTypes
<1>2. ASSUME NEW u \in Names, BeginSetup(r, u) PROVE Goal
  <2>1. [IdleRequest EXCEPT !.pc = "recheck", !.user = u] \in RequestStates
    BY DEF IdleRequest, RequestStates
  <2>2. /\ request' \in [Requests -> RequestStates]
        /\ request'[r].pc = "recheck" /\ request[r].pc = "idle"
        /\ \A p \in Requests \ {r} : request'[p] = request[p]
    BY <1>2, <2>1, OthersKept DEF BeginSetup, RequestStates
  <2> QED
    BY <1>1, <1>2, <2>2 DEF BeginSetup, Sound, WithToken
<1>3. ASSUME NEW u \in Names, VerifyLogin(r, u) PROVE Goal
  <2>1. [IdleRequest EXCEPT !.pc = "create", !.user = u] \in RequestStates
    BY DEF IdleRequest, RequestStates
  <2>2. /\ request' \in [Requests -> RequestStates]
        /\ request'[r].pc = "create" /\ request'[r].user = u /\ request[r].pc = "idle"
        /\ \A p \in Requests \ {r} : request'[p] = request[p]
    BY <1>3, <2>1, OthersKept DEF VerifyLogin, RequestStates
  <2> QED
    BY <1>1, <1>3, <2>2 DEF VerifyLogin, Sound, WithToken
<1>4. ASSUME End(r), UNCHANGED <<users, session, index, issued, raced, out>>,
             broken' \in 0..MaxBroken, torn' \in SUBSET Tokens, torn \subseteq torn',
             request[r].pc = "index" => request[r].token \in torn'
      PROVE  Goal
  BY <1>4, Ends DEF Sound, WithToken
<1>5. CASE RecheckSetup(r)
  <2>1. CASE users = {}
    <3>1. GoTo(r, "insert")
      BY <1>5, <2>1 DEF RecheckSetup
    <3> QED
      BY <1>1, <1>5, <2>1, <3>1, GoesTo DEF RecheckSetup, Sound, WithToken
  <2>2. CASE users # {}
    BY <1>1, <1>4, <1>5, <2>2 DEF RecheckSetup
  <2> QED
    BY <2>1, <2>2
<1>6. CASE AnswerPage(r)
  BY <1>1, <1>4, <1>6 DEF AnswerPage
<1>7. CASE BreakOff(r)
  <2>1. request[r].token \in Tokens \/ request[r].pc # "index"
    BY DEF Sound, WithToken, AccountsTypes
  <2>2. broken' \in 0..MaxBroken
    BY <1>7, AccountsAssumption DEF BreakOff, AccountsTypes
  <2>3. torn' \in SUBSET Tokens /\ torn \subseteq torn'
    BY <1>1, <1>7, <2>1 DEF BreakOff
  <2>4. request[r].pc = "index" => request[r].token \in torn'
    BY <1>7 DEF BreakOff
  <2> QED
    BY <1>4, <1>7, <2>2, <2>3, <2>4 DEF BreakOff
<1>8. ASSUME NEW t \in Tokens, NEW leave \in BOOLEAN, GetSession(r, t, leave) PROVE Goal
  <2>1. session[t].user \in Names \cup {NoUser}
    BY DEF AccountsTypes
  <2>2. [pc |-> "slide", user |-> session[t].user, token |-> t, leave |-> leave]
            \in RequestStates
    BY <2>1 DEF RequestStates
  <2>3. /\ request' \in [Requests -> RequestStates]
        /\ request'[r] = [pc |-> "slide", user |-> session[t].user,
                          token |-> t, leave |-> leave]
        /\ \A p \in Requests \ {r} : request'[p] = request[p]
    BY <1>8, <2>2, OthersKept DEF GetSession
  <2>4. /\ t \in issued /\ SessionLive(t) /\ request[r].pc = "idle"
        /\ UNCHANGED <<users, session, index, issued, broken, raced, out, torn>>
    BY <1>8 DEF GetSession
  <2>5. Sound(r)'
    BY <2>3, <2>4 DEF Sound, WithToken, SessionLive
  <2> QED
    BY <1>1, <2>3, <2>4, <2>5
<1>9. CASE ReadOwner(r)
  <2> DEFINE t == request[r].token
             owner == IF SessionLive(t) THEN session[t].user ELSE NoUser
  <2>1. request[r].pc = "get" /\ t \in issued /\ (~SessionLive(t) => t \in out)
    BY <1>9 DEF ReadOwner, Sound, WithToken
  <2>2. t \in Tokens
    BY <2>1 DEF AccountsTypes
  <2>3. owner \in Names \cup {NoUser}
    BY <2>2 DEF AccountsTypes
  <2>4. [request[r] EXCEPT !.pc = "delete", !.user = owner] \in RequestStates
    BY <2>3, RequestTyped DEF RequestStates
  <2>5. request' = [request EXCEPT ![r] = [request[r] EXCEPT !.pc = "delete", !.user = owner]]
    BY <1>9 DEF ReadOwner
  <2>6. request[r] \in RequestStates
    BY RequestTyped
  <2>7. /\ request' \in [Requests -> RequestStates]
        /\ request'[r].pc = "delete" /\ request'[r].token = t /\ request'[r].user = owner
        /\ \A p \in Requests \ {r} : request'[p] = request[p]
    BY <2>4, <2>5, <2>6, OthersKept DEF RequestStates
  <2>8. UNCHANGED <<users, session, index, issued, broken, raced, out, torn>>
    BY <1>9 DEF ReadOwner
  <2>9. Sound(r)'
    BY <2>1, <2>7, <2>8 DEF Sound, WithToken, SessionLive
  <2> QED
    BY <1>1, <2>1, <2>7, <2>8, <2>9
<1> QED
  BY <1>2, <1>3, <1>5, <1>6, <1>7, <1>8, <1>9 DEF Moves

\* A request stays sound as long as its session keeps its user, or is logged out.
LEMMA StaysSound ==
    ASSUME NEW p \in Requests, Sound(p), request'[p] = request[p],
           issued \subseteq issued', users \subseteq users', out \subseteq out',
           \A t \in issued : /\ SessionLive(t)' => SessionLive(t) /\ session'[t].user = session[t].user
                             /\ SessionLive(t) /\ ~SessionLive(t)' => t \in out'
    PROVE  Sound(p)'
<1>1. CASE request[p].pc \in WithToken
  <2>1. request[p].token \in issued
    BY <1>1 DEF Sound
  <2> QED
    BY <1>1, <2>1 DEF Sound
<1>2. CASE request[p].pc \notin WithToken
  BY <1>2 DEF Sound
<1> QED
  BY <1>1, <1>2

(* ---- every step keeps the invariant ---- *)

LEMMA MoveKeeps ==
    ASSUME AccountsInv, NEW r \in Requests, Moves(r)
    PROVE  AccountsInv'
<1> USE Moved
<1>1. AccountsTypes'
  BY DEF AccountsInv, AccountsTypes
<1>2. SetupCloses'
  BY DEF AccountsInv, SetupCloses
<1>3. \A p \in Requests : Sound(p)'
  <2>1. ASSUME NEW p \in Requests \ {r} PROVE Sound(p)'
    BY <2>1 DEF AccountsInv, Sound, SessionLive
  <2> QED
    BY <2>1
<1>4. Owned' /\ Gone'
  BY DEF AccountsInv, Owned, Gone, SessionLive
<1>5. SessionsRevocable'
  <2> SUFFICES ASSUME NEW t \in Tokens, t \notin torn', SessionLive(t)'
               PROVE  Revocable(t)'
    BY DEF SessionsRevocable
  <2>1. t \in Tokens \ torn /\ SessionLive(t)
    BY DEF SessionLive
  <2>2. ASSUME NEW q \in Requests, request[q].pc = "index", request[q].token = t
        PROVE  request'[q].pc = "index" /\ request'[q].token = t
    BY <2>2
  <2>3. Revocable(t)
    BY <2>1 DEF AccountsInv, SessionsRevocable
  <2> QED
    BY <2>2, <2>3 DEF Revocable, Indexed
<1> QED
  BY <1>1, <1>2, <1>3, <1>4, <1>5 DEF AccountsInv

LEMMA InsertKeeps ==
    ASSUME AccountsInv, NEW r \in Requests, InsertAdmin(r)
    PROVE  AccountsInv'
<1> USE DEF AccountsInv
<1>1. /\ request[r].pc = "insert"
      /\ raced' = {q \in Requests \ {r} : request[q].pc = "insert"}
      /\ UNCHANGED <<session, index, issued, broken, out, torn>>
  BY DEF InsertAdmin
<1>2. /\ request' \in [Requests -> RequestStates]
      /\ \A p \in Requests \ {r} : request'[p] = request[p]
      /\ users' \subseteq Names /\ users \subseteq users'
      /\ \/ request'[r].pc = "idle"
         \/ request'[r].pc = "create" /\ request'[r].user \in users'
  <2>1. CASE request[r].user \in users
    <3>1. End(r) /\ users' = users
      BY <2>1 DEF InsertAdmin
    <3> QED
      BY <3>1, Ends DEF AccountsTypes
  <2>2. CASE request[r].user \notin users
    <3>1. GoTo(r, "create") /\ users' = users \cup {request[r].user}
      BY <2>2 DEF InsertAdmin
    <3>2. request'[r].user = request[r].user /\ request'[r].pc = "create"
      BY <3>1, GoesTo
    <3>3. request[r].user \in Names
      BY <1>1 DEF Sound
    <3> QED
      BY <3>1, <3>2, <3>3, GoesTo DEF AccountsTypes
  <2> QED
    BY <2>1, <2>2
<1>3. AccountsTypes'
  BY <1>1, <1>2 DEF AccountsTypes
<1>4. SetupCloses'
  BY <1>1, <1>2 DEF SetupCloses
<1>5. \A p \in Requests : Sound(p)'
  <2>1. Sound(r)'
    BY <1>2 DEF Sound, WithToken
  <2>2. ASSUME NEW p \in Requests \ {r} PROVE Sound(p)'
    BY <1>1, <1>2 DEF Sound, SessionLive
  <2> QED
    BY <2>1, <2>2
<1>6. Owned' /\ Gone'
  BY <1>1 DEF Owned, Gone, SessionLive
<1>7. SessionsRevocable'
  <2> SUFFICES ASSUME NEW t \in Tokens, t \notin torn, SessionLive(t)
               PROVE  Revocable(t)'
    BY <1>1 DEF SessionsRevocable, SessionLive
  <2>1. ASSUME NEW q \in Requests, request[q].pc = "index" PROVE request'[q] = request[q]
    BY <1>1, <1>2, <2>1
  <2> QED
    BY <1>1, <1>2, <2>1 DEF SessionsRevocable, Revocable, Indexed
<1> QED
  BY <1>3, <1>4, <1>5, <1>6, <1>7

LEMMA CreateKeeps ==
    ASSUME AccountsInv, NEW r \in Requests, NEW t \in Tokens, CreateSession(r, t)
    PROVE  AccountsInv'
<1> USE DEF AccountsInv
<1>0. PICK u \in Names : u = request[r].user
  BY DEF CreateSession, Sound, AccountsTypes
<1>1. /\ request[r].pc = "create" /\ u \in users /\ t \notin issued
      /\ session' = [session EXCEPT ![t] = [user |-> u, left |-> TTL]]
      /\ index' = [index EXCEPT ![u] = IndexWith(u, t)]
      /\ issued' = issued \cup {t} /\ End(r)
      /\ UNCHANGED <<users, broken, raced, out, torn>>
  BY <1>0 DEF CreateSession, Sound
<1>2. /\ session'[t] = [user |-> u, left |-> TTL]
      /\ \A s \in Tokens \ {t} : session'[s] = session[s]
      /\ index'[u].tokens = Indexed(u) \cup {t} /\ index'[u].left = TTL
      /\ \A v \in Names \ {u} : index'[v] = index[v]
      /\ \A v \in Names : Indexed(v) \subseteq index[v].tokens
  BY <1>1 DEF AccountsTypes, IndexWith, Indexed
<1>3. /\ request' \in [Requests -> RequestStates] /\ request'[r].pc = "idle"
      /\ \A p \in Requests \ {r} : request'[p] = request[p]
  BY <1>1, Ends
<1>4. AccountsTypes'
  <2>1. IndexWith(u, t) \in [tokens : SUBSET Tokens, left : 0..TTL]
    BY <1>1, <1>2, RecordTypes DEF IndexWith, AccountsTypes
  <2>2. [user |-> u, left |-> TTL] \in [user : Names \cup {NoUser}, left : 0..TTL]
    BY <1>1, RecordTypes
  <2> QED
    BY <1>1, <1>3, <2>1, <2>2 DEF AccountsTypes
<1>5. SetupCloses'
  BY <1>1, <1>3 DEF SetupCloses
<1>6. \A p \in Requests : Sound(p)'
  <2>1. Sound(r)'
    BY <1>3 DEF Sound, WithToken
  <2>2. ASSUME NEW p \in Requests \ {r} PROVE Sound(p)'
    <3>1. \A s \in issued : session'[s] = session[s]
      BY <1>1, <1>2 DEF AccountsTypes
    <3> QED
      BY <1>1, <1>3, <3>1, StaysSound DEF SessionLive
  <2> QED
    BY <2>1, <2>2
<1>7. Owned'
  BY <1>1, <1>2 DEF Owned
<1>8. Gone'
  BY <1>1, <1>2 DEF Gone, SessionLive, AccountsTypes
<1>9. SessionsRevocable'
  <2> SUFFICES ASSUME NEW s \in Tokens, s \notin torn, SessionLive(s)'
               PROVE  Revocable(s)'
    BY <1>1 DEF SessionsRevocable
  <2>1. Indexed(u)' = Indexed(u) \cup {t}
    BY <1>2, RecordTypes DEF Indexed
  <2>2. CASE s = t
    <3>1. session'[s].user = u /\ session'[s].left = TTL
      BY <1>2, <2>2
    <3> QED
      BY <1>1, <1>2, <2>1, <2>2, <3>1, RecordTypes DEF Revocable, Indexed
  <2>3. CASE s # t
    <3>1. session'[s] = session[s] /\ SessionLive(s) /\ session[s].left \in 0..TTL
      BY <1>2, <2>3 DEF SessionLive, AccountsTypes
    <3>2. Revocable(s)
      BY <3>1 DEF SessionsRevocable
    <3>3. PICK v \in Names : v = session[s].user
      BY <3>2 DEF Revocable, AccountsTypes
    <3>4. \A q \in Requests : request[q].pc = "index" => request'[q] = request[q]
      BY <1>1, <1>3
    <3>5. CASE v = u
      <4>1. index'[v].left = TTL /\ TTL >= session[s].left
        BY <1>2, <3>1, <3>5, RecordTypes
      <4>2. s \in Indexed(v)'
        BY <2>1, <3>2, <3>3, <3>5 DEF Revocable
      <4> QED
        BY <1>1, <3>1, <3>2, <3>3, <4>1, <4>2 DEF Revocable, Indexed
    <3>6. CASE v # u
      <4>1. index'[v] = index[v]
        BY <1>2, <3>6
      <4> QED
        BY <1>1, <3>1, <3>2, <3>3, <3>4, <4>1 DEF Revocable, Indexed
    <3> QED
      BY <3>5, <3>6
  <2> QED
    BY <2>2, <2>3
<1> QED
  BY <1>4, <1>5, <1>6, <1>7, <1>8, <1>9

LEMMA SlideSessionKeeps ==
    ASSUME AccountsInv, NEW r \in Requests, SlideSession(r)
    PROVE  AccountsInv'
<1> USE DEF AccountsInv
<1>1. PICK t \in Tokens : t = request[r].token
  BY DEF SlideSession, Sound, WithToken, AccountsTypes
<1>2. /\ request[r].pc = "slide" /\ t \in issued
      /\ session' = IF SessionLive(t) THEN [session EXCEPT ![t].left = TTL] ELSE session
      /\ GoTo(r, "index")
      /\ UNCHANGED <<users, index, issued, broken, raced, out, torn>>
  BY <1>1 DEF SlideSession, Sound, WithToken
<1>3. /\ request' \in [Requests -> RequestStates]
      /\ request'[r].pc = "index" /\ request'[r].token = t
      /\ request'[r].user = request[r].user
      /\ \A p \in Requests \ {r} : request'[p] = request[p]
  BY <1>1, <1>2, GoesTo
<1>4. /\ \A s \in Tokens : session'[s].user = session[s].user
      /\ \A s \in Tokens \ {t} : session'[s] = session[s]
      /\ \A s \in Tokens : SessionLive(s)' <=> SessionLive(s)
      /\ session' \in [Tokens -> [user : Names \cup {NoUser}, left : 0..TTL]]
  <2>1. CASE SessionLive(t)
    <3>1. session'[t].left = TTL /\ session'[t].user = session[t].user
      BY <1>2, <2>1 DEF AccountsTypes
    <3>2. \A s \in Tokens \ {t} : session'[s] = session[s]
      BY <1>2, <2>1 DEF AccountsTypes
    <3>3. session' \in [Tokens -> [user : Names \cup {NoUser}, left : 0..TTL]]
      BY <1>2, <2>1, RecordTypes DEF AccountsTypes
    <3> QED
      BY <2>1, <3>1, <3>2, <3>3, RecordTypes DEF SessionLive
  <2>2. CASE ~SessionLive(t)
    BY <1>2, <2>2 DEF SessionLive, AccountsTypes
  <2> QED
    BY <2>1, <2>2
<1>5. AccountsTypes'
  BY <1>2, <1>3, <1>4 DEF AccountsTypes
<1>6. SetupCloses'
  BY <1>2, <1>3 DEF SetupCloses
<1>7. \A p \in Requests : Sound(p)'
  <2>1. issued \subseteq Tokens
    BY DEF AccountsTypes
  <2>2. Sound(r)'
    BY <1>1, <1>2, <1>3, <1>4 DEF Sound, WithToken
  <2>3. ASSUME NEW p \in Requests \ {r} PROVE Sound(p)'
    BY <1>2, <1>3, <1>4, <2>1, StaysSound
  <2> QED
    BY <2>2, <2>3
<1>8. Owned'
  BY <1>2, <1>4 DEF Owned
<1>9. Gone'
  BY <1>2, <1>4 DEF Gone, AccountsTypes
<1>10. SessionsRevocable'
  <2> SUFFICES ASSUME NEW s \in Tokens, s \notin torn, SessionLive(s)'
               PROVE  Revocable(s)'
    BY <1>2 DEF SessionsRevocable
  <2>1. Revocable(s)
    BY <1>4 DEF SessionsRevocable
  <2>2. CASE s = t
    BY <1>2, <1>3, <1>4, <2>1, <2>2 DEF Revocable, Indexed
  <2>3. CASE s # t
    <3>1. \A q \in Requests : request[q].pc = "index" => request'[q] = request[q]
      BY <1>2, <1>3
    <3> QED
      BY <1>2, <1>4, <2>1, <2>3, <3>1 DEF Revocable, Indexed
  <2> QED
    BY <2>2, <2>3
<1> QED
  BY <1>5, <1>6, <1>7, <1>8, <1>9, <1>10

LEMMA SlideIndexKeeps ==
    ASSUME AccountsInv, NEW r \in Requests, SlideIndex(r)
    PROVE  AccountsInv'
<1> USE DEF AccountsInv
<1>1. PICK u \in Names \cup {NoUser} : u = request[r].user
  BY DEF SlideIndex, AccountsTypes, RequestStates
<1>2. PICK t \in Tokens : t = request[r].token
  BY DEF SlideIndex, Sound, WithToken, AccountsTypes
<1>3. /\ request[r].pc = "index" /\ t \in issued
      /\ SessionLive(t) => u = session[t].user
      /\ index' = IF index[u].left > 0 THEN [index EXCEPT ![u].left = TTL] ELSE index
      /\ UNCHANGED <<users, session, issued, broken, raced, out, torn>>
  BY <1>1, <1>2 DEF SlideIndex, Sound, WithToken
<1>4. /\ request' \in [Requests -> RequestStates]
      /\ request'[r].pc \in {"get", "served"} /\ request'[r].token = t
      /\ request'[r].user = u
      /\ \A p \in Requests \ {r} : request'[p] = request[p]
  <2>1. CASE request[r].leave
    BY <1>1, <1>2, <2>1, GoesTo DEF SlideIndex
  <2>2. CASE ~request[r].leave
    BY <1>1, <1>2, <2>2, GoesTo DEF SlideIndex
  <2> QED
    BY <2>1, <2>2
<1>5. /\ index' \in [Names -> [tokens : SUBSET Tokens, left : 0..TTL]]
      /\ \A v \in Names : /\ index'[v].tokens = index[v].tokens
                          /\ index[v].left > 0 => index'[v].left > 0
                          /\ index'[v].left >= index[v].left
                          /\ v # u => index'[v] = index[v]
                          /\ v = u /\ index[v].left > 0 => index'[v].left = TTL
  <2>1. CASE index[u].left > 0 /\ u \in Names
    <3>1. index' = [index EXCEPT ![u].left = TTL]
      BY <1>3, <2>1
    <3>2. index' \in [Names -> [tokens : SUBSET Tokens, left : 0..TTL]]
      BY <3>1, RecordTypes DEF AccountsTypes
    <3>3. index'[u].tokens = index[u].tokens /\ index'[u].left = TTL
      BY <2>1, <3>1 DEF AccountsTypes
    <3>4. \A v \in Names \ {u} : index'[v] = index[v]
      BY <3>1 DEF AccountsTypes
    <3>5. \A v \in Names : index[v].left \in 0..TTL
      BY DEF AccountsTypes
    <3> QED
      BY <3>2, <3>3, <3>4, <3>5, RecordTypes
  <2>2. CASE ~(index[u].left > 0 /\ u \in Names)
    <3>1. index' = index
      <4>1. CASE u \in Names
        BY <1>3, <2>2, <4>1
      <4>2. CASE u \notin Names
        BY <1>3, <4>2 DEF AccountsTypes
      <4> QED
        BY <4>1, <4>2
    <3>2. \A v \in Names : index[v].left \in 0..TTL
      BY DEF AccountsTypes
    <3> QED
      BY <2>2, <3>1, <3>2, RecordTypes DEF AccountsTypes
  <2> QED
    BY <2>1, <2>2
<1>6. AccountsTypes'
  BY <1>3, <1>4, <1>5 DEF AccountsTypes
<1>7. SetupCloses'
  BY <1>3, <1>4 DEF SetupCloses
<1>8. \A p \in Requests : Sound(p)'
  <2>1. Sound(r)'
    BY <1>1, <1>2, <1>3, <1>4 DEF Sound, WithToken, SessionLive
  <2>2. ASSUME NEW p \in Requests \ {r} PROVE Sound(p)'
    BY <1>3, <1>4, StaysSound DEF SessionLive
  <2> QED
    BY <2>1, <2>2
<1>9. Owned' /\ Gone'
  BY <1>3, <1>5 DEF Owned, Gone, SessionLive
<1>10. SessionsRevocable'
  <2> SUFFICES ASSUME NEW s \in Tokens, s \notin torn, SessionLive(s)
               PROVE  Revocable(s)'
    BY <1>3 DEF SessionsRevocable, SessionLive
  <2>1. Revocable(s)
    BY DEF SessionsRevocable
  <2>2. PICK v \in Names : v = session[s].user
    BY <2>1 DEF Revocable, AccountsTypes
  <2>3. s \in Indexed(v) /\ index[v].left > 0 /\ s \in Indexed(v)'
    BY <1>5, <2>1, <2>2 DEF Revocable, Indexed
  <2>4. session[s].left \in 0..TTL /\ index[v].left \in 0..TTL /\ index'[v].left \in 0..TTL
    BY <1>5 DEF AccountsTypes
  <2>5. CASE v = u
    <3>1. index'[v].left >= session[s].left
      BY <1>5, <2>3, <2>4, <2>5, RecordTypes
    <3> QED
      BY <1>3, <2>1, <2>2, <2>3, <3>1 DEF Revocable
  <2>6. CASE v # u
    <3>1. \A q \in Requests : request[q].pc = "index" /\ request[q].token = s
                              => request'[q] = request[q]
      BY <1>2, <1>3, <1>4, <2>2, <2>6
    <3> QED
      BY <1>3, <1>5, <2>1, <2>2, <2>3, <2>6, <3>1 DEF Revocable
  <2> QED
    BY <2>5, <2>6
<1> QED
  BY <1>6, <1>7, <1>8, <1>9, <1>10

LEMMA DeleteKeeps ==
    ASSUME AccountsInv, NEW r \in Requests, DeleteSession(r)
    PROVE  AccountsInv'
<1> USE DEF AccountsInv
<1>1. PICK u \in Names \cup {NoUser} : u = request[r].user
  BY DEF AccountsTypes, RequestStates
<1>2. PICK t \in Tokens : t = request[r].token
  BY DEF DeleteSession, Sound, WithToken, AccountsTypes
<1>3. /\ request[r].pc = "delete" /\ t \in issued
      /\ SessionLive(t) => u = session[t].user
      /\ ~SessionLive(t) => t \in out
      /\ session' = [session EXCEPT ![t] = [user |-> NoUser, left |-> 0]]
      /\ index' = IF u \in Names THEN [index EXCEPT ![u].tokens = @ \ {t}] ELSE index
      /\ out' = out \cup {t} /\ End(r)
      /\ UNCHANGED <<users, issued, broken, raced, torn>>
  BY <1>1, <1>2 DEF DeleteSession, Sound, WithToken
<1>4. /\ request' \in [Requests -> RequestStates] /\ request'[r].pc = "idle"
      /\ \A p \in Requests \ {r} : request'[p] = request[p]
  BY <1>3, Ends
<1>5. /\ session' \in [Tokens -> [user : Names \cup {NoUser}, left : 0..TTL]]
      /\ session'[t].left = 0
      /\ \A s \in Tokens \ {t} : session'[s] = session[s]
  BY <1>3, RecordTypes DEF AccountsTypes
<1>6. /\ index' \in [Names -> [tokens : SUBSET Tokens, left : 0..TTL]]
      /\ \A v \in Names : /\ index'[v].left = index[v].left
                          /\ index'[v].tokens \subseteq index[v].tokens
                          /\ index[v].tokens \ {t} \subseteq index'[v].tokens
                          /\ v = u => t \notin index'[v].tokens
  <2>1. CASE u \in Names
    <3>1. index' = [index EXCEPT ![u].tokens = @ \ {t}]
      BY <1>3, <2>1
    <3> QED
      BY <3>1 DEF AccountsTypes
  <2>2. CASE u \notin Names
    BY <1>3, <2>2 DEF AccountsTypes
  <2> QED
    BY <2>1, <2>2
<1>7. \A v \in Names : t \notin index'[v].tokens
  <2>1. CASE SessionLive(t)
    BY <1>3, <1>6, <2>1 DEF Owned
  <2>2. CASE ~SessionLive(t)
    BY <1>3, <1>6, <2>2 DEF Gone
  <2> QED
    BY <2>1, <2>2
<1>8. AccountsTypes'
  BY <1>3, <1>4, <1>5, <1>6 DEF AccountsTypes
<1>9. SetupCloses'
  BY <1>3, <1>4 DEF SetupCloses
<1>10. ~SessionLive(t)' /\ \A s \in Tokens \ {t} : SessionLive(s)' <=> SessionLive(s)
  BY <1>5 DEF SessionLive
<1>11. \A p \in Requests : Sound(p)'
  <2>1. Sound(r)'
    BY <1>4 DEF Sound, WithToken
  <2>2. issued \subseteq Tokens
    BY DEF AccountsTypes
  <2>3. ASSUME NEW p \in Requests \ {r} PROVE Sound(p)'
    BY <1>3, <1>4, <1>5, <1>10, <2>2, StaysSound
  <2> QED
    BY <2>1, <2>3
<1>12. Owned'
  BY <1>3, <1>5, <1>6, <1>7 DEF Owned
<1>13. Gone'
  BY <1>3, <1>6, <1>7, <1>10 DEF Gone, AccountsTypes
<1>14. SessionsRevocable'
  <2> SUFFICES ASSUME NEW s \in Tokens, s \notin torn, SessionLive(s)'
               PROVE  Revocable(s)'
    BY <1>3 DEF SessionsRevocable
  <2>1. s # t /\ SessionLive(s) /\ session'[s] = session[s]
    BY <1>5, <1>10
  <2>2. Revocable(s)
    BY <2>1 DEF SessionsRevocable
  <2>3. PICK v \in Names : v = session[s].user
    BY <2>2 DEF Revocable, AccountsTypes
  <2>4. s \in Indexed(v)'
    BY <1>6, <2>1, <2>2, <2>3 DEF Revocable, Indexed
  <2>5. \A q \in Requests : request[q].pc = "index" => request'[q] = request[q]
    BY <1>3, <1>4
  <2> QED
    BY <1>3, <1>6, <2>1, <2>2, <2>3, <2>4, <2>5 DEF Revocable
<1> QED
  BY <1>8, <1>9, <1>11, <1>12, <1>13, <1>14

LEMMA DayKeeps ==
    ASSUME AccountsInv, Day
    PROVE  AccountsInv'
<1> USE DEF AccountsInv
<1>1. /\ \A r \in Requests : request[r].pc = "idle"
      /\ session' = [t \in Tokens |-> [session[t] EXCEPT !.left = Sooner(@)]]
      /\ index' = [u \in Names |-> [tokens |-> IF index[u].left > 1 THEN index[u].tokens ELSE {},
                                    left |-> Sooner(index[u].left)]]
      /\ UNCHANGED <<users, request, issued, broken, raced, out, torn>>
  BY DEF Day
<1>2. \A t \in Tokens : session'[t].user = session[t].user
                        /\ session'[t].left = Sooner(session[t].left)
                        /\ session[t].left \in 0..TTL
  BY <1>1 DEF AccountsTypes
<1>3. \A u \in Names : /\ index'[u].tokens = IF index[u].left > 1 THEN index[u].tokens ELSE {}
                       /\ index'[u].left = Sooner(index[u].left)
                       /\ index[u].left \in 0..TTL
  BY <1>1 DEF AccountsTypes
<1>4. \A t \in Tokens : SessionLive(t)' => SessionLive(t)
  BY <1>2, RecordTypes DEF SessionLive
<1>5. AccountsTypes'
  <2>1. session' \in [Tokens -> [user : Names \cup {NoUser}, left : 0..TTL]]
    BY <1>1, <1>2, RecordTypes DEF AccountsTypes
  <2>2. index' \in [Names -> [tokens : SUBSET Tokens, left : 0..TTL]]
    BY <1>1, <1>3, RecordTypes DEF AccountsTypes
  <2> QED
    BY <1>1, <2>1, <2>2 DEF AccountsTypes
<1>6. SetupCloses'
  BY <1>1 DEF SetupCloses
<1>7. \A p \in Requests : Sound(p)'
  BY <1>1 DEF Sound, WithToken
<1>8. Owned'
  BY <1>1, <1>2, <1>3 DEF Owned
<1>9. Gone'
  BY <1>1, <1>3, <1>4 DEF Gone, AccountsTypes
<1>10. SessionsRevocable'
  <2> SUFFICES ASSUME NEW s \in Tokens, s \notin torn, SessionLive(s)'
               PROVE  Revocable(s)'
    BY <1>1 DEF SessionsRevocable
  <2>1. Revocable(s) /\ SessionLive(s)
    BY <1>4 DEF SessionsRevocable
  <2>2. PICK v \in Names : v = session[s].user
    BY <2>1 DEF Revocable, AccountsTypes
  <2>3. index[v].left >= session[s].left /\ s \in index[v].tokens
    BY <1>1, <2>1, <2>2 DEF Revocable, Indexed
  <2>4. session[s].left > 1 /\ session'[s].left = session[s].left - 1
    BY <1>2, <2>1, RecordTypes DEF SessionLive
  <2>5. index[v].left > 1 /\ index'[v].left = index[v].left - 1
    BY <1>2, <1>3, <2>3, <2>4, RecordTypes
  <2>6. s \in Indexed(v)'
    BY <1>2, <1>3, <2>3, <2>5 DEF Indexed
  <2>7. index'[v].left >= session'[s].left
    BY <1>2, <1>3, <2>3, <2>4, <2>5
  <2> QED
    BY <1>1, <1>2, <2>1, <2>2, <2>6, <2>7 DEF Revocable
<1> QED
  BY <1>5, <1>6, <1>7, <1>8, <1>9, <1>10

(* ---- the theorems ---- *)

\* The inductive invariant holds whatever the constants are.
THEOREM AccountsInvariance == AccountsSpec => []AccountsInv
<1>1. AccountsInit => AccountsInv
  <2> SUFFICES ASSUME AccountsInit PROVE AccountsInv
    OBVIOUS
  <2>1. AccountsTypes
    <3>1. 0 \in 0..MaxBroken
      BY AccountsAssumption
    <3> QED
      BY <3>1, RecordTypes DEF AccountsInit, AccountsTypes
  <2>2. SetupCloses /\ Owned /\ Gone /\ \A r \in Requests : Sound(r)
    BY RecordTypes DEF AccountsInit, SetupCloses, Owned, Gone, Sound, WithToken
  <2>3. SessionsRevocable
    BY DEF AccountsInit, SessionsRevocable, SessionLive
  <2> QED
    BY <2>1, <2>2, <2>3 DEF AccountsInv
<1>2. AccountsInv /\ [AccountsNext]_accountsVars => AccountsInv'
  <2> SUFFICES ASSUME AccountsInv, [AccountsNext]_accountsVars PROVE AccountsInv'
    OBVIOUS
  <2>1. CASE UNCHANGED accountsVars
    BY <2>1 DEF accountsVars, AccountsInv, AccountsTypes, SetupCloses, Sound, Owned, Gone,
                SessionsRevocable, SessionLive, Revocable, Indexed
  <2> QED
    BY <2>1, MoveKeeps, InsertKeeps, CreateKeeps, SlideSessionKeeps, SlideIndexKeeps,
       DeleteKeeps, DayKeeps DEF AccountsNext, Moves
<1> QED
  BY <1>1, <1>2, PTL DEF AccountsSpec

\* Accounts, sessions, indexes and requests keep their types.
THEOREM AccountsTyped == AccountsSpec => []AccountsTypes
<1>1. AccountsInv => AccountsTypes
  BY DEF AccountsInv
<1> QED
  BY <1>1, AccountsInvariance, PTL

\* However many requests read a session while it is deleted, its key does not come
\* back and its token leaves the index.
THEOREM LogoutFinal == AccountsSpec => []LogoutIsFinal
<1>1. AccountsInv => LogoutIsFinal
  BY DEF AccountsInv, Gone, LogoutIsFinal, Indexed
<1> QED
  BY <1>1, AccountsInvariance, PTL

\* Revoking by the index of an account would miss none of its sessions but those of
\* a request that was cut between its two EXPIREs.
THEOREM IndexComplete == AccountsSpec => []SessionsRevocable
<1>1. AccountsInv => SessionsRevocable
  BY DEF AccountsInv
<1> QED
  BY <1>1, AccountsInvariance, PTL

\* Once there is an account, only setups that were about to insert make another.
THEOREM SetupClosed == AccountsSpec => []SetupCloses
<1>1. AccountsInv => SetupCloses
  BY DEF AccountsInv
<1> QED
  BY <1>1, AccountsInvariance, PTL

-----------------------------------------------------------------------------
(* Reading *)

\* A row is there exactly if its page is one.
LEMMA RowOrNone ==
    /\ NoProgress.page = PageCount /\ PageCount \notin Pages
    /\ NoProgress \in ProgressRows
    /\ \A row \in ProgressRows : row # NoProgress => row.page \in Pages
    /\ \A row \in ProgressRows : row.page \in Pages => row # NoProgress
    /\ \A row \in ProgressRows : row.page \in 0..PageCount /\ row.finished \in BOOLEAN
    /\ 0 \in Pages
<1>1. NoProgress.page = PageCount /\ PageCount \notin Pages /\ 0 \in Pages
  BY ReadingAssumption DEF NoProgress, Pages
<1>2. NoProgress \in ProgressRows /\ NoProgress.finished = FALSE
  BY DEF NoProgress, ProgressRows
<1>3. ASSUME NEW row \in ProgressRows, row # NoProgress
      PROVE  row.page \in Pages /\ row.page \in 0..PageCount /\ row.finished \in BOOLEAN
  <2>1. row \in [page : Pages, finished : BOOLEAN]
    BY <1>3 DEF ProgressRows
  <2> QED
    BY <2>1, ReadingAssumption DEF Pages
<1>4. PageCount \in 0..PageCount
  BY ReadingAssumption
<1> QED
  BY <1>1, <1>2, <1>3, <1>4

\* A save of a row that came and went as it loaded it leaves a row, and one that
\* was finished stays finished.
LEMMA SavedRowKept ==
    ASSUME NEW loaded \in ProgressRows, NEW row \in ProgressRows, NEW page \in Pages,
           (loaded = NoProgress) = (row = NoProgress)
    PROVE  /\ SavedRow(loaded, row, page) \in ProgressRows \ {NoProgress}
           /\ row.finished => SavedRow(loaded, row, page).finished
           /\ loaded = row => SavedRow(loaded, row, page).page = page
<1> DEFINE new == SavedRow(loaded, row, page)
<1>1. new.page \in Pages
  BY RowOrNone DEF SavedRow
<1>2. new \in [page : Pages, finished : BOOLEAN]
  BY <1>1, RowOrNone DEF SavedRow
<1>3. new \in ProgressRows
  BY <1>2 DEF ProgressRows
<1>4. new # NoProgress
  BY <1>1, RowOrNone
<1>5. row.finished => new.finished
  BY DEF SavedRow
<1>6. loaded = row => new.page = page
  BY DEF SavedRow
<1> QED
  BY <1>3, <1>4, <1>5, <1>6

(* ---- the inductive invariant ---- *)

\* A save that is about to commit was let through.
WritersAllowed ==
    \A s \in Saves : save[s].what = "save" /\ save[s].pc = "write" => save[s].tracked

\* As long as nothing overlapped or was lost there is one request at most ...
Alone == \A r, s \in Saves : save[r].what # "none" /\ save[s].what # "none" => r = s

\* ... and a save carries the page sent last, into the row that it has loaded ...
Carried ==
    \A s \in Saves : save[s].what = "save" =>
        /\ save[s].page = latest
        /\ save[s].pc = "write" => save[s].loaded = progress

\* ... or that page is in the row already.
Arrived ==
    (\A s \in Saves : save[s].what # "save") => (latest \in Pages => progress.page = latest)

ReadingInv ==
    /\ ReadingTypes
    /\ WritersAllowed
    /\ ~crossed => Alone /\ Carried /\ Arrived

(* ---- types ---- *)

LEMMA Typed ==
    ASSUME ReadingTypes, [ReadingNext]_readingVars
    PROVE  ReadingTypes'
<1> USE DEF ReadingTypes
<1>1. ASSUME NEW t \in Tabs, NEW preview \in BOOLEAN, OpenReader(t, preview)
      PROVE  ReadingTypes'
  <2>1. (IF preview \/ progress = NoProgress THEN 0 ELSE progress.page) \in Pages
    BY RowOrNone
  <2>2. opened + 1 \in 0..MaxOpened
    BY <1>1, ReadingAssumption DEF OpenReader
  <2>3. (~preview /\ tracks) \in BOOLEAN
    OBVIOUS
  <2> QED
    BY <1>1, <2>1, <2>2, <2>3 DEF OpenReader
<1>2. ASSUME NEW t \in Tabs, NEW page \in Pages, Flip(t, page)
      PROVE  ReadingTypes'
  BY <1>2 DEF Flip
<1>3. ASSUME NEW s \in Saves, NEW what \in {"save", "reset", "toggle"}, NEW page \in Pages,
             Send(s, what, page)
      PROVE  /\ save' \in [Saves -> SaveStates] /\ sent' \in 0..MaxSent
             /\ crossed' \in BOOLEAN
  <2>1. NoProgress \in ProgressRows /\ 0 \in Pages
    BY RowOrNone
  <2>2. [NoSave EXCEPT !.what = what, !.page = page] \in SaveStates
    BY <2>1 DEF NoSave, SaveStates
  <2>3. sent + 1 \in 0..MaxSent
    BY <1>3, ReadingAssumption DEF Send
  <2> QED
    BY <1>3, <2>2, <2>3 DEF Send
<1>4. ASSUME NEW t \in Tabs, NEW s \in Saves, NEW close \in BOOLEAN, Flush(t, s, close)
      PROVE  ReadingTypes'
  <2>1. tab[t].page \in Pages /\ tab[t].page \in 0..PageCount
    BY ReadingAssumption DEF Pages
  <2>2. Closed \in [open : BOOLEAN, page : Pages, tracking : BOOLEAN, unsent : BOOLEAN]
    BY RowOrNone DEF Closed
  <2>3. tab' \in [Tabs -> [open : BOOLEAN, page : Pages, tracking : BOOLEAN, unsent : BOOLEAN]]
    BY <1>4, <2>2 DEF Flush
  <2> QED
    BY <1>3, <1>4, <2>1, <2>3 DEF Flush
<1>5. ASSUME NEW t \in Tabs, CloseSilently(t)
      PROVE  ReadingTypes'
  BY <1>5, RowOrNone DEF CloseSilently, Closed
<1>6. ASSUME NEW s \in Saves, NEW what \in {"reset", "toggle"}, Press(s, what)
      PROVE  ReadingTypes'
  BY <1>3, <1>6, RowOrNone DEF Press
<1>7. NoSave \in SaveStates
  BY RowOrNone DEF NoSave, SaveStates
<1>8. ASSUME NEW s \in Saves, LoadUser(s)
      PROVE  ReadingTypes'
  <2>1. [save[s] EXCEPT !.pc = IF save[s].what = "toggle" THEN "write" ELSE "gate",
                        !.tracked = tracks] \in SaveStates
    BY DEF SaveStates
  <2> QED
    BY <1>8, <2>1 DEF LoadUser
<1>9. ASSUME NEW s \in Saves, PassGates(s)
      PROVE  ReadingTypes'
  BY <1>7, <1>9 DEF PassGates, SaveStates
<1>10. ASSUME NEW s \in Saves, SaveProgress(s)
       PROVE  ReadingTypes'
  <2>1. save[s].loaded \in ProgressRows /\ save[s].page \in Pages
    BY DEF SaveStates
  <2>2. progress' \in ProgressRows
    BY <1>10, <2>1, SavedRowKept DEF SaveProgress
  <2> QED
    BY <1>7, <1>10, <2>2 DEF SaveProgress
<1>11. ASSUME NEW s \in Saves, LoadForReset(s)
       PROVE  ReadingTypes'
  BY <1>7, <1>11 DEF LoadForReset, SaveStates
<1>12. ASSUME NEW s \in Saves, ResetProgress(s)
       PROVE  ReadingTypes'
  <2>1. PageCount \in 0..PageCount
    BY ReadingAssumption
  <2> QED
    BY <1>7, <1>12, <2>1, RowOrNone DEF ResetProgress
<1>13. ASSUME NEW s \in Saves, ToggleTracking(s)
       PROVE  ReadingTypes'
  BY <1>7, <1>13 DEF ToggleTracking
<1>14. ASSUME NEW s \in Saves, Lose(s)
       PROVE  ReadingTypes'
  BY <1>7, <1>14 DEF Lose
<1>15. CASE Review
  BY <1>15 DEF Review
<1>16. CASE UNCHANGED readingVars
  BY <1>16 DEF readingVars
<1> QED
  BY <1>1, <1>2, <1>4, <1>5, <1>6, <1>8, <1>9, <1>10, <1>11, <1>12, <1>13, <1>14,
     <1>15, <1>16 DEF ReadingNext

(* ---- the rest of the invariant ---- *)

\* A request that ends disturbs no other one.
LEMMA Ended ==
    ASSUME ReadingTypes, NEW s \in Saves, save' = [save EXCEPT ![s] = NoSave]
    PROVE  /\ save'[s].what = "none"
           /\ \A r \in Saves \ {s} : save'[r] = save[r]
BY DEF ReadingTypes, NoSave

LEMMA Sent ==
    ASSUME ReadingInv, NEW s \in Saves, NEW what \in {"save", "reset", "toggle"},
           NEW page \in Pages, Send(s, what, page)
    PROVE  /\ WritersAllowed'
           /\ save'[s].what = what /\ save'[s].page = page /\ save'[s].pc = "sent"
           /\ ~crossed' => ~crossed /\ Alone' /\ \A r \in Saves \ {s} : save'[r].what = "none"
<1>1. /\ save'[s] = [NoSave EXCEPT !.what = what, !.page = page]
      /\ \A r \in Saves \ {s} : save'[r] = save[r]
  BY DEF Send, ReadingInv, ReadingTypes
<1>2. save'[s].what = what /\ save'[s].page = page /\ save'[s].pc = "sent"
  BY <1>1 DEF NoSave
<1>3. WritersAllowed'
  BY <1>1, <1>2 DEF WritersAllowed, ReadingInv
<1>4. ASSUME ~crossed'
      PROVE  ~crossed /\ \A r \in Saves \ {s} : save'[r].what = "none"
  BY <1>1, <1>4 DEF Send, ReadingInv, ReadingTypes
<1> QED
  BY <1>2, <1>3, <1>4 DEF Alone

LEMMA Kept ==
    ASSUME ReadingInv, [ReadingNext]_readingVars
    PROVE  WritersAllowed' /\ (~crossed' => Alone' /\ Carried' /\ Arrived')
<1> DEFINE Rest == WritersAllowed /\ (~crossed => Alone /\ Carried /\ Arrived)
<1> USE DEF ReadingInv
<1>1. ASSUME save' = save, progress' = progress, latest' = latest, crossed' = crossed
      PROVE  Rest'
  BY <1>1 DEF WritersAllowed, Alone, Carried, Arrived
<1>2. ASSUME NEW t \in Tabs, NEW s \in Saves, NEW close \in BOOLEAN, Flush(t, s, close)
      PROVE  Rest'
  <2>1. tab[t].page \in Pages /\ Send(s, "save", tab[t].page) /\ latest' = tab[t].page
    BY <1>2 DEF Flush, ReadingTypes
  <2>2. ASSUME ~crossed'
        PROVE  Carried' /\ Arrived'
    BY <2>1, <2>2, Sent DEF Carried, Arrived
  <2> QED
    BY <2>1, <2>2, Sent
<1>3. ASSUME NEW s \in Saves, NEW what \in {"reset", "toggle"}, Press(s, what)
      PROVE  Rest'
  <2>1. /\ Send(s, what, 0) /\ progress' = progress /\ latest' = latest
        /\ save[s].what = "none"
    BY <1>3 DEF Press, Send
  <2>2. ASSUME ~crossed'
        PROVE  Carried' /\ Arrived'
    <3>1. \A r \in Saves : save'[r].what # "save"
      BY <2>1, <2>2, RowOrNone, Sent
    <3>2. \A r \in Saves : save[r].what = "none"
      BY <1>3, <2>2 DEF Press, Send, ReadingTypes
    <3>3. Arrived
      BY <2>1, <2>2, RowOrNone, Sent
    <3> QED
      BY <2>1, <3>1, <3>2, <3>3 DEF Carried, Arrived
  <2> QED
    BY <2>1, <2>2, RowOrNone, Sent
<1>4. ASSUME NEW s \in Saves, LoadUser(s)
      PROVE  Rest'
  <2>1. /\ \A r \in Saves \ {s} : save'[r] = save[r]
        /\ save'[s].what = save[s].what /\ save'[s].page = save[s].page
        /\ save[s].what = "save" => save'[s].pc = "gate"
        /\ progress' = progress /\ latest' = latest /\ crossed' = crossed
    BY <1>4 DEF LoadUser, ReadingTypes, SaveStates
  <2> QED
    BY <2>1 DEF WritersAllowed, Alone, Carried, Arrived
<1>5. ASSUME NEW s \in Saves, save' = [save EXCEPT ![s] = NoSave],
             progress' = progress, latest' = latest,
             crossed' \/ (save[s].what # "save" /\ crossed' = crossed)
      PROVE  Rest'
  <2>1. save'[s].what = "none" /\ \A r \in Saves \ {s} : save'[r] = save[r]
    BY <1>5, Ended
  <2>2. WritersAllowed'
    BY <2>1 DEF WritersAllowed
  <2>3. ASSUME ~crossed'
        PROVE  Alone' /\ Carried' /\ Arrived'
    BY <1>5, <2>1, <2>3 DEF Alone, Carried, Arrived
  <2> QED
    BY <2>2, <2>3
<1>6. ASSUME NEW s \in Saves, PassGates(s)
      PROVE  Rest'
  <2>1. CASE save[s].tracked /\ resolved
    <3>1. /\ \A r \in Saves \ {s} : save'[r] = save[r]
          /\ save'[s].what = save[s].what /\ save'[s].page = save[s].page
          /\ save'[s].pc = "write" /\ save'[s].tracked = save[s].tracked
          /\ save'[s].loaded = progress
          /\ progress' = progress /\ latest' = latest /\ crossed' = crossed
      BY <1>6, <2>1 DEF PassGates, ReadingTypes, SaveStates
    <3>2. WritersAllowed'
      BY <2>1, <3>1 DEF WritersAllowed
    <3>3. ASSUME ~crossed'
          PROVE  Alone' /\ Carried' /\ Arrived'
      <4>1. Alone'
        BY <3>1, <3>3 DEF Alone
      <4>2. Carried'
        BY <3>1, <3>3 DEF Carried
      <4>3. Arrived'
        BY <3>1, <3>3 DEF Arrived
      <4> QED
        BY <4>1, <4>2, <4>3
    <3> QED
      BY <3>2, <3>3
  <2>2. CASE ~(save[s].tracked /\ resolved)
    BY <1>5, <1>6, <2>2 DEF PassGates
  <2> QED
    BY <2>1, <2>2
<1>7. ASSUME NEW s \in Saves, SaveProgress(s)
      PROVE  Rest'
  <2>1. /\ save'[s].what = "none" /\ \A r \in Saves \ {s} : save'[r] = save[r]
        /\ latest' = latest /\ crossed' = crossed
        /\ save[s].what = "save" /\ save[s].pc = "write"
    BY <1>7, Ended DEF SaveProgress
  <2>2. WritersAllowed'
    BY <2>1 DEF WritersAllowed
  <2>3. ASSUME ~crossed'
        PROVE  Alone' /\ Carried' /\ Arrived'
    <3>1. \A r \in Saves : save'[r].what = "none"
      BY <2>1, <2>3 DEF Alone
    <3>2. save[s].loaded = progress /\ save[s].page = latest
      BY <2>1, <2>3 DEF Carried
    <3>3. save[s].page \in Pages /\ progress \in ProgressRows
      BY DEF ReadingTypes, SaveStates
    <3>4. progress' = SavedRow(progress, progress, save[s].page)
      BY <1>7, <3>2 DEF SaveProgress
    <3>5. progress'.page = latest'
      BY <2>1, <3>2, <3>3, <3>4, SavedRowKept
    <3> QED
      BY <3>1, <3>5 DEF Alone, Carried, Arrived
  <2> QED
    BY <2>2, <2>3
<1>8. ASSUME NEW s \in Saves, LoadForReset(s)
      PROVE  Rest'
  <2>1. CASE progress = NoProgress
    BY <1>5, <1>8, <2>1 DEF LoadForReset
  <2>2. CASE progress # NoProgress
    <3>1. /\ \A r \in Saves \ {s} : save'[r] = save[r]
          /\ save'[s].what = save[s].what /\ save[s].what = "reset"
          /\ progress' = progress /\ latest' = latest /\ crossed' = crossed
      BY <1>8, <2>2 DEF LoadForReset, ReadingTypes, SaveStates
    <3> QED
      BY <3>1 DEF WritersAllowed, Alone, Carried, Arrived
  <2> QED
    BY <2>1, <2>2
<1>9. ASSUME NEW s \in Saves, ResetProgress(s)
      PROVE  Rest'
  <2>1. /\ save'[s].what = "none" /\ \A r \in Saves \ {s} : save'[r] = save[r]
        /\ latest' = PageCount /\ crossed' = crossed /\ save[s].what = "reset"
    BY <1>9, Ended DEF ResetProgress
  <2>2. WritersAllowed'
    BY <2>1 DEF WritersAllowed
  <2>3. ASSUME ~crossed'
        PROVE  Alone' /\ Carried' /\ Arrived'
    <3>1. \A r \in Saves : save'[r].what = "none"
      BY <2>1, <2>3 DEF Alone
    <3> QED
      BY <2>1, <3>1, RowOrNone DEF Alone, Carried, Arrived
  <2> QED
    BY <2>2, <2>3
<1>10. ASSUME NEW s \in Saves, ToggleTracking(s)
       PROVE  Rest'
  BY <1>5, <1>10 DEF ToggleTracking
<1>11. ASSUME NEW s \in Saves, Lose(s)
       PROVE  Rest'
  BY <1>5, <1>11 DEF Lose
<1>12. ASSUME \/ \E t \in Tabs : \/ \E preview \in BOOLEAN : OpenReader(t, preview)
                                 \/ \E page \in Pages : Flip(t, page)
                                 \/ CloseSilently(t)
              \/ Review \/ UNCHANGED readingVars
       PROVE  Rest'
  BY <1>1, <1>12 DEF OpenReader, Flip, CloseSilently, Review, readingVars
<1> QED
  BY <1>2, <1>3, <1>4, <1>6, <1>7, <1>8, <1>9, <1>10, <1>11, <1>12 DEF ReadingNext

\* The inductive invariant holds whatever the constants are.
THEOREM ReadingInvariance == ReadingSpec => []ReadingInv
<1>1. ReadingInit => ReadingInv
  <2> SUFFICES ASSUME ReadingInit PROVE ReadingInv
    OBVIOUS
  <2>1. NoSave \in SaveStates /\ NoSave.what = "none"
    BY RowOrNone DEF NoSave, SaveStates
  <2>2. Closed \in [open : BOOLEAN, page : Pages, tracking : BOOLEAN, unsent : BOOLEAN]
    BY RowOrNone DEF Closed
  <2>3. ReadingTypes
    <3>1. PageCount \in 0..PageCount /\ 0 \in 0..MaxOpened /\ 0 \in 0..MaxSent
      BY ReadingAssumption
    <3> QED
      BY <2>1, <2>2, <3>1, RowOrNone DEF ReadingInit, ReadingTypes
  <2>4. \A s \in Saves : save[s].what = "none"
    BY <2>1 DEF ReadingInit
  <2> QED
    BY <2>3, <2>4, RowOrNone
       DEF ReadingInit, ReadingInv, WritersAllowed, Alone, Carried, Arrived
<1>2. ReadingInv /\ [ReadingNext]_readingVars => ReadingInv'
  BY Typed, Kept DEF ReadingInv
<1> QED
  BY <1>1, <1>2, PTL DEF ReadingSpec

\* Rows, tabs and requests keep their types.
THEOREM ReadingTyped == ReadingSpec => []ReadingTypes
<1>1. ReadingInv => ReadingTypes
  BY DEF ReadingInv
<1> QED
  BY <1>1, ReadingInvariance, PTL

\* Unless requests overlapped, or one was lost or refused, the row holds the page
\* that was sent last, for any number of tabs and whatever was read in each.
THEOREM LastPage == ReadingSpec => []LastPageKept
<1>1. ReadingInv => LastPageKept
  BY DEF ReadingInv, Arrived, LastPageKept
<1> QED
  BY <1>1, ReadingInvariance, PTL

\* Saves that loaded the row before, or arrive late, never bring a finished comic
\* back among the unfinished ones.
THEOREM Finished == ReadingSpec => FinishedStays
<1> DEFINE Stays == OnRecentlyRead => \/ OnRecentlyRead' \/ ~resolved'
                                      \/ progress' = NoProgress
<1>1. ASSUME ReadingTypes, [ReadingNext]_readingVars PROVE Stays
  <2>1. CASE \E s \in Saves : SaveProgress(s)
    <3>1. PICK s \in Saves : SaveProgress(s)
      BY <2>1
    <3>2. /\ progress \in ProgressRows
          /\ save[s].loaded \in ProgressRows /\ save[s].page \in Pages
      BY <1>1 DEF ReadingTypes, SaveStates
    <3>3. progress.finished => progress'.finished
      BY <3>1, <3>2, SavedRowKept DEF SaveProgress
    <3> QED
      BY <3>1, <3>3 DEF OnRecentlyRead, SaveProgress
  <2>2. CASE \E s \in Saves : ResetProgress(s)
    BY <2>2 DEF ResetProgress
  <2>3. CASE Review
    BY <2>3 DEF Review, OnRecentlyRead
  <2>4. CASE UNCHANGED <<progress, resolved>>
    BY <2>4 DEF OnRecentlyRead
  <2> QED
    BY <1>1, <2>1, <2>2, <2>3, <2>4
       DEF ReadingNext, readingVars, OpenReader, Flip, Flush, CloseSilently, Press, LoadUser,
           PassGates, LoadForReset, ToggleTracking, Lose
<1> QED
  BY <1>1, ReadingTyped, PTL DEF ReadingSpec, FinishedStays

\* While progress is not tracked, nothing is recorded but by saves that were let
\* through before.
THEOREM Incognito == ReadingSpec => NoTrail
<1> DEFINE Silent == (~tracks /\ ~Allowed) => progress' \in {progress, NoProgress}
<1>1. ASSUME ReadingInv, [ReadingNext]_readingVars PROVE Silent
  <2>1. ASSUME NEW s \in Saves, SaveProgress(s) PROVE Allowed
    BY <1>1, <2>1 DEF ReadingInv, WritersAllowed, SaveProgress, Allowed
  <2>2. ASSUME NEW s \in Saves, ResetProgress(s) PROVE progress' = NoProgress
    BY <2>2 DEF ResetProgress
  <2>3. CASE progress' = progress
    BY <2>3
  <2> QED
    BY <1>1, <2>1, <2>2, <2>3
       DEF ReadingNext, readingVars, OpenReader, Flip, Flush, CloseSilently, Press, LoadUser,
           PassGates, LoadForReset, ToggleTracking, Lose, Review
<1> QED
  BY <1>1, ReadingInvariance, PTL DEF ReadingSpec, NoTrail

=============================================================================
