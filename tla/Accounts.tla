------------------------------ MODULE Accounts -------------------------------
(***************************************************************************)
(* Who may come in: the first-run setup, logins, and the sessions in Redis. *)
(* A session is a key with a time to live; each account has an index, a set  *)
(* of its tokens, by which its sessions could be revoked together. Reading a *)
(* session slides both times to live in two calls, and requests interleave.   *)
(*                                                                         *)
(* Left out: passwords and their hashes, roles (an account made here is an   *)
(* admin), the create_user script, revoke_all_for_user, which no route       *)
(* calls, keys whose value is not a UUID.                                   *)
(***************************************************************************)
EXTENDS Naturals

CONSTANTS
    Names,          \* usernames people set up and log in with
    Requests,       \* requests in flight, one at a time each
    Tokens,         \* secrets.token_urlsafe: a token is issued once
    TTL,            \* SESSION_TTL_DAYS
    MaxBroken,      \* bound on requests that die halfway
    NoUser, NoToken

ASSUME AccountsAssumption ==
    /\ TTL \in Nat \ {0} /\ MaxBroken \in Nat
    /\ NoUser \notin Names /\ NoToken \notin Tokens

VARIABLES
    users,          \* the table users
    session,        \* [Tokens -> [user, left]]: left is its TTL, 0 if there is none
    index,          \* [Names -> [tokens, left]]
    request,        \* [Requests -> RequestStates]
    issued,         \* tokens given to a browser
    broken,         \* used up of the bound
    raced,          \* history: setups about to insert when another one's account came
    out,            \* history: tokens whose logout was answered
    torn            \* history: tokens whose slide was cut in two

accountsVars == <<users, session, index, request, issued, broken, raced, out, torn>>

RequestStates ==
    [pc : {"idle", "recheck", "insert", "create", "slide", "index", "served", "get", "delete"},
     user : Names \cup {NoUser}, token : Tokens \cup {NoToken}, leave : BOOLEAN]

IdleRequest == [pc |-> "idle", user |-> NoUser, token |-> NoToken, leave |-> FALSE]

SessionLive(t) == session[t].left > 0

\* The tokens SMEMBERS finds: an index that has expired is an empty one.
Indexed(u) == IF index[u].left > 0 THEN index[u].tokens ELSE {}

AccountsInit ==
    /\ users = {}
    /\ session = [t \in Tokens |-> [user |-> NoUser, left |-> 0]]
    /\ index = [u \in Names |-> [tokens |-> {}, left |-> 0]]
    /\ request = [r \in Requests |-> IdleRequest]
    /\ issued = {} /\ broken = 0 /\ raced = {} /\ out = {} /\ torn = {}

GoTo(r, pc) == request' = [request EXCEPT ![r].pc = pc]
End(r) == request' = [request EXCEPT ![r] = IdleRequest]

(* ---- setup and login ---- *)

\* require_setup_pending lets the form through as long as there is no account.
BeginSetup(r, u) ==
    /\ request[r].pc = "idle"
    /\ users = {}
    /\ request' = [request EXCEPT ![r] = [IdleRequest EXCEPT !.pc = "recheck", !.user = u]]
    /\ UNCHANGED <<users, session, index, issued, broken, raced, out, torn>>

\* The second count, in the transaction that will insert.
RecheckSetup(r) ==
    /\ request[r].pc = "recheck"
    /\ IF users = {} THEN GoTo(r, "insert") ELSE End(r)
    /\ UNCHANGED <<users, session, index, issued, broken, raced, out, torn>>

\* INSERT and COMMIT; the username is unique.
InsertAdmin(r) ==
    /\ request[r].pc = "insert"
    /\ IF request[r].user \in users
         THEN End(r) /\ UNCHANGED users
         ELSE GoTo(r, "create") /\ users' = users \cup {request[r].user}
    /\ raced' = {q \in Requests \ {r} : request[q].pc = "insert"}
    /\ UNCHANGED <<session, index, issued, broken, out, torn>>

\* The password was right; last_login_at is committed.
VerifyLogin(r, u) ==
    /\ request[r].pc = "idle"
    /\ u \in users
    /\ request' = [request EXCEPT ![r] = [IdleRequest EXCEPT !.pc = "create", !.user = u]]
    /\ UNCHANGED <<users, session, index, issued, broken, raced, out, torn>>

\* Mutant: the index keeps the time to live it had.
IndexWithMutant(u, t) ==
    [tokens |-> Indexed(u) \cup {t}, left |-> IF index[u].left > 0 THEN index[u].left ELSE TTL]

\* SADD and EXPIRE.
IndexWith(u, t) == [tokens |-> Indexed(u) \cup {t}, left |-> TTL]

\* create_session: one transaction in Redis, then the cookie.
CreateSession(r, t) ==
    /\ request[r].pc = "create"
    /\ t \notin issued
    /\ LET u == request[r].user
       IN  /\ session' = [session EXCEPT ![t] = [user |-> u, left |-> TTL]]
           /\ index' = [index EXCEPT ![u] = IndexWith(u, t)]
    /\ issued' = issued \cup {t}
    /\ End(r)
    /\ UNCHANGED <<users, broken, raced, out, torn>>

(* ---- requests with a cookie ---- *)

\* get_session reads the key; leave tells POST /logout from every other page.
GetSession(r, t, leave) ==
    /\ request[r].pc = "idle"
    /\ t \in issued
    /\ SessionLive(t)
    /\ request' = [request EXCEPT ![r] = [pc |-> "slide", user |-> session[t].user,
                                          token |-> t, leave |-> leave]]
    /\ UNCHANGED <<users, session, index, issued, broken, raced, out, torn>>

\* Mutant: SET with a time to live, which brings a deleted key back.
SlideSessionMutant(r) ==
    /\ request[r].pc = "slide"
    /\ session' = [session EXCEPT ![request[r].token] = [user |-> request[r].user, left |-> TTL]]
    /\ GoTo(r, "index")
    /\ UNCHANGED <<users, index, issued, broken, raced, out, torn>>

\* EXPIRE of the session, which does nothing if the key is gone ...
SlideSession(r) ==
    /\ request[r].pc = "slide"
    /\ LET t == request[r].token
       IN session' = IF SessionLive(t) THEN [session EXCEPT ![t].left = TTL] ELSE session
    /\ GoTo(r, "index")
    /\ UNCHANGED <<users, index, issued, broken, raced, out, torn>>

\* ... and then of the index.
SlideIndex(r) ==
    /\ request[r].pc = "index"
    /\ LET u == request[r].user
       IN index' = IF index[u].left > 0 THEN [index EXCEPT ![u].left = TTL] ELSE index
    /\ GoTo(r, IF request[r].leave THEN "get" ELSE "served")
    /\ UNCHANGED <<users, session, issued, broken, raced, out, torn>>

\* The page is answered for the user of the session.
AnswerPage(r) ==
    /\ request[r].pc = "served"
    /\ End(r)
    /\ UNCHANGED <<users, session, index, issued, broken, raced, out, torn>>

\* delete_session reads whose the token is ...
ReadOwner(r) ==
    /\ request[r].pc = "get"
    /\ LET t == request[r].token
       IN request' = [request EXCEPT ![r].pc = "delete",
                          ![r].user = IF SessionLive(t) THEN session[t].user ELSE NoUser]
    /\ UNCHANGED <<users, session, index, issued, broken, raced, out, torn>>

\* ... and deletes it, in the index too if it had an owner.
DeleteSession(r) ==
    /\ request[r].pc = "delete"
    /\ LET t == request[r].token
           u == request[r].user
       IN  /\ session' = [session EXCEPT ![t] = [user |-> NoUser, left |-> 0]]
           /\ index' = IF u \in Names THEN [index EXCEPT ![u].tokens = @ \ {t}] ELSE index
           /\ out' = out \cup {t}
    /\ End(r)
    /\ UNCHANGED <<users, issued, broken, raced, torn>>

(* ---- faults and time ---- *)

\* The web process dies, or the client hangs up, between two steps.
BreakOff(r) ==
    /\ request[r].pc # "idle"
    /\ broken < MaxBroken
    /\ broken' = broken + 1
    /\ torn' = IF request[r].pc = "index" THEN torn \cup {request[r].token} ELSE torn
    /\ End(r)
    /\ UNCHANGED <<users, session, index, issued, raced, out>>

\* What is left of a time to live the next day.
Sooner(n) == IF n > 0 THEN n - 1 ELSE 0

\* A day goes by; a request does not last that long.
Day ==
    /\ \A r \in Requests : request[r].pc = "idle"
    /\ \E t \in Tokens : SessionLive(t)
    /\ session' = [t \in Tokens |-> [session[t] EXCEPT !.left = Sooner(@)]]
    /\ index' = [u \in Names |-> [tokens |-> IF index[u].left > 1 THEN index[u].tokens ELSE {},
                                 left |-> Sooner(index[u].left)]]
    /\ UNCHANGED <<users, request, issued, broken, raced, out, torn>>

AccountsNext ==
    \/ \E r \in Requests :
          \/ \E u \in Names : BeginSetup(r, u) \/ VerifyLogin(r, u)
          \/ RecheckSetup(r) \/ InsertAdmin(r)
          \/ \E t \in Tokens : CreateSession(r, t)
          \/ \E t \in Tokens, leave \in BOOLEAN : GetSession(r, t, leave)
          \/ SlideSession(r) \/ SlideIndex(r) \/ AnswerPage(r)
          \/ ReadOwner(r) \/ DeleteSession(r) \/ BreakOff(r)
    \/ Day

AccountsSpec == AccountsInit /\ [][AccountsNext]_accountsVars

(* ---- properties ---- *)

AccountsTypes ==
    /\ users \subseteq Names
    /\ session \in [Tokens -> [user : Names \cup {NoUser}, left : 0..TTL]]
    /\ index \in [Names -> [tokens : SUBSET Tokens, left : 0..TTL]]
    /\ request \in [Requests -> RequestStates]
    /\ raced \subseteq Requests /\ issued \subseteq Tokens /\ out \subseteq Tokens /\ torn \subseteq Tokens
    /\ broken \in 0..MaxBroken

\* A logout is final: no request that was reading the session while it was
\* deleted brings the key back, or leaves the token in the index.
LogoutIsFinal ==
    \A t \in out : ~SessionLive(t) /\ \A u \in Names : t \notin Indexed(u)

\* The session is found through its owner's index, which lives as long, or a
\* request is about to make it live so.
Revocable(t) ==
    /\ session[t].user \in users
    /\ t \in Indexed(session[t].user)
    /\ \/ index[session[t].user].left >= session[t].left
       \/ \E r \in Requests : request[r].pc = "index" /\ request[r].token = t

\* Revoking by the index would miss no live session, whatever requests of the
\* account overlap. Only a request cut between its two EXPIREs can leave one behind.
SessionsRevocable == \A t \in Tokens \ torn : SessionLive(t) => Revocable(t)

\* Setup closes with the first account: the only requests that still make one are
\* those past the second count at the moment another's account was inserted, and
\* a form sent or counted later makes none, however the requests interleave.
SetupCloses ==
    users # {} => \A r \in Requests : request[r].pc = "insert" => r \in raced

\* "Race-safe re-check inside the same transaction. If another request
\* bootstrapped first, fall through to /login rather than create a 2nd admin."
OneAdmin == \A u, v \in users : u = v

=============================================================================
