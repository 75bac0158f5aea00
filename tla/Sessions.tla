------------------------------ MODULE Sessions ------------------------------
(***************************************************************************)
(* The session of one user in the tabs of one browser, and the row of      *)
(* `tokens` that the server compares its refresh token with.  The tabs     *)
(* share localStorage; each has its own requests and its own refresh.  A   *)
(* request of the server is several statements of one transaction, which   *)
(* those of other requests come between.                                   *)
(*                                                                         *)
(* A token is a number.  A JWT says no more than the user, the kind and    *)
(* the second of expiry; the model has no two tokens of one second, which  *)
(* would be equal.  Access tokens expire in the order of issue, refresh    *)
(* tokens (days) never.                                                    *)
(***************************************************************************)
EXTENDS Integers, FiniteSets

CONSTANTS
    Tabs,
    Pages,      \* requests a tab may have under way
    Calls,      \* bound: requests to /auth under way
    RowIds,     \* bound: rows ever inserted into tokens
    MaxToken,   \* bound: tokens issued
    None

Logout == "logout"
Requests == Pages \union {Logout}

Token == Nat \union {None}

\* A request to the server: its tab (None when the tab no longer waits), the
\* token it was sent with, the row it found, the token it issued.
Call == [tab : Tabs \union {None}, kind : {"login", "refresh", Logout}, sent : Token,
         row : RowIds \union {None}, new : Token,
         at : {"sent", "valid", "found", "saved", "answer"},
         result : {"ok", "unauthorized", "error", None}]

\* A request of a tab: the access token it was sent with, the refresh token
\* it read when it was refused, the body of a logout.
Request == [at : {"idle", "sent", "waiting", "retried"}, access : Token, token : Token, body : Token]

ASSUME SessionsAssumption ==
    /\ Logout \notin Pages /\ MaxToken \in Nat
    /\ None \notin Tabs \union Calls \union RowIds \union Nat
    /\ None \notin Call

VARIABLES
    issued,     \* the newest token
    stale,      \* access tokens up to this one have expired
    tokens,     \* the table: token_hash by row, None where there is no row
    used,       \* the ids given to rows so far
    calls,      \* requests to /auth/refresh, /auth/login and /auth/logout
    stored,     \* localStorage: refresh_token, with its access_token
    user,       \* localStorage: whether "user" is there
    reqs,       \* per tab, the requests of apiClient
    promise,    \* per tab, the call of refreshPromise
    answered    \* history: per tab, the tokens it had refused or exchanged

vars == <<issued, stale, tokens, used, calls, stored, user, reqs, promise, answered>>

Rows == {id \in RowIds : tokens[id] # None}

\* db.query(Token).filter_by(user_id).first(): no order is asked for.
First == IF Rows = {} THEN {None} ELSE Rows

Free(cs) == {i \in Calls : cs[i] = None}
Slot(cs) == CHOOSE i \in Free(cs) : TRUE

Idle == [at |-> "idle", access |-> None, token |-> None, body |-> None]
At(i, phase) == calls[i] # None /\ calls[i].at = phase
NewCall(t, kind, token) ==
    [tab |-> t, kind |-> kind, sent |-> token, row |-> None, new |-> None,
     at |-> IF kind = "login" THEN "valid" ELSE "sent", result |-> None]

----------------------------------------------------------------------------
Init ==
    /\ issued = 0 /\ stale = -1
    /\ calls = [i \in Calls |-> None]
    /\ \/ \E id \in RowIds :
             /\ tokens = [x \in RowIds |-> IF x = id THEN 0 ELSE None]
             /\ used = {id}
             /\ stored = 0 /\ user = TRUE
       \/ /\ tokens = [x \in RowIds |-> None] /\ used = {}
          /\ stored = None /\ user = FALSE
    /\ reqs = [t \in Tabs |-> [r \in Requests |-> Idle]]
    /\ promise = [t \in Tabs |-> None]
    /\ answered = [t \in Tabs |-> {}]

Expire ==
    /\ stale # issued /\ stale' = issued
    /\ UNCHANGED <<issued, tokens, used, calls, stored, user, reqs, promise, answered>>

----------------------------------------------------------------------------
(* The server.                                                             *)

serverUnchanged == UNCHANGED <<stale, issued, stored, user, reqs, promise, answered>>

\* The answer to a call nobody waits for is dropped.
Answer(i, result) ==
    calls' = [calls EXCEPT ![i] = IF @.tab = None THEN None
                                  ELSE [@ EXCEPT !.at = "answer", !.result = result]]

\* validate_token(..., "refresh")
Validate(i) ==
    /\ At(i, "sent")
    /\ \E id \in First :
          IF id # None /\ tokens[id] = calls[i].sent
          THEN calls' = [calls EXCEPT ![i].at = "valid"]
          ELSE Answer(i, "unauthorized")
    /\ UNCHANGED <<tokens, used>>
    /\ serverUnchanged

\* generate_auth_tokens, and the query of save_refresh_token or
\* delete_refresh_token; a logout that finds no row answers 400.
Find(i) ==
    /\ At(i, "valid")
    /\ \E id \in First :
          IF calls[i].kind = Logout
          THEN /\ IF id = None THEN Answer(i, "error")
                  ELSE calls' = [calls EXCEPT ![i].at = "found", ![i].row = id]
               /\ UNCHANGED issued
          ELSE /\ issued < MaxToken /\ issued' = issued + 1
               /\ calls' = [calls EXCEPT ![i].at = "found", ![i].row = id, ![i].new = issued + 1]
    /\ UNCHANGED <<stale, tokens, used, stored, user, reqs, promise, answered>>

\* The commit of a row that save_refresh_token did not find.
Insert(i) ==
    /\ At(i, "found") /\ calls[i].kind # Logout /\ calls[i].row = None
    /\ \E id \in RowIds \ used :
          /\ tokens' = [tokens EXCEPT ![id] = calls[i].new]
          /\ used' = used \union {id}
          /\ calls' = [calls EXCEPT ![i].at = "saved", ![i].row = id]
    /\ serverUnchanged

\* The commit of a row it found; an UPDATE of no row is an error.
Update(i) ==
    LET id == calls[i].row
    IN  /\ At(i, "found") /\ calls[i].kind # Logout /\ id # None
        /\ IF tokens[id] # None
           THEN /\ tokens' = [tokens EXCEPT ![id] = calls[i].new]
                /\ calls' = [calls EXCEPT ![i].at = "saved"]
           ELSE Answer(i, "error") /\ UNCHANGED tokens
        /\ UNCHANGED used
        /\ serverUnchanged

\* db.refresh(token) after the commit fails when the row has gone.
Reload(i) ==
    /\ At(i, "saved")
    /\ Answer(i, IF tokens[calls[i].row] # None THEN "ok" ELSE "error")
    /\ UNCHANGED <<tokens, used>>
    /\ serverUnchanged

\* delete_refresh_token; deleting a row that has gone is no error.
Delete(i) ==
    /\ At(i, "found") /\ calls[i].kind = Logout
    /\ tokens' = [tokens EXCEPT ![calls[i].row] = None]
    /\ Answer(i, "ok")
    /\ UNCHANGED used
    /\ serverUnchanged

----------------------------------------------------------------------------
(* The interceptors of apiClient.                                          *)

\* Every 401 with a refresh of its own.
NeverRefreshing(t) == FALSE

\* refreshPromise of the tab
Refreshing(t) == promise[t] # None

Settled(t, r) == reqs' = [reqs EXCEPT ![t][r] = Idle]

\* The first 401 of a request: without a refresh token it is rejected, with
\* one it waits for the refresh of the tab, which it starts if there is none.
\* `left` are the calls without the one that brought the 401.
Wait(t, r, left) ==
    /\ reqs' = [reqs EXCEPT ![t][r].at = "waiting", ![t][r].token = stored]
    /\ IF Refreshing(t)
       THEN calls' = left /\ UNCHANGED promise
       ELSE LET i == Slot(left)
            IN  /\ Free(left) # {}
                /\ calls' = [left EXCEPT ![i] = NewCall(t, "refresh", stored)]
                /\ promise' = [promise EXCEPT ![t] = i]

SendPage(t, p) ==
    /\ reqs[t][p] = Idle /\ stored # None
    /\ reqs' = [reqs EXCEPT ![t][p] = [Idle EXCEPT !.at = "sent", !.access = stored]]
    /\ UNCHANGED <<stale, issued, tokens, used, calls, stored, user, promise, answered>>

\* An answer other than the first 401.
PageAnswered(t, p) ==
    /\ reqs[t][p].at \in {"sent", "retried"}
    /\ Settled(t, p)
    /\ UNCHANGED <<stale, issued, tokens, used, calls, stored, user, promise, answered>>

PageUnauthorized(t, p) ==
    /\ reqs[t][p].at = "sent" /\ reqs[t][p].access <= stale
    /\ IF stored = None
       THEN Settled(t, p) /\ UNCHANGED <<calls, promise>>
       ELSE Wait(t, p, calls)
    /\ UNCHANGED <<stale, issued, tokens, used, stored, user, answered>>

\* The requests that wait for call i.
Waiters(i) ==
    LET t == calls[i].tab
    IN  IF t # None /\ promise[t] = i THEN {r \in Requests : reqs[t][r].at = "waiting"} ELSE {}

\* The requests that go on, page requests again with the token of localStorage
\* and a logout with the body it had.
GoOn(i, going, rest) ==
    LET t == calls[i].tab
    IN  /\ reqs' = [reqs EXCEPT ![t] = [r \in Requests |->
                       IF r \in going THEN [@[r] EXCEPT !.at = "retried"]
                       ELSE IF r \in rest THEN Idle ELSE @[r]]]
        /\ calls' = [calls EXCEPT ![i] =
                       IF Logout \in going THEN NewCall(t, Logout, reqs[t][Logout].body) ELSE None]
        /\ promise' = [promise EXCEPT ![t] = IF @ = i THEN None ELSE @]

\* The tokens are stored, then every request that waited is sent again.
HearTokens(i) ==
    /\ At(i, "answer") /\ calls[i].kind = "refresh" /\ calls[i].result = "ok"
    /\ stored' = calls[i].new
    /\ GoOn(i, Waiters(i), {})
    /\ answered' = [answered EXCEPT ![calls[i].tab] = @ \union {calls[i].sent}]
    /\ UNCHANGED <<stale, issued, tokens, used, user>>

\* A failed refresh ends the session whatever localStorage holds.
AllEnding(i) == Waiters(i)

\* The requests that end the session when the refresh fails: those that see in
\* localStorage the token they read, or none.
Ending(i) == {r \in Waiters(i) : stored = None \/ stored = reqs[calls[i].tab][r].token}

\* 401 or 500 for a refresh: clearAuth, unless another tab changed the token.
HearRefused(i) ==
    /\ At(i, "answer") /\ calls[i].kind = "refresh" /\ calls[i].result # "ok"
    /\ IF Ending(i) = {}
       THEN UNCHANGED <<stored, user>>
       ELSE stored' = None /\ user' = FALSE
    /\ GoOn(i, Waiters(i) \ Ending(i), Ending(i))
    /\ answered' = [answered EXCEPT ![calls[i].tab] = @ \union {calls[i].sent}]
    /\ UNCHANGED <<stale, issued, tokens, used>>

\* Layout.handleLogout
ClickLogout(t) ==
    /\ reqs[t][Logout] = Idle /\ user /\ stored # None /\ Free(calls) # {}
    /\ reqs' = [reqs EXCEPT ![t][Logout] = [Idle EXCEPT !.at = "sent", !.body = stored]]
    /\ calls' = [calls EXCEPT ![Slot(calls)] = NewCall(t, Logout, stored)]
    /\ UNCHANGED <<stale, issued, tokens, used, stored, user, promise, answered>>

\* A first 401 goes the way of any other request; whatever else comes back,
\* localStorage is cleared.
HearLogout(i) ==
    LET t == calls[i].tab
        left == [calls EXCEPT ![i] = None]
    IN  /\ At(i, "answer") /\ calls[i].kind = Logout
        /\ IF calls[i].result = "unauthorized" /\ reqs[t][Logout].at = "sent" /\ stored # None
           THEN Wait(t, Logout, left) /\ UNCHANGED <<stored, user>>
           ELSE /\ stored' = None /\ user' = FALSE
                /\ Settled(t, Logout)
                /\ calls' = left
                /\ UNCHANGED promise
        /\ UNCHANGED <<stale, issued, tokens, used, answered>>

\* Login.jsx shows its form while there is no user.
Login(t) ==
    /\ ~user /\ Free(calls) # {}
    /\ \A i \in Calls \ Free(calls) : ~(calls[i].tab = t /\ calls[i].kind = "login")
    /\ calls' = [calls EXCEPT ![Slot(calls)] = NewCall(t, "login", None)]
    /\ UNCHANGED <<stale, issued, tokens, used, stored, user, reqs, promise, answered>>

\* saveAuthResponse
HearLogin(i) ==
    /\ At(i, "answer") /\ calls[i].kind = "login"
    /\ IF calls[i].result = "ok"
       THEN stored' = calls[i].new /\ user' = TRUE
       ELSE UNCHANGED <<stored, user>>
    /\ calls' = [calls EXCEPT ![i] = None]
    /\ UNCHANGED <<stale, issued, tokens, used, reqs, promise, answered>>

\* The connection breaks: the tab gets an error without an answer and keeps
\* the session (a logout does not), and the server may or may not go on.
Break(i) ==
    LET t == calls[i].tab
        waiting == Waiters(i)
        lost == IF calls[i].kind = Logout THEN {Logout} ELSE waiting
    IN  /\ calls[i] # None /\ t # None
        /\ \/ At(i, "sent") /\ calls' = [calls EXCEPT ![i] = None]
           \/ calls' = [calls EXCEPT ![i] = IF @.at = "answer" THEN None ELSE [@ EXCEPT !.tab = None]]
        /\ promise' = [promise EXCEPT ![t] = IF @ = i THEN None ELSE @]
        /\ reqs' = [reqs EXCEPT ![t] = [r \in Requests |-> IF r \in lost THEN Idle ELSE @[r]]]
        /\ IF Logout \in lost THEN stored' = None /\ user' = FALSE ELSE UNCHANGED <<stored, user>>
        /\ UNCHANGED <<stale, issued, tokens, used, answered>>

Serve(i) == Validate(i) \/ Find(i) \/ Insert(i) \/ Update(i) \/ Reload(i) \/ Delete(i)
Hear(i) == HearTokens(i) \/ HearRefused(i) \/ HearLogout(i) \/ HearLogin(i)

Next ==
    \/ Expire
    \/ \E i \in Calls : Serve(i) \/ Hear(i) \/ Break(i)
    \/ \E t \in Tabs :
          \/ ClickLogout(t)
          \/ Login(t)
          \/ \E p \in Pages : SendPage(t, p) \/ PageAnswered(t, p) \/ PageUnauthorized(t, p)

Spec == Init /\ [][Next]_vars

----------------------------------------------------------------------------
(* Properties.                                                             *)

\* Whatever row first() takes, it is that of the token.
Accepted(token) == Rows # {} /\ \A id \in Rows : tokens[id] = token

\* Two logins at once may insert a row each; the runs go no further there.
OneRow == \A x, y \in Rows : x = y

RefusedHere(i) == At(i, "answer") /\ calls[i].kind = "refresh" /\ calls[i].result # "ok"

\* "gdy inna karta zdazyla odswiezyc tokeny, ponawia zapytanie zamiast
\* wylogowywac" (client.test.js): a failed refresh never ends a session whose
\* refresh token the server still accepts, whichever request waited for it.
LiveSessionIsKept ==
    \A i \in Calls : RefusedHere(i) /\ Ending(i) # {} /\ stored # None => ~Accepted(stored)

\* The same of the requests that read the token which was sent, the one that
\* started the refresh among them.
OwnTokenEndsDeadSession ==
    \A i \in Calls :
        RefusedHere(i) /\ stored # None
            /\ (\E r \in Ending(i) : reqs[calls[i].tab][r].token = calls[i].sent)
        => ~Accepted(stored)

\* "przy kilku rownoleglych 401 wykonuje tylko jeden refresh" (client.test.js):
\* the server rotates the token, so a tab that sends one twice loses its
\* session.  Whatever requests fail in whatever order, a tab never has a
\* refresh under way with a token it was already answered for.
NoTokenSentTwice ==
    \A i \in Calls :
        calls[i] # None /\ calls[i].kind = "refresh" /\ calls[i].tab # None
        => calls[i].sent \notin answered[calls[i].tab]
=============================================================================
