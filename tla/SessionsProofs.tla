--------------------------- MODULE SessionsProofs ---------------------------
(***************************************************************************)
(* What Sessions promises, for any tabs, requests, rows and tokens.         *)
(*                                                                         *)
(* Both properties are about the token that a tab refreshes with.  That it  *)
(* is never sent again after an answer needs nothing of the server but that *)
(* a token is issued once; the invariant says where a token may be: in a    *)
(* call that has not been heard, or in localStorage, or used up.  That a    *)
(* refusal of the stored token is final needs the table: after a refusal no *)
(* row gets the token again, as long as the user has one row.               *)
(***************************************************************************)
EXTENDS Sessions, TLAPS

Typed ==
    /\ issued \in Nat
    /\ tokens \in [RowIds -> Token]
    /\ calls \in [Calls -> Call \union {None}]
    /\ stored \in Token
    /\ reqs \in [Tabs -> [Requests -> Request]]
    /\ promise \in [Tabs -> Calls \union {None}]
    /\ answered \in [Tabs -> SUBSET Nat]

\* Call i is one of tab t.
CallOf(t, i, kind) == calls[i] # None /\ calls[i].kind = kind /\ calls[i].tab = t

\* refreshPromise is the one refresh of the tab that is under way.
OneRefresh ==
    \A t \in Tabs, i \in Calls : CallOf(t, i, "refresh") <=> promise[t] = i

\* A request waits only for a refresh, and as long as a refresh goes on, the
\* request that started it waits, with the token that was sent.
RefreshIsAwaited ==
    \A t \in Tabs :
        /\ promise[t] = None => \A r \in Requests : reqs[t][r].at # "waiting"
        /\ promise[t] # None =>
              \E r \in Requests : /\ reqs[t][r].at = "waiting"
                                  /\ reqs[t][r].token = calls[promise[t]].sent

\* A logout under way is the one of its tab, and does not wait.
LogoutIsUnderWay ==
    \A t \in Tabs, i \in Calls : CallOf(t, i, Logout) =>
        /\ reqs[t][Logout].at \in {"sent", "retried"}
        /\ \A j \in Calls : CallOf(t, j, Logout) => j = i

\* An answer waits for a tab that hears it.
AnswersAreHeard ==
    \A i \in Calls : calls[i] # None /\ calls[i].at = "answer" => calls[i].tab \in Tabs

\* Every token there is was issued.
TokensAreIssued ==
    /\ stored # None => stored <= issued
    /\ \A t \in Tabs : \A n \in answered[t] : n <= issued
    /\ \A i \in Calls : calls[i] # None =>
          /\ calls[i].kind = "refresh" => calls[i].sent # None /\ calls[i].sent <= issued
          /\ calls[i].new # None => calls[i].new <= issued

\* Nobody has the token of a call that has not been heard.
NewIsUnheard ==
    \A i \in Calls : calls[i] # None /\ calls[i].new # None =>
        /\ calls[i].new # stored
        /\ \A t \in Tabs : calls[i].new \notin answered[t]
        /\ \A j \in Calls : calls[j] # None =>
              /\ calls[j].kind = "refresh" => calls[j].sent # calls[i].new
              /\ j # i => calls[j].new # calls[i].new

\* The token of localStorage was neither refused to a tab nor exchanged by it.
StoredIsUnanswered == stored # None => \A t \in Tabs : stored \notin answered[t]

IInv ==
    /\ Typed
    /\ OneRefresh
    /\ RefreshIsAwaited
    /\ LogoutIsUnderWay
    /\ AnswersAreHeard
    /\ TokensAreIssued
    /\ NewIsUnheard
    /\ StoredIsUnanswered
    /\ NoTokenSentTwice

\* Once a refresh has found its row no other row has its token, and once it has
\* written or was refused no row has.
TokenIsGone ==
    \A i \in Calls : calls[i] # None /\ calls[i].kind = "refresh" =>
        \A id \in RowIds :
            \/ calls[i].at \in {"sent", "valid"}
            \/ calls[i].at = "found" /\ calls[i].row = id
            \/ calls[i].at = "answer" /\ calls[i].result = "ok"
            \/ tokens[id] # calls[i].sent

----------------------------------------------------------------------------
(* Steps that several actions share.                                       *)

\* A free slot is one of the calls.
LEMMA SlotIsFree ==
    ASSUME NEW cs, Free(cs) # {}
    PROVE  Slot(cs) \in Calls /\ cs[Slot(cs)] = None
BY DEF Slot, Free

\* A call of a tab is what the caller says of it.
LEMMA NewCallIsCall ==
    ASSUME NEW t \in Tabs, NEW kind \in {"login", "refresh", Logout}, NEW token \in Token
    PROVE  /\ NewCall(t, kind, token) \in Call /\ NewCall(t, kind, token) # None
           /\ NewCall(t, kind, token).tab = t
           /\ NewCall(t, kind, token).kind = kind
           /\ NewCall(t, kind, token).sent = token
           /\ NewCall(t, kind, token).new = None
           /\ NewCall(t, kind, token).at \in {"sent", "valid"}
BY SessionsAssumption DEF NewCall, Call, Token

\* The tokens stay apart when nothing is issued: calls end, forget their tab or
\* are sent, the token of a call that is heard is stored, and one that was sent
\* is used up.
LEMMA TokensStayApart ==
    ASSUME IInv, Typed', issued' = issued,
           \A j \in Calls : calls'[j] # None =>
               \/ /\ calls[j] # None /\ calls'[j].new = calls[j].new
                  /\ calls'[j].kind = calls[j].kind /\ calls'[j].sent = calls[j].sent
               \/ /\ calls'[j].new = None
                  /\ calls'[j].kind = "refresh" => calls'[j].sent = stored /\ stored # None,
           \/ stored' \in {stored, None}
           \/ \E i \in Calls : /\ calls[i] # None /\ stored' = calls[i].new
                               /\ calls'[i] # None => calls'[i].new = None,
           \A t \in Tabs : \A n \in answered'[t] :
               \/ n \in answered[t]
               \/ \E i \in Calls : calls[i] # None /\ calls[i].kind = "refresh" /\ n = calls[i].sent
    PROVE  TokensAreIssued' /\ NewIsUnheard'
<1> USE DEF IInv, TokensAreIssued, NewIsUnheard
<1>1. TokensAreIssued'
  <2>1. stored' # None => stored' <= issued
    OBVIOUS
  <2>2. \A t \in Tabs : \A n \in answered'[t] : n <= issued
    OBVIOUS
  <2>3. ASSUME NEW j \in Calls, calls'[j] # None
        PROVE  /\ calls'[j].kind = "refresh" => calls'[j].sent # None /\ calls'[j].sent <= issued
               /\ calls'[j].new # None => calls'[j].new <= issued
    BY <2>3
  <2> QED BY <2>1, <2>2, <2>3
<1>2. NewIsUnheard'
  <2> SUFFICES ASSUME NEW i \in Calls, (calls[i] # None /\ calls[i].new # None)'
               PROVE  /\ calls'[i].new # stored'
                      /\ \A t \in Tabs : calls'[i].new \notin answered'[t]
                      /\ \A j \in Calls : calls'[j] # None =>
                            /\ calls'[j].kind = "refresh" => calls'[j].sent # calls'[i].new
                            /\ j # i => calls'[j].new # calls'[i].new
    OBVIOUS
  <2>1. /\ calls[i] # None /\ calls'[i].new = calls[i].new /\ calls[i].new # None
    OBVIOUS
  <2>2. calls'[i].new # stored'
    BY <2>1
  <2>3. \A t \in Tabs : calls'[i].new \notin answered'[t]
    BY <2>1
  <2>4. ASSUME NEW j \in Calls, calls'[j] # None
        PROVE  /\ calls'[j].kind = "refresh" => calls'[j].sent # calls'[i].new
               /\ j # i => calls'[j].new # calls'[i].new
    BY <2>1, <2>4
  <2> QED BY <2>2, <2>3, <2>4
<1> QED BY <1>1, <1>2

\* A step of the server: one call goes on, or ends because its tab has gone; a
\* token may be issued to it.
LEMMA ServerStep ==
    ASSUME IInv, NEW i \in Calls, calls[i] # None, NEW c,
           \/ c = None /\ calls[i].tab = None
           \/ /\ c \in Call /\ c.tab = calls[i].tab /\ c.kind = calls[i].kind
              /\ c.sent = calls[i].sent /\ (c.at = "answer" => c.tab # None)
              /\ c.new = calls[i].new \/ (c.new = issued + 1 /\ issued' = issued + 1),
           calls' = [calls EXCEPT ![i] = c],
           issued' \in {issued, issued + 1}, tokens' \in [RowIds -> Token],
           UNCHANGED <<stored, reqs, promise, answered>>
    PROVE  IInv'
<1> USE DEF IInv
<1>a. \A j \in Calls : calls'[j] = IF j = i THEN c ELSE calls[j]
  BY DEF Typed
<1>b. c \in Call => c # None
  BY SessionsAssumption
<1>c. \A t \in Tabs, j \in Calls, kind \in {"refresh", Logout} :
         CallOf(t, j, kind)' <=> CallOf(t, j, kind)
  BY <1>a, <1>b, SessionsAssumption DEF CallOf
<1>1. Typed'
  BY DEF Typed
<1>2. OneRefresh'
  BY <1>c DEF OneRefresh
<1>3. RefreshIsAwaited'
  <2>1. \A t \in Tabs : promise[t] # None => calls'[promise[t]].sent = calls[promise[t]].sent
    BY <1>a, <1>b, SessionsAssumption DEF OneRefresh, CallOf, Typed
  <2> QED BY <2>1 DEF RefreshIsAwaited
<1>4. LogoutIsUnderWay'
  BY <1>c DEF LogoutIsUnderWay
<1>8. AnswersAreHeard'
  BY <1>a, SessionsAssumption DEF AnswersAreHeard, Typed, Call
<1>5. TokensAreIssued'
  BY <1>a, <1>1 DEF TokensAreIssued, Typed, Call, Token
<1>6. NewIsUnheard'
  <2>0. issued \in Nat
    BY DEF Typed
  <2>1. \A j \in Calls : calls[j] # None => /\ calls[j].new # issued + 1
                                            /\ calls[j].kind = "refresh" => calls[j].sent # issued + 1
    BY SessionsAssumption DEF TokensAreIssued, Typed, Call, Token
  <2>2. stored # issued + 1 /\ \A t \in Tabs : issued + 1 \notin answered[t]
    BY SessionsAssumption DEF TokensAreIssued, Typed, Token
  <2> SUFFICES ASSUME NEW k \in Calls, calls'[k] # None, calls'[k].new # None
               PROVE  /\ calls'[k].new # stored
                      /\ \A t \in Tabs : calls'[k].new \notin answered[t]
                      /\ \A j \in Calls : calls'[j] # None =>
                            /\ calls'[j].kind = "refresh" => calls'[j].sent # calls'[k].new
                            /\ j # k => calls'[j].new # calls'[k].new
    BY DEF NewIsUnheard
  <2>3. \/ calls[k] # None /\ calls'[k].new = calls[k].new
        \/ k = i /\ calls'[k].new = issued + 1
    BY <1>a
  <2>4. calls'[k].new # stored /\ \A t \in Tabs : calls'[k].new \notin answered[t]
    BY <2>2, <2>3 DEF NewIsUnheard
  <2>5. ASSUME NEW j \in Calls, calls'[j] # None
        PROVE  /\ calls'[j].kind = "refresh" => calls'[j].sent # calls'[k].new
               /\ j # k => calls'[j].new # calls'[k].new
    <3>1. /\ calls[j] # None /\ calls'[j].kind = calls[j].kind /\ calls'[j].sent = calls[j].sent
          /\ calls'[j].new = calls[j].new \/ (j = i /\ calls'[j].new = issued + 1)
      <4>1. CASE j = i
        BY <1>a, <2>5, <4>1
      <4>2. CASE j # i
        BY <1>a, <2>5, <4>2
      <4> QED BY <4>1, <4>2
    <3>2. CASE calls[k] # None /\ calls'[k].new = calls[k].new
      <4>1. /\ calls[j].kind = "refresh" => calls[j].sent # calls[k].new
            /\ j # k => calls[j].new # calls[k].new
        BY <3>1, <3>2 DEF NewIsUnheard
      <4> QED BY <2>0, <2>1, <3>1, <3>2, <4>1
    <3>3. CASE k = i /\ calls'[k].new = issued + 1
      <4>1. j # k => calls'[j].new # issued + 1
        BY <2>0, <2>1, <3>1, <3>3
      <4>2. calls'[j].kind = "refresh" => calls'[j].sent # issued + 1
        BY <2>0, <2>1, <3>1
      <4> QED BY <3>3, <4>1, <4>2
    <3> QED BY <2>3, <3>2, <3>3
  <2> QED BY <2>4, <2>5
<1>7. StoredIsUnanswered' /\ NoTokenSentTwice'
  BY <1>a DEF StoredIsUnanswered, NoTokenSentTwice
<1> QED BY <1>1, <1>2, <1>3, <1>4, <1>5, <1>6, <1>7, <1>8

\* A request of tab t is refused for the first time and waits: for the refresh of
\* the tab, or for one that it starts.  A logout has no call any more then.
LEMMA WaitStep ==
    ASSUME IInv, NEW t \in Tabs, NEW r \in Requests, NEW left \in [Calls -> Call \union {None}],
           reqs[t][r].at = "sent", stored # None,
           \A j \in Calls : left[j] = calls[j] \/ (left[j] = None /\ CallOf(t, j, Logout)),
           r = Logout => \A j \in Calls : left[j] = None \/ ~CallOf(t, j, Logout),
           Wait(t, r, left), UNCHANGED <<issued, tokens, stored, answered>>
    PROVE  IInv'
<1> USE DEF IInv
<1> DEFINE waiting == [reqs[t][r] EXCEPT !.at = "waiting", !.token = stored]
           new == NewCall(t, "refresh", stored)
<1>1. \A u \in Tabs, q \in Requests :
          reqs'[u][q] = IF u = t /\ q = r THEN waiting ELSE reqs[u][q]
  BY DEF Wait, Typed
<1>2. reqs' \in [Tabs -> [Requests -> Request]] /\ waiting.at = "waiting" /\ waiting.token = stored
  <2>1. reqs[t][r] \in Request /\ stored \in Token
    BY DEF Typed
  <2>2. waiting \in Request /\ waiting.at = "waiting" /\ waiting.token = stored
    BY <2>1 DEF Request
  <2>3. reqs' = [reqs EXCEPT ![t] = [reqs[t] EXCEPT ![r] = waiting]]
    BY <2>1 DEF Wait, Typed
  <2> HIDE DEF waiting
  <2> QED BY <2>2, <2>3 DEF Typed
<1>3. \/ /\ promise[t] # None /\ promise' = promise /\ calls' = left
      \/ /\ promise[t] = None
         /\ \E i \in Calls : /\ left[i] = None
                             /\ calls' = [left EXCEPT ![i] = new]
                             /\ promise' = [promise EXCEPT ![t] = i]
  BY SlotIsFree DEF Wait, Refreshing
<1>4. /\ new \in Call /\ new # None /\ new.tab = t /\ new.kind = "refresh"
      /\ new.sent = stored /\ new.new = None /\ new.at # "answer"
  BY NewCallIsCall, SMTT(30) DEF Typed
<1> HIDE DEF waiting, new
<1>5. Typed'
  <2>1. calls' \in [Calls -> Call \union {None}] /\ promise' \in [Tabs -> Calls \union {None}]
    BY <1>3, <1>4 DEF Typed
  <2> QED BY <1>2, <2>1 DEF Typed
<1>6. \A j \in Calls : calls'[j] \in {left[j], new}
  BY <1>3
<1>7. TokensAreIssued' /\ NewIsUnheard'
  BY <1>4, <1>5, <1>6, TokensStayApart
<1>8. StoredIsUnanswered' /\ AnswersAreHeard'
  BY <1>4, <1>6 DEF StoredIsUnanswered, AnswersAreHeard
<1>9. NoTokenSentTwice'
  BY <1>4, <1>6 DEF NoTokenSentTwice, StoredIsUnanswered
<1>10. \A u \in Tabs, j \in Calls : CallOf(u, j, Logout)' =>
           CallOf(u, j, Logout) /\ (u = t => r # Logout)
  <2> SUFFICES ASSUME NEW u \in Tabs, NEW j \in Calls, CallOf(u, j, Logout)'
               PROVE  CallOf(u, j, Logout) /\ (u = t => r # Logout)
    OBVIOUS
  <2>1. calls'[j] = left[j]
    BY <1>4, <1>6 DEF CallOf, Logout
  <2> QED BY <2>1 DEF CallOf
<1>11. LogoutIsUnderWay'
  BY <1>1, <1>10 DEF LogoutIsUnderWay, Requests
<1>12. CASE promise[t] # None /\ promise' = promise /\ calls' = left
  <2>1. \A u \in Tabs, j \in Calls : CallOf(u, j, "refresh")' <=> CallOf(u, j, "refresh")
    BY <1>12 DEF CallOf, Logout
  <2>2. OneRefresh'
    BY <1>12, <2>1 DEF OneRefresh
  <2>3. \A u \in Tabs : promise[u] # None => calls'[promise[u]] = calls[promise[u]]
    BY <1>12 DEF OneRefresh, Typed, CallOf, Logout
  <2>4. RefreshIsAwaited'
    BY <1>1, <1>12, <2>3 DEF RefreshIsAwaited
  <2> QED BY <1>5, <1>7, <1>8, <1>9, <1>11, <2>2, <2>4
<1>13. ASSUME promise[t] = None, NEW i \in Calls, left[i] = None,
              calls' = [left EXCEPT ![i] = new], promise' = [promise EXCEPT ![t] = i]
       PROVE  OneRefresh' /\ RefreshIsAwaited'
  <2>1. \A u \in Tabs : promise[u] # i
    BY <1>13 DEF OneRefresh, CallOf, Logout
  <2>2. \A u \in Tabs, j \in Calls :
            CallOf(u, j, "refresh")' <=> CallOf(u, j, "refresh") \/ (u = t /\ j = i)
    BY <1>4, <1>13 DEF CallOf, Logout
  <2>3. OneRefresh'
    BY <1>13, <2>1, <2>2, SessionsAssumption DEF OneRefresh, Typed
  <2>4. \A u \in Tabs : promise[u] # None => calls'[promise[u]] = calls[promise[u]]
    BY <1>13, <2>1 DEF OneRefresh, Typed, CallOf, Logout
  <2>5. ASSUME NEW u \in Tabs, u # t
        PROVE  /\ promise'[u] = None => \A q \in Requests : reqs'[u][q].at # "waiting"
               /\ promise'[u] # None =>
                     \E q \in Requests : /\ reqs'[u][q].at = "waiting"
                                         /\ reqs'[u][q].token = calls'[promise'[u]].sent
    <3>1. promise'[u] = promise[u] /\ \A q \in Requests : reqs'[u][q] = reqs[u][q]
      BY <1>1, <1>13, <2>5 DEF Typed
    <3> QED BY <2>4, <3>1 DEF RefreshIsAwaited
  <2>6. /\ promise'[t] = i /\ i # None
        /\ reqs'[t][r].at = "waiting" /\ reqs'[t][r].token = calls'[i].sent
    BY <1>1, <1>2, <1>4, <1>13, SessionsAssumption DEF Typed
  <2> QED BY <2>3, <2>5, <2>6 DEF RefreshIsAwaited
<1> QED BY <1>3, <1>5, <1>7, <1>8, <1>9, <1>11, <1>12, <1>13

\* A tab calls /auth/login or /auth/logout.
LEMMA NewCallStep ==
    ASSUME IInv, NEW t \in Tabs, NEW kind \in {"login", Logout}, NEW token \in Token,
           Free(calls) # {}, calls' = [calls EXCEPT ![Slot(calls)] = NewCall(t, kind, token)],
           \/ kind = "login" /\ reqs' = reqs
           \/ /\ kind = Logout /\ reqs[t][Logout] = Idle
              /\ reqs' = [reqs EXCEPT ![t][Logout] = [Idle EXCEPT !.at = "sent", !.body = stored]],
           UNCHANGED <<issued, tokens, stored, promise, answered>>
    PROVE  IInv'
<1> USE DEF IInv
<1> DEFINE new == NewCall(t, kind, token)
           i == Slot(calls)
<1>1. i \in Calls /\ calls[i] = None
  BY SlotIsFree
<1>2. /\ new \in Call /\ new # None /\ new.tab = t /\ new.kind = kind
      /\ new.new = None /\ new.at # "answer"
  BY NewCallIsCall
<1> HIDE DEF new, i
<1>3. calls' = [calls EXCEPT ![i] = new]
  BY DEF new, i
<1>4. /\ reqs' \in [Tabs -> [Requests -> Request]]
      /\ kind = Logout => reqs[t][Logout].at = "idle" /\ reqs'[t][Logout].at = "sent"
      /\ \A u \in Tabs, r \in Requests : \/ reqs'[u][r] = reqs[u][r]
                                         \/ /\ kind = Logout /\ u = t /\ r = Logout
                                            /\ reqs'[u][r].at = "sent"
  <2> DEFINE sent == [Idle EXCEPT !.at = "sent", !.body = stored]
  <2>1. Idle \in Request /\ stored \in Token
    BY DEF Idle, Typed, Request, Token
  <2>2. sent \in Request /\ sent.at = "sent"
    BY <2>1 DEF Request
  <2>3. CASE kind = "login" /\ reqs' = reqs
    BY <2>3 DEF Typed, Logout
  <2>4. CASE kind = Logout /\ reqs[t][Logout] = Idle
               /\ reqs' = [reqs EXCEPT ![t][Logout] = [Idle EXCEPT !.at = "sent", !.body = stored]]
    <3>1. Logout \in Requests /\ reqs[t][Logout].at = "idle"
      BY <2>4 DEF Requests, Idle
    <3>2. reqs' = [reqs EXCEPT ![t][Logout] = sent]
      BY <2>4
    <3> HIDE DEF sent
    <3> QED BY <2>2, <2>4, <3>1, <3>2 DEF Typed
  <2> QED BY <2>3, <2>4
<1>5. Typed'
  BY <1>1, <1>2, <1>3, <1>4 DEF Typed
<1>6. TokensAreIssued' /\ NewIsUnheard'
  BY <1>1, <1>2, <1>3, <1>5, TokensStayApart DEF Typed, Logout
<1>7. StoredIsUnanswered' /\ AnswersAreHeard' /\ NoTokenSentTwice'
  BY <1>1, <1>2, <1>3 DEF StoredIsUnanswered, AnswersAreHeard, NoTokenSentTwice, Typed, Logout
<1>8. OneRefresh' /\ RefreshIsAwaited'
  <2>1. \A u \in Tabs, j \in Calls : CallOf(u, j, "refresh")' <=> CallOf(u, j, "refresh")
    BY <1>1, <1>2, <1>3 DEF CallOf, Typed, Logout
  <2>2. \A u \in Tabs : promise[u] # None => calls'[promise[u]] = calls[promise[u]]
    BY <1>1, <1>3 DEF OneRefresh, CallOf, Typed
  <2>3. \A u \in Tabs, r \in Requests :
            /\ reqs'[u][r].at = "waiting" => reqs[u][r].at = "waiting"
            /\ reqs[u][r].at = "waiting" => reqs'[u][r] = reqs[u][r]
    BY <1>4
  <2>4. RefreshIsAwaited'
    <3> SUFFICES ASSUME NEW u \in Tabs
                 PROVE  /\ promise[u] = None => \A r \in Requests : reqs'[u][r].at # "waiting"
                        /\ promise[u] # None =>
                              \E r \in Requests : /\ reqs'[u][r].at = "waiting"
                                                  /\ reqs'[u][r].token = calls'[promise[u]].sent
      BY DEF RefreshIsAwaited
    <3> QED BY <2>2, <2>3 DEF RefreshIsAwaited
  <2> QED BY <2>1, <2>4 DEF OneRefresh
<1>9. LogoutIsUnderWay'
  <2> SUFFICES ASSUME NEW u \in Tabs, NEW j \in Calls, CallOf(u, j, Logout)'
               PROVE  /\ reqs'[u][Logout].at \in {"sent", "retried"}
                      /\ \A k \in Calls : CallOf(u, k, Logout)' => k = j
    BY DEF LogoutIsUnderWay
  <2>1. \A k \in Calls : CallOf(u, k, Logout)' =>
            CallOf(u, k, Logout) \/ (k = i /\ u = t /\ kind = Logout)
    BY <1>1, <1>2, <1>3 DEF CallOf, Typed
  <2>2. CASE u = t /\ kind = Logout
    <3>1. \A k \in Calls : ~CallOf(u, k, Logout)
      BY <1>4, <2>2 DEF LogoutIsUnderWay
    <3> QED BY <1>4, <2>1, <2>2, <3>1
  <2>3. CASE ~(u = t /\ kind = Logout)
    BY <1>4, <2>1, <2>3 DEF LogoutIsUnderWay, Requests
  <2> QED BY <2>2, <2>3
<1> QED BY <1>5, <1>6, <1>7, <1>8, <1>9

\* The refresh of tab t ends: those that waited go on or do not, and a logout that
\* goes on is called again.
LEMMA RefreshEnds ==
    ASSUME IInv, NEW t \in Tabs, NEW i \in Calls, CallOf(t, i, "refresh"),
           NEW going, going \subseteq Waiters(i), GoOn(i, going, Waiters(i) \ going)
    PROVE  /\ calls' \in [Calls -> Call \union {None}]
           /\ reqs' \in [Tabs -> [Requests -> Request]]
           /\ promise' \in [Tabs -> Calls \union {None}]
           /\ \A j \in Calls : j # i => calls'[j] = calls[j]
           /\ calls'[i] # None => /\ calls'[i].kind = Logout /\ calls'[i].new = None
                                  /\ calls'[i].at # "answer"
           /\ OneRefresh' /\ RefreshIsAwaited' /\ LogoutIsUnderWay'
<1> USE DEF IInv
<1>1. calls[i] # None /\ calls[i].tab = t /\ promise[t] = i
  BY DEF CallOf, OneRefresh
<1>2. Waiters(i) = {r \in Requests : reqs[t][r].at = "waiting"}
  BY <1>1, SessionsAssumption DEF Waiters
<1>3. Logout \in Requests /\ reqs[t][Logout].body \in Token
  BY DEF Requests, Typed, Request
<1> DEFINE new == NewCall(t, Logout, reqs[t][Logout].body)
           next(r) == IF r \in going THEN [reqs[t][r] EXCEPT !.at = "retried"]
                      ELSE IF r \in Waiters(i) \ going THEN Idle ELSE reqs[t][r]
<1>4. new \in Call /\ new # None /\ new.tab = t /\ new.kind = Logout /\ new.new = None /\ new.at # "answer"
  BY <1>3, NewCallIsCall
<1>5. \A r \in Requests : /\ next(r) \in Request /\ next(r).at # "waiting"
                          /\ r \in going => next(r).at = "retried"
                          /\ r \notin Waiters(i) => next(r) = reqs[t][r]
  <2> SUFFICES ASSUME NEW r \in Requests
               PROVE  /\ next(r) \in Request /\ next(r).at # "waiting"
                      /\ r \in going => next(r).at = "retried"
                      /\ r \notin Waiters(i) => next(r) = reqs[t][r]
    OBVIOUS
  <2>1. reqs[t][r] \in Request
    BY DEF Typed
  <2>2. Idle \in Request /\ Idle.at = "idle"
    BY DEF Idle, Request, Token
  <2>3. [reqs[t][r] EXCEPT !.at = "retried"] \in Request
          /\ [reqs[t][r] EXCEPT !.at = "retried"].at = "retried"
    BY <2>1 DEF Request
  <2> QED BY <1>2, <2>1, <2>2, <2>3
<1> HIDE DEF new
<1>6. /\ reqs' = [reqs EXCEPT ![t] = [r \in Requests |-> next(r)]]
      /\ calls' = [calls EXCEPT ![i] = IF Logout \in going THEN new ELSE None]
      /\ promise' = [promise EXCEPT ![t] = None]
  BY <1>1 DEF GoOn, new, Typed
<1> HIDE DEF next
<1>7. /\ calls' \in [Calls -> Call \union {None}]
      /\ reqs' \in [Tabs -> [Requests -> Request]]
      /\ promise' \in [Tabs -> Calls \union {None}]
      /\ \A j \in Calls : j # i => calls'[j] = calls[j]
      /\ calls'[i] = IF Logout \in going THEN new ELSE None
      /\ \A r \in Requests : reqs'[t][r] = next(r)
      /\ \A u \in Tabs : u # t => reqs'[u] = reqs[u] /\ promise'[u] = promise[u]
      /\ promise'[t] = None
  BY <1>4, <1>5, <1>6 DEF Typed
<1>8. \A u \in Tabs, j \in Calls :
          /\ CallOf(u, j, "refresh")' <=> CallOf(u, j, "refresh") /\ j # i
          /\ CallOf(u, j, Logout)' =>
                CallOf(u, j, Logout) \/ (j = i /\ u = t /\ Logout \in going)
  BY <1>1, <1>4, <1>7 DEF CallOf, Logout
<1>9. OneRefresh'
  <2> SUFFICES ASSUME NEW u \in Tabs, NEW j \in Calls
               PROVE  CallOf(u, j, "refresh")' <=> promise'[u] = j
    BY DEF OneRefresh
  <2>1. CASE u = t
    <3>1. CallOf(t, j, "refresh") <=> j = i
      BY <1>1 DEF OneRefresh
    <3> QED BY <1>7, <1>8, <2>1, <3>1, SessionsAssumption
  <2>2. CASE u # t
    <3>1. ~CallOf(u, i, "refresh")
      BY <1>1, <2>2 DEF CallOf
    <3> QED BY <1>7, <1>8, <2>2, <3>1 DEF OneRefresh
  <2> QED BY <2>1, <2>2
<1>10. RefreshIsAwaited'
  <2> SUFFICES ASSUME NEW u \in Tabs
               PROVE  /\ promise'[u] = None => \A r \in Requests : reqs'[u][r].at # "waiting"
                      /\ promise'[u] # None =>
                            \E r \in Requests : /\ reqs'[u][r].at = "waiting"
                                                /\ reqs'[u][r].token = calls'[promise'[u]].sent
    BY DEF RefreshIsAwaited
  <2>1. CASE u = t
    BY <1>5, <1>7, <2>1
  <2>2. CASE u # t
    <3>1. promise[u] # None => promise[u] \in Calls /\ promise[u] # i
      BY <1>1, <2>2 DEF OneRefresh, CallOf, Typed
    <3> QED BY <1>7, <2>2, <3>1 DEF RefreshIsAwaited
  <2> QED BY <2>1, <2>2
<1>11. LogoutIsUnderWay'
  <2> SUFFICES ASSUME NEW u \in Tabs, NEW j \in Calls, CallOf(u, j, Logout)'
               PROVE  /\ reqs'[u][Logout].at \in {"sent", "retried"}
                      /\ \A k \in Calls : CallOf(u, k, Logout)' => k = j
    BY DEF LogoutIsUnderWay
  <2>1. CASE u = t /\ Logout \in going
    <3>1. \A k \in Calls : ~CallOf(t, k, Logout)
      BY <1>2, <2>1 DEF LogoutIsUnderWay
    <3> QED BY <1>3, <1>5, <1>7, <1>8, <2>1, <3>1
  <2>2. CASE ~(u = t /\ Logout \in going)
    <3>1. CallOf(u, j, Logout) /\ reqs[u][Logout].at \in {"sent", "retried"}
      BY <1>8, <2>2 DEF LogoutIsUnderWay
    <3>2. reqs'[u][Logout] = reqs[u][Logout]
      BY <1>2, <1>3, <1>5, <1>7, <3>1
    <3> QED BY <1>8, <2>2, <3>1, <3>2 DEF LogoutIsUnderWay
  <2> QED BY <2>1, <2>2
<1> QED BY <1>4, <1>7, <1>9, <1>10, <1>11

----------------------------------------------------------------------------
(* The invariant, action by action.                                        *)

\* The session a browser starts with, or none.
LEMMA InitInv == Init => IInv
<1> SUFFICES ASSUME Init PROVE IInv
  OBVIOUS
<1>1. Idle \in Request /\ Idle.at = "idle"
  BY DEF Idle, Request, Token
<1>2. Typed
  BY <1>1 DEF Init, Typed, Token
<1>3. OneRefresh /\ LogoutIsUnderWay /\ AnswersAreHeard /\ NewIsUnheard /\ NoTokenSentTwice
  BY SessionsAssumption DEF Init, OneRefresh, LogoutIsUnderWay, AnswersAreHeard, NewIsUnheard,
                            NoTokenSentTwice, CallOf
<1>4. RefreshIsAwaited
  BY <1>1 DEF Init, RefreshIsAwaited
<1>5. TokensAreIssued /\ StoredIsUnanswered
  BY DEF Init, TokensAreIssued, StoredIsUnanswered
<1> QED BY <1>2, <1>3, <1>4, <1>5 DEF IInv

\* d is call c gone on: what it is, and the token it issued, stay.
Same(c, d) == d \in Call /\ d.tab = c.tab /\ d.kind = c.kind /\ d.sent = c.sent /\ d.new = c.new

\* A call that is answered, that goes on, or whose tab forgets it.
LEMMA CallAnswered ==
    ASSUME NEW c \in Call, NEW result \in {"ok", "unauthorized", "error"}
    PROVE  LET d == [c EXCEPT !.at = "answer", !.result = result]
           IN  Same(c, d) /\ d.at = "answer" /\ d.result = result
<1>1. [c EXCEPT !.at = "answer", !.result = result] \in Call
  BY DEF Call
<1> QED BY <1>1 DEF Call, Same

LEMMA CallGoesOn ==
    ASSUME NEW c \in Call, NEW at \in {"valid", "found", "saved"}
    PROVE  LET d == [c EXCEPT !.at = at]
           IN  Same(c, d) /\ d.at = at /\ d.row = c.row
<1>1. [c EXCEPT !.at = at] \in Call
  BY DEF Call
<1> QED BY <1>1 DEF Call, Same

LEMMA CallFindsRow ==
    ASSUME NEW c \in Call, NEW at \in {"valid", "found", "saved"}, NEW row \in RowIds \union {None}
    PROVE  LET d == [c EXCEPT !.at = at, !.row = row]
           IN  Same(c, d) /\ d.at = at /\ d.row = row
<1>1. [c EXCEPT !.at = at, !.row = row] \in Call
  BY DEF Call
<1> QED BY <1>1 DEF Call, Same

LEMMA CallForgotten ==
    ASSUME NEW c \in Call
    PROVE  LET d == [c EXCEPT !.tab = None]
           IN  d \in Call /\ d.tab = None /\ d.kind = c.kind /\ d.sent = c.sent /\ d.new = c.new
               /\ d.at = c.at /\ d.row = c.row
<1>1. [c EXCEPT !.tab = None] \in Call
  BY DEF Call
<1> QED BY <1>1 DEF Call

\* The server answers a call.
LEMMA AnswerStep ==
    ASSUME IInv, NEW i \in Calls, calls[i] # None, NEW result \in {"ok", "unauthorized", "error"},
           Answer(i, result), tokens' \in [RowIds -> Token],
           UNCHANGED <<issued, stored, reqs, promise, answered>>
    PROVE  IInv'
<1> DEFINE c == IF calls[i].tab = None THEN None
                ELSE [calls[i] EXCEPT !.at = "answer", !.result = result]
<1>1. calls[i] \in Call
  BY DEF IInv, Typed
<1>2. calls' = [calls EXCEPT ![i] = c]
  BY DEF Answer, IInv, Typed
<1>3. \/ c = None /\ calls[i].tab = None
      \/ /\ c \in Call /\ c.tab = calls[i].tab /\ c.kind = calls[i].kind
         /\ c.sent = calls[i].sent /\ (c.at = "answer" => c.tab # None) /\ c.new = calls[i].new
  <2>1. CASE calls[i].tab = None
    BY <2>1
  <2>2. CASE calls[i].tab # None
    <3> DEFINE d == [calls[i] EXCEPT !.at = "answer", !.result = result]
    <3>1. Same(calls[i], d)
      BY <1>1, CallAnswered
    <3>2. c = d
      BY <2>2
    <3> HIDE DEF c, d
    <3> QED BY <2>2, <3>1, <3>2 DEF Same
  <2> QED BY <2>1, <2>2
<1> HIDE DEF c
<1> QED BY <1>2, <1>3, ServerStep

LEMMA ValidateInv == ASSUME IInv, NEW i \in Calls, Validate(i) PROVE IInv'
<1>1. /\ calls[i] # None /\ tokens' \in [RowIds -> Token]
      /\ UNCHANGED <<issued, stored, reqs, promise, answered>>
  BY DEF Validate, At, IInv, Typed, serverUnchanged
<1>2. CASE Answer(i, "unauthorized")
  BY <1>1, <1>2, AnswerStep
<1>3. CASE calls' = [calls EXCEPT ![i].at = "valid"]
  <2> DEFINE c == [calls[i] EXCEPT !.at = "valid"]
  <2>1. calls' = [calls EXCEPT ![i] = c]
    BY <1>3 DEF IInv, Typed
  <2>2. Same(calls[i], c) /\ c.at = "valid"
    BY <1>1, CallGoesOn DEF IInv, Typed
  <2> HIDE DEF c
  <2> QED BY <1>1, <2>1, <2>2, ServerStep DEF Same
<1> QED BY <1>2, <1>3 DEF Validate

LEMMA FindInv == ASSUME IInv, NEW i \in Calls, Find(i) PROVE IInv'
<1>1. /\ calls[i] \in Call /\ calls[i] # None /\ tokens' \in [RowIds -> Token]
      /\ UNCHANGED <<stored, reqs, promise, answered>>
  BY DEF Find, At, IInv, Typed
<1>2. PICK id \in First :
          IF calls[i].kind = Logout
          THEN /\ IF id = None THEN Answer(i, "error")
                  ELSE calls' = [calls EXCEPT ![i].at = "found", ![i].row = id]
               /\ UNCHANGED issued
          ELSE /\ issued < MaxToken /\ issued' = issued + 1
               /\ calls' = [calls EXCEPT ![i].at = "found", ![i].row = id, ![i].new = issued + 1]
  BY DEF Find
<1>3. id \in RowIds \union {None}
  BY DEF First, Rows
<1>4. CASE Answer(i, "error") /\ UNCHANGED issued
  BY <1>1, <1>4, AnswerStep
<1> DEFINE c == [calls[i] EXCEPT !.at = "found", !.row = id]
           d == [c EXCEPT !.new = issued + 1]
<1>5. Same(calls[i], c) /\ c.at = "found"
  BY <1>1, <1>3, CallFindsRow
<1>6. CASE calls' = [calls EXCEPT ![i] = c] /\ UNCHANGED issued
  <2> HIDE DEF c
  <2> QED BY <1>1, <1>5, <1>6, ServerStep DEF Same
<1>7. CASE calls' = [calls EXCEPT ![i] = d] /\ issued' = issued + 1
  <2> HIDE DEF c
  <2>1. c \in Call /\ issued + 1 \in Token
    BY <1>5 DEF Same, IInv, Typed, Token
  <2>2. d \in Call
    BY <2>1 DEF Call
  <2>3. d.tab = c.tab /\ d.kind = c.kind /\ d.sent = c.sent /\ d.new = issued + 1 /\ d.at = c.at
    BY <2>1 DEF Call
  <2> HIDE DEF d
  <2> QED BY <1>1, <1>5, <1>7, <2>2, <2>3, ServerStep DEF Same
<1>8. /\ calls' = [calls EXCEPT ![i].at = "found", ![i].row = id] => calls' = [calls EXCEPT ![i] = c]
      /\ calls' = [calls EXCEPT ![i].at = "found", ![i].row = id, ![i].new = issued + 1]
            => calls' = [calls EXCEPT ![i] = d]
  BY <1>1 DEF IInv, Typed
<1> QED BY <1>2, <1>4, <1>6, <1>7, <1>8

LEMMA InsertInv == ASSUME IInv, NEW i \in Calls, Insert(i) PROVE IInv'
<1>1. /\ calls[i] \in Call /\ calls[i] # None
      /\ UNCHANGED <<issued, stored, reqs, promise, answered>>
  BY DEF Insert, At, IInv, Typed, serverUnchanged
<1>2. PICK id \in RowIds : /\ tokens' = [tokens EXCEPT ![id] = calls[i].new]
                           /\ calls' = [calls EXCEPT ![i].at = "saved", ![i].row = id]
  BY DEF Insert
<1> DEFINE c == [calls[i] EXCEPT !.at = "saved", !.row = id]
<1>3. tokens' \in [RowIds -> Token] /\ calls' = [calls EXCEPT ![i] = c]
  BY <1>1, <1>2 DEF IInv, Typed, Call
<1>4. Same(calls[i], c) /\ c.at = "saved"
  BY <1>1, CallFindsRow
<1> HIDE DEF c
<1> QED BY <1>1, <1>3, <1>4, ServerStep DEF Same

LEMMA UpdateInv == ASSUME IInv, NEW i \in Calls, Update(i) PROVE IInv'
<1>1. /\ calls[i] \in Call /\ calls[i] # None /\ calls[i].row \in RowIds
      /\ tokens' \in [RowIds -> Token]
      /\ UNCHANGED <<issued, stored, reqs, promise, answered>>
  BY DEF Update, At, IInv, Typed, Call, serverUnchanged
<1>2. CASE Answer(i, "error")
  BY <1>1, <1>2, AnswerStep
<1>3. CASE calls' = [calls EXCEPT ![i].at = "saved"]
  <2> DEFINE c == [calls[i] EXCEPT !.at = "saved"]
  <2>1. calls' = [calls EXCEPT ![i] = c]
    BY <1>3 DEF IInv, Typed
  <2>2. Same(calls[i], c) /\ c.at = "saved"
    BY <1>1, CallGoesOn
  <2> HIDE DEF c
  <2> QED BY <1>1, <2>1, <2>2, ServerStep DEF Same
<1> QED BY <1>2, <1>3 DEF Update

LEMMA ReloadInv == ASSUME IInv, NEW i \in Calls, Reload(i) PROVE IInv'
BY AnswerStep DEF Reload, At, IInv, Typed, serverUnchanged

LEMMA DeleteInv == ASSUME IInv, NEW i \in Calls, Delete(i) PROVE IInv'
<1>1. tokens' \in [RowIds -> Token]
  BY DEF Delete, IInv, Typed, Token
<1> QED BY <1>1, AnswerStep DEF Delete, At, serverUnchanged

\* A page request that does not wait.
LEMMA PageStep ==
    ASSUME IInv, NEW t \in Tabs, NEW p \in Pages, NEW q \in Request, q.at # "waiting",
           reqs[t][p].at # "waiting", reqs' = [reqs EXCEPT ![t][p] = q],
           UNCHANGED <<issued, tokens, calls, stored, promise, answered>>
    PROVE  IInv'
<1> USE DEF IInv
<1>1. p \in Requests /\ p # Logout /\ Logout \in Requests
  BY SessionsAssumption DEF Requests
<1>2. /\ reqs' \in [Tabs -> [Requests -> Request]]
      /\ \A u \in Tabs, r \in Requests : reqs'[u][r] = IF u = t /\ r = p THEN q ELSE reqs[u][r]
  BY <1>1 DEF Typed
<1>3. Typed' /\ OneRefresh' /\ AnswersAreHeard' /\ TokensAreIssued' /\ NewIsUnheard'
        /\ StoredIsUnanswered' /\ NoTokenSentTwice'
  BY <1>2 DEF Typed, OneRefresh, CallOf, AnswersAreHeard, TokensAreIssued, NewIsUnheard,
              StoredIsUnanswered, NoTokenSentTwice
<1>4. RefreshIsAwaited'
  BY <1>1, <1>2 DEF RefreshIsAwaited
<1>5. LogoutIsUnderWay'
  BY <1>1, <1>2 DEF LogoutIsUnderWay, CallOf
<1> QED BY <1>3, <1>4, <1>5

LEMMA SendPageInv == ASSUME IInv, NEW t \in Tabs, NEW p \in Pages, SendPage(t, p) PROVE IInv'
<1> DEFINE q == [Idle EXCEPT !.at = "sent", !.access = stored]
<1>1. Idle \in Request /\ Idle.at = "idle" /\ stored \in Token
  BY DEF Idle, Request, Token, IInv, Typed
<1>2. q \in Request /\ q.at = "sent"
  BY <1>1 DEF Request
<1> HIDE DEF q
<1> QED BY <1>1, <1>2, PageStep DEF SendPage, q

LEMMA PageAnsweredInv == ASSUME IInv, NEW t \in Tabs, NEW p \in Pages, PageAnswered(t, p) PROVE IInv'
<1>1. Idle \in Request /\ Idle.at = "idle"
  BY DEF Idle, Request, Token
<1> QED BY <1>1, PageStep DEF PageAnswered, Settled

LEMMA PageUnauthorizedInv ==
    ASSUME IInv, NEW t \in Tabs, NEW p \in Pages, PageUnauthorized(t, p) PROVE IInv'
<1>1. CASE stored = None
  <2>1. Idle \in Request /\ Idle.at = "idle"
    BY DEF Idle, Request, Token
  <2> QED BY <1>1, <2>1, PageStep DEF PageUnauthorized, Settled
<1>2. CASE stored # None
  <2>1. p \in Requests /\ p # Logout
    BY SessionsAssumption DEF Requests
  <2>2. calls \in [Calls -> Call \union {None}]
    BY DEF IInv, Typed
  <2> QED BY <1>2, <2>1, <2>2, WaitStep DEF PageUnauthorized
<1> QED BY <1>1, <1>2

LEMMA ClickLogoutInv == ASSUME IInv, NEW t \in Tabs, ClickLogout(t) PROVE IInv'
<1>1. stored \in Token
  BY DEF IInv, Typed
<1> QED BY <1>1, NewCallStep DEF ClickLogout

LEMMA LoginInv == ASSUME IInv, NEW t \in Tabs, Login(t) PROVE IInv'
<1>1. None \in Token
  BY DEF Token
<1> QED BY <1>1, NewCallStep DEF Login

\* What the tab of an answered refresh is, and what it had answered before.
LEMMA HeardRefresh ==
    ASSUME IInv, NEW i \in Calls, At(i, "answer"), calls[i].kind = "refresh",
           NEW going, going \subseteq Waiters(i), GoOn(i, going, Waiters(i) \ going),
           answered' = [answered EXCEPT ![calls[i].tab] = @ \union {calls[i].sent}],
           UNCHANGED <<issued, tokens>>, stored' \in Token,
           \/ stored' \in {stored, None}
           \/ stored' = calls[i].new,
           stored' # None => stored' # calls[i].sent
    PROVE  IInv'
<1> USE DEF IInv
<1> DEFINE t == calls[i].tab
<1>1. t \in Tabs /\ CallOf(t, i, "refresh")
  BY DEF At, AnswersAreHeard, CallOf
<1>2. /\ calls[i] # None /\ calls[i].sent \in Nat
  BY SessionsAssumption DEF At, TokensAreIssued, Typed, Call, Token
<1> HIDE DEF t
<1>3. /\ \A u \in Tabs : answered'[u] = IF u = t THEN answered[u] \union {calls[i].sent} ELSE answered[u]
      /\ answered' \in [Tabs -> SUBSET Nat]
  BY <1>1, <1>2 DEF Typed, t
<1>4. /\ calls' \in [Calls -> Call \union {None}]
      /\ reqs' \in [Tabs -> [Requests -> Request]]
      /\ promise' \in [Tabs -> Calls \union {None}]
      /\ \A j \in Calls : j # i => calls'[j] = calls[j]
      /\ calls'[i] # None => /\ calls'[i].kind = Logout /\ calls'[i].new = None
                             /\ calls'[i].at # "answer"
      /\ OneRefresh' /\ RefreshIsAwaited' /\ LogoutIsUnderWay'
  BY <1>1, RefreshEnds
<1>5. Typed'
  BY <1>3, <1>4 DEF Typed
<1>6. TokensAreIssued' /\ NewIsUnheard'
  <2>1. \A j \in Calls : calls'[j] # None =>
            \/ /\ calls[j] # None /\ calls'[j].new = calls[j].new
               /\ calls'[j].kind = calls[j].kind /\ calls'[j].sent = calls[j].sent
            \/ /\ calls'[j].new = None
               /\ calls'[j].kind = "refresh" => calls'[j].sent = stored /\ stored # None
    BY <1>4 DEF Logout
  <2>2. \/ stored' \in {stored, None}
        \/ \E j \in Calls : /\ calls[j] # None /\ stored' = calls[j].new
                            /\ calls'[j] # None => calls'[j].new = None
    BY <1>2, <1>4
  <2>3. \A u \in Tabs : \A n \in answered'[u] :
            \/ n \in answered[u]
            \/ \E j \in Calls : calls[j] # None /\ calls[j].kind = "refresh" /\ n = calls[j].sent
    BY <1>2, <1>3
  <2> QED BY <1>5, <2>1, <2>2, <2>3, TokensStayApart
<1>7. StoredIsUnanswered'
  BY <1>2, <1>3 DEF StoredIsUnanswered, NewIsUnheard
<1>8. AnswersAreHeard'
  BY <1>4 DEF AnswersAreHeard
<1>9. NoTokenSentTwice'
  <2> SUFFICES ASSUME NEW j \in Calls,
                      (calls[j] # None /\ calls[j].kind = "refresh" /\ calls[j].tab # None)'
               PROVE  calls'[j].sent \notin answered'[calls'[j].tab]
    BY DEF NoTokenSentTwice
  <2>1. j # i /\ calls'[j] = calls[j]
    BY <1>4 DEF Logout
  <2>2. calls[j].tab \in Tabs
    BY <2>1 DEF Typed, Call
  <2>3. calls[j].tab # t
    BY <1>1, <2>1, <2>2 DEF OneRefresh, CallOf
  <2> QED BY <1>3, <2>1, <2>2, <2>3 DEF NoTokenSentTwice
<1> QED BY <1>4, <1>5, <1>6, <1>7, <1>8, <1>9

LEMMA HearTokensInv == ASSUME IInv, NEW i \in Calls, HearTokens(i) PROVE IInv'
<1>1. calls[i] \in Call /\ calls[i] # None
  BY DEF HearTokens, At, IInv, Typed
<1>2. calls[i].new \in Token /\ (calls[i].new # None => calls[i].new # calls[i].sent)
  BY <1>1 DEF HearTokens, IInv, NewIsUnheard, Call
<1>3. Waiters(i) \ Waiters(i) = {}
  OBVIOUS
<1> QED BY <1>2, <1>3, HeardRefresh DEF HearTokens

\* The request that started the refresh sees whether its token is still stored.
LEMMA HearRefusedInv == ASSUME IInv, NEW i \in Calls, HearRefused(i) PROVE IInv'
<1> DEFINE t == calls[i].tab
<1>1. t \in Tabs /\ promise[t] = i
  BY DEF HearRefused, At, IInv, AnswersAreHeard, OneRefresh, CallOf
<1>2. PICK r \in Requests : reqs[t][r].at = "waiting" /\ reqs[t][r].token = calls[i].sent
  BY <1>1, SessionsAssumption DEF IInv, RefreshIsAwaited
<1>3. r \in Waiters(i)
  BY <1>1, <1>2, SessionsAssumption DEF Waiters
<1>4. stored' \in {stored, None} /\ stored' \in Token
  BY DEF HearRefused, IInv, Typed, Token
<1>5. stored' # None => stored' # calls[i].sent
  BY <1>2, <1>3 DEF HearRefused, Ending
<1>6. /\ Waiters(i) \ (Waiters(i) \ Ending(i)) = Ending(i)
      /\ Waiters(i) \ Ending(i) \subseteq Waiters(i)
  BY DEF Ending
<1> QED BY <1>4, <1>5, <1>6, HeardRefresh DEF HearRefused

\* A call ends for its tab t, without an answered token: it is gone, or goes on
\* without a tab; the requests that were for it have ended.
CallEnded(i, t, lost) ==
    /\ calls[i] # None /\ calls[i].tab = t /\ t \in Tabs
    /\ calls' \in [Calls -> Call \union {None}]
    /\ \A j \in Calls : j # i => calls'[j] = calls[j]
    /\ calls'[i] # None =>
          /\ calls'[i].tab = None /\ calls'[i].kind = calls[i].kind
          /\ calls'[i].sent = calls[i].sent /\ calls'[i].new = calls[i].new
          /\ calls'[i].at # "answer"
    /\ promise' = [promise EXCEPT ![t] = IF @ = i THEN None ELSE @]
    /\ IF promise[t] = i THEN lost = {r \in Requests : reqs[t][r].at = "waiting"}
       ELSE lost = {} \/ (lost = {Logout} /\ calls[i].kind = Logout)
    /\ reqs' \in [Tabs -> [Requests -> Request]]
    /\ \A u \in Tabs, r \in Requests :
           reqs'[u][r] = IF u = t /\ r \in lost THEN Idle ELSE reqs[u][r]
    /\ stored' \in {stored, None} \/ (stored' = calls[i].new /\ calls'[i] = None)
    /\ UNCHANGED <<issued, tokens, answered>>

LEMMA CallEnds ==
    ASSUME IInv, NEW i \in Calls, NEW t, NEW lost, CallEnded(i, t, lost)
    PROVE  IInv'
<1> USE DEF IInv, CallEnded
<1>2. /\ \A u \in Tabs : promise'[u] = IF u = t /\ promise[t] = i THEN None ELSE promise[u]
      /\ promise' \in [Tabs -> Calls \union {None}]
  BY DEF Typed
<1>0. Idle.at = "idle"
  BY DEF Idle
<1>3. Typed'
  <2>1. stored' \in Token
    BY DEF Typed, Call, Token
  <2> QED BY <1>2, <2>1 DEF Typed
<1>4. TokensAreIssued' /\ NewIsUnheard'
  <2>1. \A j \in Calls : calls'[j] # None =>
            /\ calls[j] # None /\ calls'[j].new = calls[j].new
            /\ calls'[j].kind = calls[j].kind /\ calls'[j].sent = calls[j].sent
    OBVIOUS
  <2>2. \/ stored' \in {stored, None}
        \/ \E j \in Calls : /\ calls[j] # None /\ stored' = calls[j].new
                            /\ calls'[j] # None => calls'[j].new = None
    OBVIOUS
  <2> QED BY <1>3, <2>1, <2>2, TokensStayApart
<1>5. StoredIsUnanswered'
  BY DEF StoredIsUnanswered, NewIsUnheard
<1>6. AnswersAreHeard' /\ NoTokenSentTwice'
  BY DEF AnswersAreHeard, NoTokenSentTwice
<1>7. \A u \in Tabs, j \in Calls, kind \in {"refresh", Logout} :
          CallOf(u, j, kind)' <=> CallOf(u, j, kind) /\ j # i
  BY SessionsAssumption DEF CallOf
<1>8. OneRefresh'
  <2> SUFFICES ASSUME NEW u \in Tabs, NEW j \in Calls
               PROVE  CallOf(u, j, "refresh")' <=> promise'[u] = j
    BY DEF OneRefresh
  <2>1. CASE u = t /\ promise[t] = i
    <3>1. CallOf(u, j, "refresh") <=> j = i
      BY <2>1 DEF OneRefresh
    <3> QED BY <1>2, <1>7, <2>1, <3>1, SessionsAssumption
  <2>2. CASE ~(u = t /\ promise[t] = i)
    <3>1. promise[u] # i
      BY <2>2 DEF OneRefresh, CallOf
    <3> QED BY <1>2, <1>7, <2>2, <3>1 DEF OneRefresh
  <2> QED BY <2>1, <2>2
<1>9. RefreshIsAwaited'
  <2> SUFFICES ASSUME NEW u \in Tabs
               PROVE  /\ promise'[u] = None => \A r \in Requests : reqs'[u][r].at # "waiting"
                      /\ promise'[u] # None =>
                            \E r \in Requests : /\ reqs'[u][r].at = "waiting"
                                                /\ reqs'[u][r].token = calls'[promise'[u]].sent
    BY DEF RefreshIsAwaited
  <2>1. CASE u = t /\ promise[t] = i
    BY <1>0, <1>2, <2>1
  <2>2. CASE ~(u = t /\ promise[t] = i)
    <3>1. promise[u] # i /\ promise'[u] = promise[u]
      BY <1>2, <2>2 DEF OneRefresh, CallOf
    <3>2. promise[u] # None => calls'[promise[u]] = calls[promise[u]]
      BY <3>1 DEF Typed
    <3>3. \A r \in Requests : /\ reqs'[u][r].at = "waiting" => reqs[u][r].at = "waiting"
                              /\ reqs[u][r].at = "waiting" => reqs'[u][r] = reqs[u][r]
      <4>1. u = t /\ calls[i].kind = Logout => reqs[t][Logout].at # "waiting"
        BY DEF LogoutIsUnderWay, CallOf
      <4> QED BY <1>0, <3>1, <4>1
    <3> QED BY <3>1, <3>2, <3>3 DEF RefreshIsAwaited
  <2> QED BY <2>1, <2>2
<1>10. LogoutIsUnderWay'
  <2> SUFFICES ASSUME NEW u \in Tabs, NEW j \in Calls, CallOf(u, j, Logout)'
               PROVE  /\ reqs'[u][Logout].at \in {"sent", "retried"}
                      /\ \A k \in Calls : CallOf(u, k, Logout)' => k = j
    BY DEF LogoutIsUnderWay
  <2>1. /\ CallOf(u, j, Logout) /\ j # i /\ Logout \in Requests
        /\ reqs[u][Logout].at \in {"sent", "retried"}
        /\ \A k \in Calls : CallOf(u, k, Logout)' => k = j
    BY <1>7 DEF LogoutIsUnderWay, Requests
  <2>2. u = t => calls[i].kind # Logout
    BY <2>1 DEF LogoutIsUnderWay, CallOf
  <2>3. reqs'[u][Logout] = reqs[u][Logout]
    <3>1. u = t => Logout \notin lost
      BY <2>1, <2>2
    <3> QED BY <2>1, <3>1
  <2> QED BY <2>1, <2>3
<1> QED BY <1>3, <1>4, <1>5, <1>6, <1>8, <1>9, <1>10

LEMMA HearLoginInv == ASSUME IInv, NEW i \in Calls, HearLogin(i) PROVE IInv'
<1> DEFINE t == calls[i].tab
<1>1. /\ calls[i] # None /\ t \in Tabs /\ promise[t] # i
      /\ UNCHANGED <<issued, tokens, reqs, promise, answered>>
  BY DEF HearLogin, At, IInv, AnswersAreHeard, OneRefresh, CallOf
<1>2. /\ calls' = [calls EXCEPT ![i] = None]
      /\ stored' = stored \/ stored' = calls[i].new
  BY DEF HearLogin
<1>3. promise' = [promise EXCEPT ![t] = IF @ = i THEN None ELSE @]
  BY <1>1 DEF IInv, Typed
<1>4. /\ reqs' \in [Tabs -> [Requests -> Request]]
      /\ \A u \in Tabs, r \in Requests :
            reqs'[u][r] = IF u = t /\ r \in {} THEN Idle ELSE reqs[u][r]
  BY <1>1 DEF IInv, Typed
<1>6. /\ calls' \in [Calls -> Call \union {None}] /\ calls'[i] = None
      /\ \A j \in Calls : j # i => calls'[j] = calls[j]
  BY <1>2 DEF IInv, Typed
<1>7. CallEnded(i, t, {})
  BY <1>1, <1>2, <1>3, <1>4, <1>6 DEF CallEnded
<1> QED BY <1>7, CallEnds

LEMMA HearLogoutInv == ASSUME IInv, NEW i \in Calls, HearLogout(i) PROVE IInv'
<1> DEFINE t == calls[i].tab
           left == [calls EXCEPT ![i] = None]
<1>1. /\ calls[i] # None /\ t \in Tabs /\ promise[t] # i /\ CallOf(t, i, Logout)
      /\ UNCHANGED <<issued, tokens, answered>>
  BY DEF HearLogout, At, IInv, AnswersAreHeard, OneRefresh, CallOf, Logout
<1>2. Logout \in Requests
  BY DEF Requests
<1>3. CASE reqs[t][Logout].at = "sent" /\ stored # None /\ Wait(t, Logout, left) /\ UNCHANGED stored
  <2>1. /\ left \in [Calls -> Call \union {None}]
        /\ \A j \in Calls : left[j] = IF j = i THEN None ELSE calls[j]
    BY DEF IInv, Typed
  <2>2. \A j \in Calls : CallOf(t, j, Logout) => j = i
    BY <1>1 DEF IInv, LogoutIsUnderWay
  <2> HIDE DEF left
  <2>3. \A j \in Calls : left[j] = calls[j] \/ (left[j] = None /\ CallOf(t, j, Logout))
    BY <1>1, <2>1
  <2>4. \A j \in Calls : left[j] = None \/ ~CallOf(t, j, Logout)
    BY <2>1, <2>2
  <2> HIDE DEF t
  <2> QED BY <1>1, <1>2, <1>3, <2>1, <2>3, <2>4, WaitStep
<1>4. CASE /\ stored' = None /\ Settled(t, Logout)
           /\ calls' = left /\ UNCHANGED promise
  <2>1. promise' = [promise EXCEPT ![t] = IF @ = i THEN None ELSE @]
    BY <1>1, <1>4 DEF IInv, Typed
  <2>2. Idle \in Request
    BY DEF Idle, Request, Token
  <2>3. /\ reqs' \in [Tabs -> [Requests -> Request]]
        /\ \A u \in Tabs, r \in Requests :
              reqs'[u][r] = IF u = t /\ r \in {Logout} THEN Idle ELSE reqs[u][r]
    BY <1>1, <1>2, <1>4, <2>2 DEF IInv, Typed, Settled
  <2>4. {Logout} \in SUBSET Requests /\ calls[i].kind = Logout
    BY <1>1, <1>2 DEF CallOf
  <2>5. /\ calls' \in [Calls -> Call \union {None}] /\ calls'[i] = None
        /\ \A j \in Calls : j # i => calls'[j] = calls[j]
    BY <1>4 DEF IInv, Typed
  <2>6. CallEnded(i, t, {Logout})
    BY <1>1, <1>4, <2>1, <2>3, <2>4, <2>5 DEF CallEnded
  <2> QED BY <2>6, CallEnds
<1> QED BY <1>3, <1>4 DEF HearLogout

LEMMA BreakInv == ASSUME IInv, NEW i \in Calls, Break(i) PROVE IInv'
<1> DEFINE t == calls[i].tab
           lost == IF calls[i].kind = Logout THEN {Logout} ELSE Waiters(i)
           c == IF calls'[i] = None THEN None ELSE [calls[i] EXCEPT !.tab = None]
<1>1. /\ calls[i] \in Call /\ calls[i] # None /\ t \in Tabs
      /\ promise' = [promise EXCEPT ![t] = IF @ = i THEN None ELSE @]
      /\ reqs' = [reqs EXCEPT ![t] = [r \in Requests |-> IF r \in lost THEN Idle ELSE @[r]]]
      /\ UNCHANGED <<issued, tokens, answered>>
      /\ stored' \in {stored, None}
  BY DEF Break, IInv, Typed, Call
<1>2. calls' = [calls EXCEPT ![i] = c]
  BY <1>1 DEF Break, At, IInv, Typed
<1>3. \/ c = None
      \/ /\ c \in Call /\ c.tab = None /\ c.kind = calls[i].kind /\ c.sent = calls[i].sent
         /\ c.new = calls[i].new /\ c.at # "answer"
  <2>1. LET d == [calls[i] EXCEPT !.tab = None]
        IN  d \in Call /\ d.tab = None /\ d.kind = calls[i].kind /\ d.sent = calls[i].sent
            /\ d.new = calls[i].new /\ d.at = calls[i].at
    BY <1>1, CallForgotten
  <2>2. calls[i].at = "answer" => calls'[i] = None
    BY <1>1 DEF Break, At, IInv, Typed
  <2> QED BY <2>1, <2>2
<1>4. Logout \in Requests /\ Idle \in Request
  BY DEF Requests, Idle, Request, Token
<1>5. /\ lost \in SUBSET Requests
      /\ promise[t] = i => calls[i].kind = "refresh"
      /\ promise[t] = i => Waiters(i) = {r \in Requests : reqs[t][r].at = "waiting"}
      /\ promise[t] # i => Waiters(i) = {}
  BY <1>1, <1>4, SessionsAssumption DEF IInv, OneRefresh, CallOf, Waiters
<1>6. IF promise[t] = i THEN lost = {r \in Requests : reqs[t][r].at = "waiting"}
      ELSE lost = {} \/ (lost = {Logout} /\ calls[i].kind = Logout)
  BY <1>5 DEF Logout
<1> HIDE DEF lost, c
<1>7. /\ reqs' \in [Tabs -> [Requests -> Request]]
      /\ \A u \in Tabs, r \in Requests :
            reqs'[u][r] = IF u = t /\ r \in lost THEN Idle ELSE reqs[u][r]
  BY <1>1, <1>4 DEF IInv, Typed
<1>8. /\ calls' \in [Calls -> Call \union {None}] /\ calls'[i] = c
      /\ \A j \in Calls : j # i => calls'[j] = calls[j]
  BY <1>2, <1>3 DEF IInv, Typed
<1>9. CallEnded(i, t, lost)
  BY <1>1, <1>3, <1>6, <1>7, <1>8 DEF CallEnded
<1> QED BY <1>9, CallEnds

LEMMA NextInv == IInv /\ [Next]_vars => IInv'
<1> SUFFICES ASSUME IInv, [Next]_vars PROVE IInv'
  OBVIOUS
<1>1. CASE UNCHANGED <<issued, tokens, calls, stored, reqs, promise, answered>>
  BY <1>1 DEF IInv, Typed, OneRefresh, CallOf, RefreshIsAwaited, LogoutIsUnderWay, AnswersAreHeard,
              TokensAreIssued, NewIsUnheard, StoredIsUnanswered, NoTokenSentTwice
<1>2. CASE \E i \in Calls : Serve(i)
  BY <1>2, ValidateInv, FindInv, InsertInv, UpdateInv, ReloadInv, DeleteInv DEF Serve
<1>3. CASE \E i \in Calls : Hear(i) \/ Break(i)
  BY <1>3, HearTokensInv, HearRefusedInv, HearLogoutInv, HearLoginInv, BreakInv DEF Hear
<1>4. CASE \E t \in Tabs : ClickLogout(t) \/ Login(t)
  BY <1>4, ClickLogoutInv, LoginInv
<1>5. CASE \E t \in Tabs, p \in Pages : SendPage(t, p) \/ PageAnswered(t, p) \/ PageUnauthorized(t, p)
  BY <1>5, SendPageInv, PageAnsweredInv, PageUnauthorizedInv
<1> QED BY <1>1, <1>2, <1>3, <1>4, <1>5 DEF Next, Expire, vars

\* The invariant holds in every state the browser and the server can reach.
LEMMA Invariance == Spec => []IInv
BY InitInv, NextInv, PTL DEF Spec

\* Whatever requests of a tab fail in whatever order, and whatever the other tabs,
\* the logins and the server do between, a tab never has a refresh under way with
\* a token it was answered for (apiClient's response interceptor).
THEOREM TokensAreSentOnce == Spec => []NoTokenSentTwice
<1>1. IInv => NoTokenSentTwice
  BY DEF IInv
<1> QED BY <1>1, Invariance, PTL

----------------------------------------------------------------------------
(* The table of tokens.                                                    *)

\* What TokenIsGone says of call c, for the rows ts.
GoneFor(c, ts) ==
    c # None /\ c.kind = "refresh" =>
        \A id \in RowIds :
            \/ c.at \in {"sent", "valid"}
            \/ c.at = "found" /\ c.row = id
            \/ c.at = "answer" /\ c.result = "ok"
            \/ ts[id] # c.sent

\* One call goes on, and writes its new token into rows, deletes some, or neither.
LEMMA TableStep ==
    ASSUME IInv, TokenIsGone, NEW i \in Calls, calls[i] # None,
           NEW c, calls' = [calls EXCEPT ![i] = c],
           \A id \in RowIds : tokens'[id] \in {tokens[id], None, calls[i].new},
           GoneFor(c, tokens')
    PROVE  TokenIsGone'
<1>1. \A j \in Calls : calls'[j] = IF j = i THEN c ELSE calls[j]
  BY DEF IInv, Typed
<1>2. \A j \in Calls : calls[j] # None /\ calls[j].kind = "refresh" =>
          calls[j].sent # None /\ calls[j].sent # calls[i].new
  BY DEF IInv, TokensAreIssued, NewIsUnheard
<1>3. ASSUME NEW j \in Calls, calls'[j] # None, calls'[j].kind = "refresh", NEW id \in RowIds
      PROVE  \/ calls'[j].at \in {"sent", "valid"}
             \/ calls'[j].at = "found" /\ calls'[j].row = id
             \/ calls'[j].at = "answer" /\ calls'[j].result = "ok"
             \/ tokens'[id] # calls'[j].sent
  <2>1. CASE j = i
    BY <1>1, <1>3, <2>1 DEF GoneFor
  <2>2. CASE j # i
    BY <1>1, <1>2, <1>3, <2>2 DEF TokenIsGone
  <2> QED BY <2>1, <2>2
<1> QED BY <1>3 DEF TokenIsGone

\* What an answer leaves of a call.
LEMMA AnswerIsCall ==
    ASSUME NEW i \in Calls, IInv, calls[i] # None, NEW result \in {"ok", "unauthorized", "error"},
           Answer(i, result)
    PROVE  \E c : /\ calls' = [calls EXCEPT ![i] = c]
                  /\ c # None => /\ c.kind = calls[i].kind /\ c.sent = calls[i].sent
                                 /\ c.at = "answer" /\ c.result = result
<1> DEFINE c == IF calls[i].tab = None THEN None
                ELSE [calls[i] EXCEPT !.at = "answer", !.result = result]
<1>1. calls' = [calls EXCEPT ![i] = c] /\ calls[i] \in Call
  BY DEF Answer, IInv, Typed
<1>2. c # None => /\ c.kind = calls[i].kind /\ c.sent = calls[i].sent
                  /\ c.at = "answer" /\ c.result = result
  BY <1>1, CallAnswered DEF Same
<1> QED BY <1>1, <1>2

\* With one row, the row that first() takes is the only one.
LEMMA ValidateTable ==
    ASSUME IInv, TokenIsGone, OneRow, NEW i \in Calls, Validate(i) PROVE TokenIsGone'
<1>1. calls[i] \in Call /\ calls[i] # None /\ tokens' = tokens
  BY DEF Validate, At, IInv, Typed
<1>2. CASE calls' = [calls EXCEPT ![i].at = "valid"]
  <2> DEFINE c == [calls[i] EXCEPT !.at = "valid"]
  <2>1. calls' = [calls EXCEPT ![i] = c]
    BY <1>2 DEF IInv, Typed
  <2>2. GoneFor(c, tokens')
    BY <1>1, CallGoesOn DEF GoneFor, Same
  <2> HIDE DEF c
  <2> QED BY <1>1, <2>1, <2>2, TableStep
<1>3. ASSUME NEW id \in First, ~(id # None /\ tokens[id] = calls[i].sent), Answer(i, "unauthorized")
      PROVE  TokenIsGone'
  <2>1. PICK c : /\ calls' = [calls EXCEPT ![i] = c]
                 /\ c # None => /\ c.kind = calls[i].kind /\ c.sent = calls[i].sent
                                /\ c.at = "answer" /\ c.result = "unauthorized"
    BY <1>1, <1>3, AnswerIsCall
  <2>2. calls[i].kind = "refresh" => \A x \in RowIds : tokens[x] # calls[i].sent
    <3> SUFFICES ASSUME calls[i].kind = "refresh", NEW x \in RowIds, tokens[x] = calls[i].sent
                 PROVE  FALSE
      OBVIOUS
    <3>1. x \in Rows
      BY <1>1 DEF IInv, TokensAreIssued, Rows
    <3>2. id \in Rows /\ id # None
      BY <3>1, SessionsAssumption DEF First, Rows
    <3> QED BY <1>3, <3>1, <3>2 DEF OneRow
  <2>3. GoneFor(c, tokens')
    BY <1>1, <2>1, <2>2 DEF GoneFor
  <2> QED BY <1>1, <2>1, <2>3, TableStep
<1> QED BY <1>2, <1>3 DEF Validate

LEMMA FindTable ==
    ASSUME IInv, TokenIsGone, OneRow, NEW i \in Calls, Find(i) PROVE TokenIsGone'
<1>1. /\ calls[i] \in Call /\ calls[i] # None /\ tokens' = tokens
  BY DEF Find, At, IInv, Typed
<1>2. PICK id \in First :
          IF calls[i].kind = Logout
          THEN /\ IF id = None THEN Answer(i, "error")
                  ELSE calls' = [calls EXCEPT ![i].at = "found", ![i].row = id]
               /\ UNCHANGED issued
          ELSE /\ issued < MaxToken /\ issued' = issued + 1
               /\ calls' = [calls EXCEPT ![i].at = "found", ![i].row = id, ![i].new = issued + 1]
  BY DEF Find
<1>3. id \in RowIds \union {None} /\ \A x \in RowIds : x # id => tokens[x] = None
  BY DEF First, Rows, OneRow
<1>4. CASE Answer(i, "error") /\ calls[i].kind = Logout
  <2>1. PICK c : /\ calls' = [calls EXCEPT ![i] = c]
                 /\ c # None => /\ c.kind = calls[i].kind /\ c.sent = calls[i].sent
                                /\ c.at = "answer" /\ c.result = "error"
    BY <1>1, <1>4, AnswerIsCall
  <2>2. GoneFor(c, tokens')
    BY <1>4, <2>1 DEF GoneFor, Logout
  <2> QED BY <1>1, <2>1, <2>2, TableStep
<1> DEFINE c == [calls[i] EXCEPT !.at = "found", !.row = id]
           d == [c EXCEPT !.new = issued + 1]
<1>5. Same(calls[i], c) /\ c.at = "found" /\ c.row = id
  BY <1>1, <1>3, CallFindsRow
<1>6. calls[i].kind = "refresh" => calls[i].sent # None
  BY <1>1 DEF IInv, TokensAreIssued
<1>7. CASE calls' = [calls EXCEPT ![i] = c]
  <2>1. GoneFor(c, tokens')
    BY <1>1, <1>3, <1>5, <1>6 DEF GoneFor, Same
  <2> HIDE DEF c
  <2> QED BY <1>1, <1>7, <2>1, TableStep
<1>8. CASE calls' = [calls EXCEPT ![i] = d]
  <2> HIDE DEF c
  <2>1. d.kind = c.kind /\ d.sent = c.sent /\ d.at = c.at /\ d.row = c.row
    BY <1>5 DEF Same, Call
  <2> HIDE DEF d
  <2>2. GoneFor(d, tokens')
    BY <1>1, <1>3, <1>5, <1>6, <2>1 DEF GoneFor, Same
  <2> QED BY <1>1, <1>8, <2>2, TableStep
<1>9. /\ calls' = [calls EXCEPT ![i].at = "found", ![i].row = id] => calls' = [calls EXCEPT ![i] = c]
      /\ calls' = [calls EXCEPT ![i].at = "found", ![i].row = id, ![i].new = issued + 1]
            => calls' = [calls EXCEPT ![i] = d]
  BY <1>1 DEF IInv, Typed
<1> QED BY <1>2, <1>4, <1>7, <1>8, <1>9

LEMMA InsertTable ==
    ASSUME IInv, TokenIsGone, NEW i \in Calls, Insert(i) PROVE TokenIsGone'
<1>1. calls[i] \in Call /\ calls[i] # None
  BY DEF Insert, At, IInv, Typed
<1>2. PICK id \in RowIds : /\ tokens' = [tokens EXCEPT ![id] = calls[i].new]
                           /\ calls' = [calls EXCEPT ![i].at = "saved", ![i].row = id]
  BY DEF Insert
<1> DEFINE c == [calls[i] EXCEPT !.at = "saved", !.row = id]
<1>3. calls' = [calls EXCEPT ![i] = c]
  BY <1>1, <1>2 DEF IInv, Typed
<1>4. Same(calls[i], c) /\ c.at = "saved"
  BY <1>1, CallFindsRow
<1>5. calls[i].kind = "refresh" =>
          /\ calls[i].sent # calls[i].new
          /\ \A x \in RowIds : tokens[x] # calls[i].sent
  BY <1>1, SessionsAssumption DEF Insert, At, TokenIsGone, IInv, NewIsUnheard, TokensAreIssued
<1>6. \A x \in RowIds : tokens'[x] \in {tokens[x], calls[i].new}
  BY <1>2 DEF IInv, Typed
<1> HIDE DEF c
<1>7. GoneFor(c, tokens')
  BY <1>4, <1>5, <1>6 DEF GoneFor, Same
<1> QED BY <1>1, <1>3, <1>6, <1>7, TableStep

LEMMA UpdateTable ==
    ASSUME IInv, TokenIsGone, NEW i \in Calls, Update(i) PROVE TokenIsGone'
<1>1. calls[i] \in Call /\ calls[i] # None /\ calls[i].row \in RowIds
  BY DEF Update, At, IInv, Typed, Call
<1>2. calls[i].kind = "refresh" =>
          /\ calls[i].sent # calls[i].new /\ calls[i].sent # None
          /\ \A x \in RowIds : x # calls[i].row => tokens[x] # calls[i].sent
  BY <1>1 DEF Update, At, TokenIsGone, IInv, NewIsUnheard, TokensAreIssued
<1>3. CASE /\ tokens[calls[i].row] # None
           /\ tokens' = [tokens EXCEPT ![calls[i].row] = calls[i].new]
           /\ calls' = [calls EXCEPT ![i].at = "saved"]
  <2> DEFINE c == [calls[i] EXCEPT !.at = "saved"]
  <2>1. calls' = [calls EXCEPT ![i] = c]
    BY <1>3 DEF IInv, Typed
  <2>2. Same(calls[i], c) /\ c.at = "saved"
    BY <1>1, CallGoesOn
  <2>3. \A x \in RowIds : tokens'[x] = IF x = calls[i].row THEN calls[i].new ELSE tokens[x]
    BY <1>3 DEF IInv, Typed
  <2> HIDE DEF c
  <2>4. GoneFor(c, tokens')
    BY <1>2, <2>2, <2>3 DEF GoneFor, Same
  <2> QED BY <1>1, <2>1, <2>3, <2>4, TableStep
<1>4. CASE tokens[calls[i].row] = None /\ Answer(i, "error") /\ UNCHANGED tokens
  <2>1. PICK c : /\ calls' = [calls EXCEPT ![i] = c]
                 /\ c # None => /\ c.kind = calls[i].kind /\ c.sent = calls[i].sent
                                /\ c.at = "answer" /\ c.result = "error"
    BY <1>1, <1>4, AnswerIsCall
  <2>2. GoneFor(c, tokens')
    BY <1>2, <1>4, <2>1 DEF GoneFor
  <2> QED BY <1>1, <1>4, <2>1, <2>2, TableStep
<1> QED BY <1>3, <1>4 DEF Update

LEMMA ReloadTable ==
    ASSUME IInv, TokenIsGone, NEW i \in Calls, Reload(i) PROVE TokenIsGone'
<1> DEFINE result == IF tokens[calls[i].row] # None THEN "ok" ELSE "error"
<1>1. calls[i] # None /\ tokens' = tokens /\ Answer(i, result)
  BY DEF Reload, At
<1>2. PICK c : /\ calls' = [calls EXCEPT ![i] = c]
               /\ c # None => /\ c.kind = calls[i].kind /\ c.sent = calls[i].sent
                              /\ c.at = "answer" /\ c.result = result
  BY <1>1, AnswerIsCall
<1>3. calls[i].kind = "refresh" => \A x \in RowIds : tokens[x] # calls[i].sent
  BY <1>1 DEF Reload, At, TokenIsGone
<1> HIDE DEF result
<1>4. GoneFor(c, tokens')
  BY <1>1, <1>2, <1>3 DEF GoneFor
<1> QED BY <1>1, <1>2, <1>4, TableStep

LEMMA DeleteTable ==
    ASSUME IInv, TokenIsGone, NEW i \in Calls, Delete(i) PROVE TokenIsGone'
<1>1. /\ calls[i] # None /\ calls[i].kind = Logout /\ Answer(i, "ok")
      /\ \A x \in RowIds : tokens'[x] \in {tokens[x], None}
  BY DEF Delete, At, IInv, Typed
<1>2. PICK c : /\ calls' = [calls EXCEPT ![i] = c]
               /\ c # None => /\ c.kind = calls[i].kind /\ c.sent = calls[i].sent
                              /\ c.at = "answer" /\ c.result = "ok"
  BY <1>1, AnswerIsCall
<1>3. GoneFor(c, tokens')
  BY <1>1, <1>2 DEF GoneFor, Logout
<1> QED BY <1>1, <1>2, <1>3, TableStep

\* A step of a tab: its calls go on, end, or begin.
LEMMA TabTable ==
    ASSUME TokenIsGone, tokens' = tokens,
           \A j \in Calls : calls'[j] # None =>
               \/ calls'[j].kind # "refresh"
               \/ calls'[j].at \in {"sent", "valid"}
               \/ /\ calls[j] # None /\ calls'[j].kind = calls[j].kind /\ calls'[j].sent = calls[j].sent
                  /\ calls'[j].at = calls[j].at /\ calls'[j].row = calls[j].row
                  /\ calls'[j].at = "answer" => calls'[j].result = calls[j].result
    PROVE  TokenIsGone'
BY DEF TokenIsGone

\* The call that a tab puts into a free slot, or into that of one that has ended.
LEMMA WaitTable ==
    ASSUME IInv, TokenIsGone, NEW t \in Tabs, NEW r \in Requests, NEW left \in [Calls -> Call \union {None}],
           stored # None, \A j \in Calls : left[j] \in {calls[j], None},
           Wait(t, r, left), tokens' = tokens
    PROVE  TokenIsGone'
<1>1. stored \in Token
  BY DEF IInv, Typed
<1>2. NewCall(t, "refresh", stored).at \in {"sent", "valid"}
  BY <1>1, NewCallIsCall
<1>3. \A j \in Calls : calls'[j] \in {left[j], NewCall(t, "refresh", stored)}
  BY SlotIsFree DEF Wait
<1> QED BY <1>2, <1>3, TabTable

LEMMA TabStepTable ==
    ASSUME IInv, TokenIsGone, tokens' = tokens,
           \/ \E i \in Calls : Hear(i) \/ Break(i)
           \/ \E t \in Tabs :
                 \/ ClickLogout(t) \/ Login(t)
                 \/ \E p \in Pages : SendPage(t, p) \/ PageAnswered(t, p) \/ PageUnauthorized(t, p)
    PROVE  TokenIsGone'
<1>1. calls \in [Calls -> Call \union {None}] /\ stored \in Token
  BY DEF IInv, Typed
<1>2. ASSUME NEW i \in Calls, HearTokens(i) \/ HearRefused(i) PROVE TokenIsGone'
  <2>1. At(i, "answer") /\ calls[i].tab \in Tabs
    BY <1>2 DEF HearTokens, HearRefused, At, IInv, AnswersAreHeard
  <2>2. NewCall(calls[i].tab, Logout, reqs[calls[i].tab][Logout].body).at \in {"sent", "valid"}
    BY DEF NewCall
  <2>3. \A j \in Calls :
            calls'[j] \in {calls[j], None, NewCall(calls[i].tab, Logout, reqs[calls[i].tab][Logout].body)}
    BY <1>1, <1>2 DEF HearTokens, HearRefused, GoOn
  <2> QED BY <2>2, <2>3, TabTable
<1>3. ASSUME NEW i \in Calls, HearLogout(i) PROVE TokenIsGone'
  <2> DEFINE left == [calls EXCEPT ![i] = None]
  <2>1. left \in [Calls -> Call \union {None}] /\ \A j \in Calls : left[j] \in {calls[j], None}
    BY <1>1
  <2>2. calls[i].tab \in Tabs /\ Logout \in Requests
    BY <1>3 DEF HearLogout, At, IInv, AnswersAreHeard, Requests
  <2>3. (Wait(calls[i].tab, Logout, left) /\ stored # None) \/ calls' = left
    BY <1>3 DEF HearLogout
  <2> HIDE DEF left
  <2> QED BY <2>1, <2>2, <2>3, WaitTable, TabTable
<1>4. ASSUME NEW i \in Calls, HearLogin(i) PROVE TokenIsGone'
  <2>1. \A j \in Calls : calls'[j] \in {calls[j], None}
    BY <1>1, <1>4 DEF HearLogin
  <2> QED BY <2>1, TabTable
<1>5. ASSUME NEW i \in Calls, Break(i) PROVE TokenIsGone'
  <2> DEFINE c == [calls[i] EXCEPT !.tab = None]
  <2>1. calls[i] \in Call
    BY <1>1, <1>5 DEF Break
  <2>2. c.kind = calls[i].kind /\ c.sent = calls[i].sent /\ c.at = calls[i].at /\ c.row = calls[i].row
          /\ c.result = calls[i].result
    BY <2>1 DEF Call
  <2>3. /\ \A j \in Calls : calls'[j] \in {calls[j], None} \/ (j = i /\ calls'[j] = c)
        /\ calls[i] # None
    BY <1>1, <1>5 DEF Break
  <2> HIDE DEF c
  <2> QED BY <2>2, <2>3, TabTable
<1>6. ASSUME NEW t \in Tabs, ClickLogout(t) \/ Login(t) PROVE TokenIsGone'
  <2>1. \A j \in Calls : calls'[j] \in {calls[j], NewCall(t, Logout, stored), NewCall(t, "login", None)}
    BY <1>1, <1>6 DEF ClickLogout, Login
  <2>2. /\ NewCall(t, Logout, stored).at \in {"sent", "valid"}
        /\ NewCall(t, "login", None).at \in {"sent", "valid"}
    BY DEF NewCall
  <2> QED BY <2>1, <2>2, TabTable
<1>7. ASSUME NEW t \in Tabs, NEW p \in Pages, SendPage(t, p) \/ PageAnswered(t, p) PROVE TokenIsGone'
  BY <1>7, TabTable DEF SendPage, PageAnswered
<1>8. ASSUME NEW t \in Tabs, NEW p \in Pages, PageUnauthorized(t, p) PROVE TokenIsGone'
  <2>1. p \in Requests /\ (calls' = calls \/ (stored # None /\ Wait(t, p, calls)))
    BY <1>8 DEF PageUnauthorized, Requests
  <2> QED BY <1>1, <2>1, WaitTable, TabTable
<1> QED BY <1>2, <1>3, <1>4, <1>5, <1>6, <1>7, <1>8 DEF Hear

LEMMA TableInvariance == Spec /\ []OneRow => []TokenIsGone
<1>1. Init => TokenIsGone
  BY DEF Init, TokenIsGone
<1>2. IInv /\ TokenIsGone /\ OneRow /\ [Next]_vars => TokenIsGone'
  <2> SUFFICES ASSUME IInv, TokenIsGone, OneRow, [Next]_vars PROVE TokenIsGone'
    OBVIOUS
  <2>1. CASE \E i \in Calls : Serve(i)
    BY <2>1, ValidateTable, FindTable, InsertTable, UpdateTable, ReloadTable, DeleteTable DEF Serve
  <2>2. CASE UNCHANGED <<tokens, calls>>
    BY <2>2 DEF TokenIsGone
  <2>3. CASE /\ UNCHANGED tokens
             /\ \/ \E i \in Calls : Hear(i) \/ Break(i)
                \/ \E t \in Tabs :
                      \/ ClickLogout(t) \/ Login(t)
                      \/ \E p \in Pages : SendPage(t, p) \/ PageAnswered(t, p) \/ PageUnauthorized(t, p)
    BY <2>3, TabStepTable
  <2>4. /\ \A i \in Calls : Hear(i) \/ Break(i) => UNCHANGED tokens
        /\ \A t \in Tabs : ClickLogout(t) \/ Login(t) => UNCHANGED tokens
        /\ \A t \in Tabs, p \in Pages :
              SendPage(t, p) \/ PageAnswered(t, p) \/ PageUnauthorized(t, p) => UNCHANGED tokens
    BY DEF Hear, HearTokens, HearRefused, HearLogout, HearLogin, Break, ClickLogout, Login,
           SendPage, PageAnswered, PageUnauthorized
  <2> QED BY <2>1, <2>2, <2>3, <2>4 DEF Next, Expire, vars
<1> QED BY <1>1, <1>2, Invariance, PTL DEF Spec

\* As long as the user has one row in tokens, a refused refresh ends the session
\* only if the token of localStorage, which it was sent with, is one that the
\* server does not accept any more (apiClient, validate_token).
THEOREM RefusalIsFinal == Spec /\ []OneRow => []OwnTokenEndsDeadSession
<1>1. IInv /\ TokenIsGone => OwnTokenEndsDeadSession
  <2> SUFFICES ASSUME IInv, TokenIsGone, NEW i \in Calls, RefusedHere(i), stored # None,
                      \E r \in Ending(i) : reqs[calls[i].tab][r].token = calls[i].sent
               PROVE  ~Accepted(stored)
    BY DEF OwnTokenEndsDeadSession
  <2>1. stored = calls[i].sent
    BY DEF Ending
  <2>2. \A id \in RowIds : tokens[id] # stored
    BY <2>1 DEF RefusedHere, At, TokenIsGone
  <2> QED BY <2>2 DEF Accepted, Rows
<1> QED BY <1>1, Invariance, TableInvariance, PTL
=============================================================================
