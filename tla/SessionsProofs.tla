--------------------------- MODULE SessionsProofs ---------------------------
(***************************************************************************)
(* For any finite sets of goroutines and token pairs, any lifetimes and    *)
(* any bound of the clock: the types of module Sessions and each of its    *)
(* invariants.                                                             *)
(***************************************************************************)
EXTENDS Sessions, FiniteSetTheorems, TLAPS

-----------------------------------------------------------------------------
(* Rows and requests *)

LEMMA RowIsNoNoRow == \A r \in Row : r # NoRow
<1>1. SUFFICES ASSUME NEW r \in Row, r = NoRow PROVE FALSE
  OBVIOUS
<1>2. DOMAIN r = {"exp", "revoked", "parent", "login"}
  BY DEF Row
<1>3. DOMAIN NoRow = {"exp"}
  BY DEF NoRow
<1>4. QED
  BY <1>1, <1>2, <1>3

LEMMA IdleCall == Idle \in Calls /\ Idle.pc = "idle"
  BY DEF Calls, Idle

\* What a request's place in its handler says of the tokens in hand.
LEMMA CallData ==
  ASSUME TypeOK, NEW p \in Proc
  PROVE  /\ call[p].pc \in {"rotate", "reissue", "revoke"} =>
              call[p].with \in Pair /\ call[p].with \in Issued
         /\ call[p].pc \in {"measure", "blacklist"} =>
              call[p].jti \in Pair /\ call[p].with \in Pair
         /\ call[p].pc = "blacklist" => call[p].left \in Nat
         /\ call[p].pc = "lookup" => call[p].with \in Pair
  BY DEF TypeOK, Calls, Idle

\* A row that is there is a row.
LEMMA IssuedRow ==
  ASSUME TypeOK, NEW t \in Issued
  PROVE  t \in Pair /\ token[t] \in Row
  BY DEF TypeOK, Issued

CallsOK ==
  /\ call \in [Proc -> Calls]
  /\ \A p \in Proc : call[p].pc \in {"rotate", "reissue", "revoke"} => call[p].with \in Issued

LEMMA CallGoesOn ==
  ASSUME TypeOK, Issued \subseteq Issued', NEW p \in Proc, NEW c \in Calls, Goto(p, c),
         c.pc \in {"rotate", "reissue", "revoke"} => c.with \in Issued'
  PROVE  CallsOK'
  BY DEF TypeOK, CallsOK, Goto

LEMMA CallEnds ==
  ASSUME TypeOK, Issued \subseteq Issued', NEW p \in Proc, Goto(p, Idle)
  PROVE  CallsOK'
  BY CallGoesOn, IdleCall

\* The expiry of a refresh token that is issued now.
LEMMA ClockAndLives ==
  ASSUME TypeOK
  PROVE  now \in Nat /\ now > 0 /\ now + AccessTTL \in Nat /\ now + RefreshTTL \in Nat
  BY SessionsAssumption DEF TypeOK

\* What issuing a pair does to the rows ...
LEMMA IssueRow ==
  ASSUME TypeOK, NEW p \in Proc, NEW t \in Pair, NEW parent \in Pair, NEW login \in Pair,
         IssueTokenPair(p, t, parent, login)
  PROVE  /\ t \notin Issued /\ Issued' = Issued \cup {t}
         /\ token' \in [Pair -> Row \cup {NoRow}]
         /\ token'[t].parent = parent /\ token'[t].login = login /\ ~token'[t].revoked
         /\ \A u \in Issued : token'[u] = token[u]
         /\ expires' \in [Pair -> Nat]
         /\ \A u \in Issued : expires'[u] = expires[u]
         /\ CallsOK'
<1>1. /\ token' = [token EXCEPT ![t] = NewRow(parent, login)]
      /\ expires' = [expires EXCEPT ![t] = now + AccessTTL]
      /\ token[t] = NoRow /\ Goto(p, Idle)
  BY DEF IssueTokenPair, AccessExp
<1>2. NewRow(parent, login) \in Row
  BY ClockAndLives DEF NewRow, Row
<1>3. t \notin Issued /\ Issued' = Issued \cup {t}
  BY <1>1, <1>2, RowIsNoNoRow DEF Issued, TypeOK
<1>4. CallsOK'
  BY <1>1, <1>3, CallEnds
<1>5. QED
  BY <1>1, <1>2, <1>3, <1>4, ClockAndLives DEF TypeOK, NewRow, Issued

\* ... and revoking a token.
LEMMA RevokeRow ==
  ASSUME TypeOK, NEW t \in Issued, token' = Revoked(t)
  PROVE  /\ Issued' = Issued
         /\ token' \in [Pair -> Row \cup {NoRow}]
         /\ \A u \in Issued : /\ token'[u].parent = token[u].parent
                              /\ token'[u].login = token[u].login
                              /\ u # t => token'[u] = token[u]
         /\ token'[t].revoked
<1>1. t \in Pair /\ token[t] \in Row
  BY IssuedRow
<1>2. token' = [token EXCEPT ![t] = [token[t] EXCEPT !.revoked = TRUE]]
  BY DEF Revoked
<1>3. /\ [token[t] EXCEPT !.revoked = TRUE] \in Row
      /\ [token[t] EXCEPT !.revoked = TRUE].parent = token[t].parent
      /\ [token[t] EXCEPT !.revoked = TRUE].login = token[t].login
      /\ [token[t] EXCEPT !.revoked = TRUE].revoked
  BY <1>1 DEF Row
<1>4. Issued' = Issued
  BY <1>1, <1>2, <1>3, RowIsNoNoRow DEF Issued, TypeOK
<1>5. QED
  BY <1>1, <1>2, <1>3, <1>4 DEF TypeOK, Issued

LEMMA RowsStay ==
  ASSUME token' = token
  PROVE  Issued' = Issued
  BY DEF Issued

-----------------------------------------------------------------------------
(* Types *)

LEMMA InitTypeOK == Init => TypeOK
  BY SessionsAssumption, IdleCall DEF Init, TypeOK, Issued

\* The steps that write neither rows nor tokens.
LEMMA ReadingTypeOK ==
  ASSUME TypeOK, NEW p \in Proc,
         \/ Login(p)
         \/ \E t \in Pair : RefreshReads(p, t)
         \/ \E a, t \in Pair : Logout(p, a, t)
         \/ LogoutMeasures(p) \/ LogoutBlacklists(p) \/ LogoutReads(p)
         \/ BlacklistFails(p) \/ Abandon(p)
  PROVE  TypeOK'
<1>1. Issued' = Issued /\ now' = now /\ token' = token /\ expires' = expires /\ ended' = ended
  BY RowsStay DEF Login, RefreshReads, Logout, LogoutMeasures, LogoutBlacklists, LogoutReads,
                  BlacklistFails, Abandon
<1>2. ASSUME CallsOK', blacklist' \in [Pair -> Nat], signedOut' \subseteq Pair
      PROVE  TypeOK'
  BY <1>1, <1>2 DEF TypeOK, CallsOK
<1>3. CASE Login(p)
  <2>1. [pc |-> "login"] \in Calls
    BY DEF Calls
  <2>2. QED
    BY <1>1, <1>2, <1>3, <2>1, CallGoesOn DEF Login, TypeOK
<1>4. ASSUME NEW t \in Pair, RefreshReads(p, t)
      PROVE  TypeOK'
  <2>1. [pc |-> "rotate", with |-> t] \in Calls
    BY DEF Calls
  <2>2. QED
    BY <1>1, <1>2, <1>4, <2>1, CallGoesOn DEF RefreshReads, TypeOK
<1>5. ASSUME NEW a \in Pair, NEW t \in Pair, Logout(p, a, t)
      PROVE  TypeOK'
  <2>1. [pc |-> "measure", jti |-> a, with |-> t] \in Calls
    BY DEF Calls
  <2>2. QED
    BY <1>1, <1>2, <1>5, <2>1, CallGoesOn DEF Logout, TypeOK
<1>6. CASE LogoutMeasures(p)
  <2>1. call[p].jti \in Pair /\ call[p].with \in Pair
    BY <1>6, CallData DEF LogoutMeasures
  <2>2. expires[call[p].jti] \in Nat /\ now \in Nat
    BY <2>1, ClockAndLives DEF TypeOK
  <2>3. signedOut' \subseteq Pair /\ blacklist' = blacklist
    BY <1>6, <2>1 DEF LogoutMeasures, TypeOK
  <2>4. CASE Remaining(call[p].jti) > 0
    <3>1. Remaining(call[p].jti) \in Nat
      BY <2>2, <2>4 DEF Remaining
    <3>2. [pc |-> "blacklist", jti |-> call[p].jti, left |-> Remaining(call[p].jti),
           with |-> call[p].with] \in Calls
      BY <2>1, <3>1 DEF Calls
    <3>3. CallsOK'
      BY <1>1, <1>6, <2>4, <3>2, CallGoesOn DEF LogoutMeasures
    <3>4. QED
      BY <1>2, <2>3, <3>3 DEF TypeOK
  <2>5. CASE ~(Remaining(call[p].jti) > 0)
    <3>1. [pc |-> "lookup", with |-> call[p].with] \in Calls
      BY <2>1 DEF Calls
    <3>2. CallsOK'
      BY <1>1, <1>6, <2>5, <3>1, CallGoesOn DEF LogoutMeasures
    <3>3. QED
      BY <1>2, <2>3, <3>2 DEF TypeOK
  <2>6. QED
    BY <2>4, <2>5
<1>7. CASE LogoutBlacklists(p) \/ BlacklistFails(p)
  <2>1. call[p].jti \in Pair /\ call[p].with \in Pair /\ call[p].left \in Nat
    BY <1>7, CallData DEF LogoutBlacklists, BlacklistFails
  <2>2. now + call[p].left \in Nat
    BY <2>1, ClockAndLives
  <2>3. blacklist' \in [Pair -> Nat] /\ signedOut' \subseteq Pair
    BY <1>7, <2>1, <2>2 DEF LogoutBlacklists, BlacklistFails, TypeOK
  <2>4. [pc |-> "lookup", with |-> call[p].with] \in Calls
    BY <2>1 DEF Calls
  <2>5. CallsOK'
    BY <1>1, <1>7, <2>4, CallGoesOn DEF LogoutBlacklists, BlacklistFails
  <2>6. QED
    BY <1>2, <2>3, <2>5
<1>8. CASE LogoutReads(p)
  <2>1. call[p].with \in Pair
    BY <1>8, CallData DEF LogoutReads
  <2>2. [pc |-> "revoke", with |-> call[p].with] \in Calls
    BY <2>1 DEF Calls
  <2>3. CallsOK'
    BY <1>1, <1>8, <2>2, CallGoesOn, CallEnds DEF LogoutReads
  <2>4. QED
    BY <1>2, <1>8, <2>3 DEF LogoutReads, TypeOK
<1>9. CASE Abandon(p)
  BY <1>1, <1>2, <1>9, CallEnds DEF Abandon, TypeOK
<1>10. QED
  BY <1>3, <1>4, <1>5, <1>6, <1>7, <1>8, <1>9

\* The steps that insert or revoke a row.
LEMMA WritingTypeOK ==
  ASSUME TypeOK, NEW p \in Proc,
         \/ \E t \in Pair : LoginIssues(p, t) \/ RefreshIssues(p, t)
         \/ RefreshRevokes(p) \/ LogoutRevokes(p)
  PROVE  TypeOK'
<1>1. ASSUME NEW t \in Pair, LoginIssues(p, t)
      PROVE  TypeOK'
  BY <1>1, IssueRow DEF LoginIssues, TypeOK, CallsOK
<1>2. ASSUME NEW t \in Pair, RefreshIssues(p, t)
      PROVE  TypeOK'
  <2>1. call[p].with \in Pair /\ token[call[p].with] \in Row
    BY <1>2, CallData, IssuedRow DEF RefreshIssues
  <2>2. token[call[p].with].login \in Pair
    BY <2>1 DEF Row
  <2>3. QED
    BY <1>2, <2>1, <2>2, IssueRow DEF RefreshIssues, TypeOK, CallsOK
<1>3. CASE RefreshRevokes(p)
  <2>1. call[p].with \in Issued /\ call[p].with \in Pair
    BY <1>3, CallData DEF RefreshRevokes
  <2>2. [pc |-> "reissue", with |-> call[p].with] \in Calls
    BY <2>1 DEF Calls
  <2>3. Issued' = Issued /\ token' \in [Pair -> Row \cup {NoRow}]
    BY <1>3, <2>1, RevokeRow DEF RefreshRevokes
  <2>4. CallsOK'
    BY <1>3, <2>1, <2>2, <2>3, CallGoesOn DEF RefreshRevokes
  <2>5. QED
    BY <1>3, <2>3, <2>4 DEF RefreshRevokes, TypeOK, CallsOK
<1>4. CASE LogoutRevokes(p)
  <2>1. call[p].with \in Issued
    BY <1>4, CallData DEF LogoutRevokes
  <2>2. Issued' = Issued /\ token' \in [Pair -> Row \cup {NoRow}]
    BY <1>4, <2>1, RevokeRow DEF LogoutRevokes
  <2>3. CallsOK'
    BY <1>4, <2>2, CallEnds DEF LogoutRevokes
  <2>4. QED
    BY <1>4, <2>1, <2>2, <2>3 DEF LogoutRevokes, TypeOK, CallsOK
<1>5. QED
  BY <1>1, <1>2, <1>3, <1>4

LEMMA NextTypeOK ==
  ASSUME TypeOK, [Next]_vars
  PROVE  TypeOK'
<1>1. ASSUME NEW p \in Proc, Serve(p) \/ BlacklistFails(p) \/ Abandon(p)
      PROVE  TypeOK'
  BY <1>1, ReadingTypeOK, WritingTypeOK DEF Serve
<1>2. CASE Tick
  <2>1. now' \in 1..MaxTime
    BY <1>2, SessionsAssumption DEF Tick, TypeOK
  <2>2. UNCHANGED <<token, expires, blacklist, call, signedOut, ended>> /\ Issued' = Issued
    BY <1>2, RowsStay DEF Tick
  <2>3. QED
    BY <2>1, <2>2 DEF TypeOK
<1>3. CASE UNCHANGED vars
  BY <1>3, RowsStay DEF vars, TypeOK
<1>4. QED
  BY <1>1, <1>2, <1>3 DEF Next

\* Every variable of Sessions keeps its type, and a request that rotates or
\* revokes a token has found its row.
THEOREM TypeCorrect == Spec => []TypeOK
<1>1. QED
  BY InitTypeOK, NextTypeOK, PTL DEF Spec

-----------------------------------------------------------------------------
(* Access tokens that were signed out *)

\* A token that was not given out has no life, a Logout is about one that was,
\* and what it stores outlives the token: the clock only moves on between
\* measuring the rest of the life and storing it.
OutInv ==
  /\ TypeOK
  /\ \A a \in Pair \ Issued : expires[a] = 0
  /\ \A p \in Proc : call[p].pc \in {"measure", "blacklist"} => call[p].jti \in Issued
  /\ \A p \in Proc : call[p].pc = "blacklist" => expires[call[p].jti] <= now + call[p].left
  /\ \A a \in signedOut :
       a \in Issued /\ (expires[a] <= now \/ expires[a] <= blacklist[a])

LEMMA InitOut == Init => OutInv
  BY InitTypeOK, IdleCall DEF Init, OutInv

\* A request that goes on to c, when nothing that OutInv is about gets worse.
LEMMA OutGoesOn ==
  ASSUME OutInv, TypeOK', NEW p \in Proc, NEW c, Goto(p, c),
         now' = now, Issued \subseteq Issued',
         \A a \in Pair \ Issued' : expires'[a] = 0,
         \A a \in Issued : expires'[a] = expires[a],
         c.pc \in {"measure", "blacklist"} => c.jti \in Issued,
         c.pc = "blacklist" => expires[c.jti] <= now + c.left,
         \A a \in signedOut' :
           a \in Issued /\ (expires[a] <= now \/ expires[a] <= blacklist'[a])
  PROVE  OutInv'
<1>1. call' = [call EXCEPT ![p] = c] /\ call \in [Proc -> Calls]
  BY DEF Goto, OutInv, TypeOK
<1>2. ASSUME NEW q \in Proc
      PROVE  /\ call'[q].pc \in {"measure", "blacklist"} => call'[q].jti \in Issued
             /\ call'[q].pc = "blacklist" => expires[call'[q].jti] <= now + call'[q].left
  BY <1>1, <1>2 DEF OutInv
<1>3. QED
  BY <1>2 DEF OutInv

LEMMA NextOut ==
  ASSUME OutInv, [Next]_vars
  PROVE  OutInv'
<1>1. TypeOK /\ TypeOK' /\ now \in Nat
  BY NextTypeOK, ClockAndLives DEF OutInv
<1>2. ASSUME NEW p \in Proc, NEW c, Goto(p, c), c.pc \notin {"measure", "blacklist"},
             UNCHANGED <<now, expires, blacklist, signedOut>>, Issued' = Issued
      PROVE  OutInv'
  BY <1>1, <1>2, OutGoesOn DEF OutInv
<1>3. ASSUME NEW p \in Proc, NEW t \in Pair, LoginIssues(p, t) \/ RefreshIssues(p, t)
      PROVE  OutInv'
  <2>1. \E parent, login \in Pair : IssueTokenPair(p, t, parent, login)
    <3>1. CASE LoginIssues(p, t)
      BY <3>1 DEF LoginIssues
    <3>2. CASE RefreshIssues(p, t)
      <4>1. call[p].with \in Pair /\ token[call[p].with] \in Row
        BY <1>1, <3>2, CallData, IssuedRow DEF RefreshIssues
      <4>2. QED
        BY <3>2, <4>1 DEF RefreshIssues, Row
    <3>3. QED
      BY <1>3, <3>1, <3>2
  <2>2. Goto(p, Idle) /\ UNCHANGED <<now, blacklist, signedOut>>
    BY <1>3 DEF LoginIssues, RefreshIssues, IssueTokenPair
  <2>3. /\ Issued' = Issued \cup {t}
        /\ \A a \in Issued : expires'[a] = expires[a]
    BY <1>1, <2>1, IssueRow
  <2>4. \A a \in Pair \ {t} : expires'[a] = expires[a]
    BY <1>1, <2>1 DEF IssueTokenPair, TypeOK
  <2>5. QED
    BY <1>1, <2>2, <2>3, <2>4, IdleCall, OutGoesOn DEF OutInv
<1>4. ASSUME NEW p \in Proc, Serve(p) \/ BlacklistFails(p) \/ Abandon(p)
      PROVE  OutInv'
  <2>1. CASE Login(p) \/ Abandon(p) \/ BlacklistFails(p) \/ LogoutReads(p)
    <3>1. \E c : Goto(p, c) /\ c.pc \notin {"measure", "blacklist"}
      BY <2>1, IdleCall DEF Login, Abandon, BlacklistFails, LogoutReads
    <3>2. QED
      BY <1>2, <2>1, <3>1, RowsStay DEF Login, Abandon, BlacklistFails, LogoutReads
  <2>2. ASSUME NEW t \in Pair, RefreshReads(p, t)
        PROVE  OutInv'
    BY <1>2, <2>2, RowsStay DEF RefreshReads
  <2>3. CASE RefreshRevokes(p) \/ LogoutRevokes(p)
    <3>1. Issued' = Issued
      BY <1>1, <2>3, CallData, RevokeRow DEF RefreshRevokes, LogoutRevokes
    <3>2. QED
      BY <1>2, <2>3, <3>1, IdleCall DEF RefreshRevokes, LogoutRevokes
  <2>4. ASSUME NEW a \in Pair, NEW t \in Pair, Logout(p, a, t)
        PROVE  OutInv'
    <3>1. expires[a] # 0
      BY <1>1, <2>4 DEF Logout, Accepts, Parses, TypeOK
    <3>2. a \in Issued
      BY <3>1 DEF OutInv
    <3>3. QED
      BY <1>1, <2>4, <3>2, RowsStay, OutGoesOn DEF Logout, OutInv
  <2>5. CASE LogoutMeasures(p)
    <3>1. call[p].jti \in Issued /\ call[p].jti \in Pair
      BY <1>1, <2>5, CallData DEF OutInv, LogoutMeasures
    <3>2. expires[call[p].jti] \in Nat
      BY <1>1, <3>1 DEF TypeOK
    <3>3. UNCHANGED <<now, token, expires, blacklist>> /\ Issued' = Issued
      BY <2>5, RowsStay DEF LogoutMeasures
    <3>4. CASE Remaining(call[p].jti) > 0
      <4>1. signedOut' = signedOut
        BY <2>5, <3>4 DEF LogoutMeasures
      <4>2. expires[call[p].jti] <= now + Remaining(call[p].jti)
        BY <1>1, <3>2 DEF Remaining
      <4>3. Goto(p, [pc |-> "blacklist", jti |-> call[p].jti, left |-> Remaining(call[p].jti),
                     with |-> call[p].with])
        BY <2>5, <3>4 DEF LogoutMeasures
      <4>4. QED
        BY <1>1, <3>1, <3>3, <4>1, <4>2, <4>3, OutGoesOn DEF OutInv
    <3>5. CASE ~(Remaining(call[p].jti) > 0)
      <4>1. signedOut' = signedOut \cup {call[p].jti} /\ expires[call[p].jti] <= now
        BY <1>1, <2>5, <3>2, <3>5 DEF LogoutMeasures, Remaining
      <4>2. Goto(p, [pc |-> "lookup", with |-> call[p].with])
        BY <2>5, <3>5 DEF LogoutMeasures
      <4>3. QED
        BY <1>1, <3>1, <3>3, <4>1, <4>2, OutGoesOn DEF OutInv
    <3>6. QED
      BY <3>4, <3>5
  <2>6. CASE LogoutBlacklists(p)
    <3>1. /\ call[p].jti \in Issued /\ call[p].jti \in Pair
          /\ expires[call[p].jti] <= now + call[p].left
      BY <1>1, <2>6, CallData DEF OutInv, LogoutBlacklists
    <3>2. /\ blacklist' = [blacklist EXCEPT ![call[p].jti] = now + call[p].left]
          /\ signedOut' = signedOut \cup {call[p].jti}
          /\ Goto(p, [pc |-> "lookup", with |-> call[p].with])
          /\ UNCHANGED <<now, token, expires>> /\ Issued' = Issued
      BY <2>6, RowsStay DEF LogoutBlacklists
    <3>3. \A a \in signedOut' :
            a \in Issued /\ (expires[a] <= now \/ expires[a] <= blacklist'[a])
      BY <1>1, <3>1, <3>2 DEF OutInv, TypeOK
    <3>4. QED
      BY <1>1, <3>2, <3>3, OutGoesOn DEF OutInv
  <2>7. QED
    BY <1>3, <1>4, <2>1, <2>2, <2>3, <2>4, <2>5, <2>6 DEF Serve
<1>5. CASE Tick
  <2>1. now' = now + 1 /\ UNCHANGED <<token, expires, blacklist, call, signedOut>>
        /\ Issued' = Issued
    BY <1>5, RowsStay DEF Tick
  <2>2. \A a \in Pair : expires[a] <= now => expires[a] <= now'
    BY <1>1, <2>1 DEF TypeOK
  <2>3. ASSUME NEW p \in Proc, call[p].pc = "blacklist"
        PROVE  expires[call[p].jti] <= now' + call[p].left
    <3>1. call[p].left \in Nat /\ call[p].jti \in Pair /\ expires[call[p].jti] <= now + call[p].left
      BY <1>1, <2>3, CallData DEF OutInv
    <3>2. expires[call[p].jti] \in Nat
      BY <1>1, <3>1 DEF TypeOK
    <3>3. QED
      BY <1>1, <2>1, <3>1, <3>2
  <2>4. QED
    BY <1>1, <2>1, <2>2, <2>3 DEF OutInv, TypeOK
<1>6. CASE UNCHANGED vars
  BY <1>1, <1>6, RowsStay DEF vars, OutInv
<1>7. QED
  BY <1>4, <1>5, <1>6 DEF Next

\* An access token whose logout was recorded is not accepted again, however
\* long the request took between measuring and storing, and however many
\* requests signed it out.  (auth.Handler.Logout, Blacklist.Add.)
THEOREM SignedOutTokensStayOut == Spec => []SignedOutStaysOut
<1>1. OutInv => SignedOutStaysOut
  <2>1. SUFFICES ASSUME OutInv, NEW a \in signedOut, Parses(a)
                 PROVE  IsBlacklisted(a)
    BY DEF SignedOutStaysOut
  <2>2. a \in Pair /\ now \in Nat /\ expires[a] \in Nat /\ blacklist[a] \in Nat
    BY <2>1, ClockAndLives DEF OutInv, TypeOK
  <2>3. QED
    BY <2>1, <2>2 DEF OutInv, Parses, IsBlacklisted
<1>2. QED
  BY <1>1, InitOut, NextOut, PTL DEF Spec

-----------------------------------------------------------------------------
(* Descent of refresh tokens *)

\* Every token descends from the one it was exchanged for, of the same login.
Descent ==
  \A t \in Issued :
    /\ token[t].parent \in Issued /\ token[t].login \in Issued
    /\ token[token[t].parent].login = token[t].login

\* Tokens are issued for a token only after it was revoked.
ReissueRevoked ==
  \A p \in Proc : call[p].pc = "reissue" => token[call[p].with].revoked

\* A login none of whose tokens was exchanged twice is a chain: one token of it
\* was not exchanged yet.
OneLeaf ==
  \A l \in Issued :
    ExchangedOnce(l) =>
      \A s, t \in Chain(l) : Children(s) = {} /\ Children(t) = {} => s = t

\* A token that a Logout revoked is out of reach of any Refresh.
EndedForGood ==
  \A t \in ended : token[t].revoked /\ Children(t) = {} /\ Rotating(t) = {}

FamilyInv ==
  TypeOK /\ Descent /\ ReissueRevoked /\ ReplayOnlyByOverlap /\ OneLeaf /\ EndedForGood

LEMMA FiniteSets ==
  ASSUME TypeOK, NEW t
  PROVE  /\ Rotating(t) \subseteq Proc
         /\ IsFiniteSet(Children(t)) /\ Cardinality(Children(t)) \in Nat
         /\ IsFiniteSet(Rotating(t)) /\ Cardinality(Rotating(t)) \in Nat
         /\ Cardinality(Rotating(t)) <= Cardinality(Proc)
         /\ Cardinality(Proc) \in Nat
<1>1. Children(t) \subseteq Pair /\ Rotating(t) \subseteq Proc
  BY DEF Children, Issued, Rotating
<1>2. QED
  BY <1>1, SessionsAssumption, FS_Subset, FS_CardinalityType

LEMMA InitFamily == Init => FamilyInv
<1>1. SUFFICES ASSUME Init PROVE FamilyInv
  OBVIOUS
<1>2. Issued = {} /\ ended = {} /\ \A p \in Proc : call[p].pc = "idle"
  BY <1>1, IdleCall DEF Init, Issued
<1>3. QED
  BY <1>1, <1>2, InitTypeOK
  DEF FamilyInv, Descent, ReissueRevoked, ReplayOnlyByOverlap, OneLeaf, EndedForGood

\* As long as rows only get revoked, families stand.
LEMMA FamiliesStand ==
  ASSUME TypeOK, Issued' = Issued,
         \A u \in Issued : token'[u].parent = token[u].parent /\ token'[u].login = token[u].login
  PROVE  \A u \in Pair : /\ Children(u)' = Children(u) /\ Chain(u)' = Chain(u)
                         /\ ExchangedOnce(u)' <=> ExchangedOnce(u)
<1>1. \A u \in Pair : Children(u)' = Children(u) /\ Chain(u)' = Chain(u)
  BY DEF Children, Chain
<1>2. \A u \in Pair : Chain(u) \subseteq Pair
  BY DEF Chain, Issued
<1>3. QED
  BY <1>1, <1>2 DEF ExchangedOnce

\* A Login starts a family of its own.
LEMMA FamilyStarts ==
  ASSUME TypeOK, Descent, NEW p \in Proc, NEW t \in Pair, IssueTokenPair(p, t, t, t)
  PROVE  /\ \A u \in Issued : Children(u)' = Children(u) /\ Chain(u)' = Chain(u)
         /\ Children(t)' = {} /\ Chain(t)' = {t}
<1>1. /\ t \notin Issued /\ Issued' = Issued \cup {t}
      /\ token'[t].parent = t /\ token'[t].login = t
      /\ \A u \in Issued : token'[u] = token[u]
  BY IssueRow
<1>2. QED
  BY <1>1 DEF Descent, Children, Chain

\* A Refresh adds a child to the token it was called with.
LEMMA FamilyGrows ==
  ASSUME TypeOK, Descent, NEW p \in Proc, NEW c \in Pair, NEW t \in Issued,
         IssueTokenPair(p, c, t, token[t].login)
  PROVE  /\ \A u \in Issued : u # t => Children(u)' = Children(u)
         /\ Children(t)' = Children(t) \cup {c} /\ Children(c)' = {}
         /\ \A l \in Issued : Chain(l)' = IF l = token[t].login THEN Chain(l) \cup {c} ELSE Chain(l)
         /\ Chain(c)' = {}
<1>1. t \in Pair /\ token[t].login \in Pair /\ token[t].login \in Issued
  BY IssuedRow DEF Descent, Row
<1>2. /\ c \notin Issued /\ Issued' = Issued \cup {c}
      /\ token'[c].parent = t /\ token'[c].login = token[t].login
      /\ \A u \in Issued : token'[u] = token[u]
  BY <1>1, IssueRow
<1>3. QED
  BY <1>1, <1>2 DEF Descent, Children, Chain

-----------------------------------------------------------------------------
(* Requests that rotate a token *)

\* A Refresh that is new to a token finds it unrevoked, and changes no row.
LEMMA RotatingShrinks ==
  ASSUME TypeOK, [Next]_vars, NEW t \in Issued
  PROVE  \/ Rotating(t)' \subseteq Rotating(t)
         \/ ~token[t].revoked /\ token' = token /\ ended' = ended
<1>1. ASSUME NEW p \in Proc, NEW c, Goto(p, c),
             c.pc \in {"rotate", "reissue"} => /\ call[p].pc \in {"rotate", "reissue"}
                                               /\ c.with = call[p].with
      PROVE  Rotating(t)' \subseteq Rotating(t)
  <2>1. call' = [call EXCEPT ![p] = c] /\ call \in [Proc -> Calls]
    BY <1>1 DEF Goto, TypeOK
  <2>2. QED
    BY <1>1, <2>1 DEF Rotating
<1>2. ASSUME call' = call
      PROVE  Rotating(t)' \subseteq Rotating(t)
  BY <1>2 DEF Rotating
<1>3. ASSUME NEW p \in Proc, NEW u \in Pair, RefreshReads(p, u)
      PROVE  \/ Rotating(t)' \subseteq Rotating(t)
             \/ ~token[t].revoked /\ token' = token /\ ended' = ended
  <2>1. CASE u = t
    BY <1>3, <2>1 DEF RefreshReads, Usable
  <2>2. CASE u # t
    <3>1. call' = [call EXCEPT ![p] = [pc |-> "rotate", with |-> u]] /\ call \in [Proc -> Calls]
      BY <1>3 DEF RefreshReads, Goto, TypeOK
    <3>2. QED
      BY <2>2, <3>1 DEF Rotating
  <2>3. QED
    BY <2>1, <2>2
<1>4. ASSUME NEW p \in Proc, Serve(p) \/ BlacklistFails(p) \/ Abandon(p),
             \A u \in Pair : ~RefreshReads(p, u)
      PROVE  Rotating(t)' \subseteq Rotating(t)
  <2>1. CASE Login(p) \/ \E a, u \in Pair : Logout(p, a, u)
    BY <1>1, <2>1 DEF Login, Logout
  <2>2. CASE LogoutMeasures(p)
    <3>1. \E c : Goto(p, c) /\ c.pc \notin {"rotate", "reissue"}
      BY <2>2 DEF LogoutMeasures
    <3>2. QED
      BY <1>1, <3>1
  <2>3. CASE LogoutBlacklists(p) \/ BlacklistFails(p)
    BY <1>1, <2>3 DEF LogoutBlacklists, BlacklistFails
  <2>4. CASE LogoutReads(p)
    <3>1. \E c : Goto(p, c) /\ c.pc \notin {"rotate", "reissue"}
      BY <2>4, IdleCall DEF LogoutReads
    <3>2. QED
      BY <1>1, <3>1
  <2>5. CASE LogoutRevokes(p) \/ Abandon(p)
    BY <1>1, <2>5, IdleCall DEF LogoutRevokes, Abandon
  <2>6. CASE RefreshRevokes(p)
    BY <1>1, <2>6 DEF RefreshRevokes
  <2>7. CASE \E u \in Pair : LoginIssues(p, u) \/ RefreshIssues(p, u)
    BY <1>1, <2>7, IdleCall DEF LoginIssues, RefreshIssues, IssueTokenPair
  <2>8. QED
    BY <1>4, <2>1, <2>2, <2>3, <2>4, <2>5, <2>6, <2>7 DEF Serve
<1>5. QED
  BY <1>2, <1>3, <1>4 DEF Next, Tick, vars

-----------------------------------------------------------------------------
(* Families, step by step *)

\* Those who rotate a token after a step are goroutines, at most as many as
\* before unless the token had no children.
LEMMA FewerRotate ==
  ASSUME TypeOK, NEW t \in Issued, Rotating(t)' \subseteq Rotating(t)
  PROVE  Cardinality(Rotating(t)') \in Nat
         /\ Cardinality(Rotating(t)') <= Cardinality(Rotating(t))
  BY FiniteSets, FS_Subset, FS_CardinalityType

LEMMA AllMayRotate ==
  ASSUME NEW t
  PROVE  Cardinality(Rotating(t)') \in Nat
         /\ Cardinality(Rotating(t)') <= Cardinality(Proc)
<1>1. Rotating(t)' \subseteq Proc
  BY DEF Rotating
<1>2. QED
  BY <1>1, SessionsAssumption, FS_Subset, FS_CardinalityType

\* Steps that insert no row.
LEMMA StandingFamilies ==
  ASSUME FamilyInv, TypeOK', [Next]_vars, Issued' = Issued,
         \A u \in Issued : /\ token'[u].parent = token[u].parent
                           /\ token'[u].login = token[u].login
                           /\ token[u].revoked => token'[u].revoked,
         ReissueRevoked',
         \A t \in ended' \ ended :
           token'[t].revoked /\ Children(t) = {} /\ Rotating(t)' = {}
  PROVE  FamilyInv'
<1>1. TypeOK /\ ended \subseteq Issued /\ ended' \subseteq Issued /\ Issued \subseteq Pair
  BY DEF FamilyInv, TypeOK, Issued
<1>2. \A u \in Pair : /\ Children(u)' = Children(u) /\ Chain(u)' = Chain(u)
                      /\ ExchangedOnce(u)' <=> ExchangedOnce(u)
  BY <1>1, FamiliesStand
<1>3. Descent'
  BY DEF FamilyInv, Descent
<1>4. ReplayOnlyByOverlap'
  <2>1. SUFFICES ASSUME NEW t \in Issued
                 PROVE  /\ ~token'[t].revoked => Children(t) = {}
                        /\ Cardinality(Children(t)) + Cardinality(Rotating(t)')
                             <= Cardinality(Proc)
    BY <1>1, <1>2 DEF ReplayOnlyByOverlap
  <2>2. /\ ~token[t].revoked => Children(t) = {}
        /\ Cardinality(Children(t)) + Cardinality(Rotating(t)) <= Cardinality(Proc)
    BY DEF FamilyInv, ReplayOnlyByOverlap
  <2>3. CASE Rotating(t)' \subseteq Rotating(t)
    BY <1>1, <2>2, <2>3, FewerRotate, FiniteSets
  <2>4. CASE ~token[t].revoked
    <3>1. Cardinality(Children(t)) = 0
      BY <2>2, <2>4, FS_EmptySet
    <3>2. QED
      BY <1>1, <2>2, <2>4, <3>1, AllMayRotate, SessionsAssumption, FS_CardinalityType
  <2>5. QED
    BY <1>1, <2>3, <2>4, RotatingShrinks
<1>5. OneLeaf'
  <2>1. SUFFICES ASSUME NEW l \in Issued, ExchangedOnce(l),
                        NEW x \in Chain(l), NEW y \in Chain(l), Children(x) = {}, Children(y) = {}
                 PROVE  x = y
    BY <1>1, <1>2 DEF OneLeaf, Chain
  <2>2. QED
    BY <2>1 DEF FamilyInv, OneLeaf
<1>6. EndedForGood'
  <2>1. SUFFICES ASSUME NEW t \in ended'
                 PROVE  token'[t].revoked /\ Children(t) = {} /\ Rotating(t)' = {}
    BY <1>1, <1>2 DEF EndedForGood
  <2>2. CASE t \in ended
    <3>1. token[t].revoked /\ Children(t) = {} /\ Rotating(t) = {} /\ t \in Issued
      BY <1>1, <2>2 DEF FamilyInv, EndedForGood
    <3>2. QED
      BY <1>1, <3>1, RotatingShrinks
  <2>3. QED
    BY <2>2
<1>7. QED
  BY <1>3, <1>4, <1>5, <1>6 DEF FamilyInv

\* A login that is new, and its only token.
LEMMA LoginFamily ==
  ASSUME FamilyInv, TypeOK', NEW p \in Proc, NEW t \in Pair, LoginIssues(p, t)
  PROVE  FamilyInv'
<1>1. TypeOK /\ Descent /\ IssueTokenPair(p, t, t, t) /\ ended' = ended /\ ended \subseteq Issued
  BY DEF FamilyInv, LoginIssues, TypeOK
<1>2. /\ t \notin Issued /\ Issued' = Issued \cup {t} /\ Issued \subseteq Pair
      /\ token'[t].parent = t /\ token'[t].login = t /\ ~token'[t].revoked
      /\ \A u \in Issued : token'[u] = token[u]
  BY <1>1, IssueRow DEF Issued
<1>3. /\ \A u \in Issued : Children(u)' = Children(u) /\ Chain(u)' = Chain(u)
      /\ Children(t)' = {} /\ Chain(t)' = {t}
  BY <1>1, FamilyStarts
<1>4. call' = [call EXCEPT ![p] = Idle] /\ call \in [Proc -> Calls] /\ Idle.pc = "idle"
  BY <1>1, IdleCall DEF IssueTokenPair, Goto, TypeOK
<1>5. \A u : Rotating(u)' \subseteq Rotating(u)
  BY <1>4 DEF Rotating
<1>6. Descent'
  BY <1>1, <1>2 DEF Descent
<1>7. ReissueRevoked'
  <2>1. SUFFICES ASSUME NEW q \in Proc, call'[q].pc = "reissue"
                 PROVE  token'[call'[q].with].revoked
    BY DEF ReissueRevoked
  <2>2. call'[q] = call[q] /\ call[q].with \in Issued
    BY <1>1, <1>4, <2>1, CallData
  <2>3. QED
    BY <1>2, <2>1, <2>2 DEF FamilyInv, ReissueRevoked
<1>8. ReplayOnlyByOverlap'
  <2>1. Cardinality(Children(t)') = 0
    BY <1>3, FS_EmptySet
  <2>2. Cardinality(Children(t)') + Cardinality(Rotating(t)') <= Cardinality(Proc)
    BY <2>1, AllMayRotate, SessionsAssumption, FS_CardinalityType
  <2>3. ASSUME NEW u \in Issued
        PROVE  Cardinality(Children(u)) + Cardinality(Rotating(u)') <= Cardinality(Proc)
    <3>1. Cardinality(Children(u)) + Cardinality(Rotating(u)) <= Cardinality(Proc)
      BY DEF FamilyInv, ReplayOnlyByOverlap
    <3>2. QED
      BY <1>1, <1>5, <3>1, FewerRotate, FiniteSets
  <2>4. \A u \in Issued : ~token'[u].revoked => Children(u)' = {}
    BY <1>2, <1>3 DEF FamilyInv, ReplayOnlyByOverlap
  <2>5. \A u \in Issued : Cardinality(Children(u)') + Cardinality(Rotating(u)') <= Cardinality(Proc)
    BY <1>3, <2>3
  <2>6. QED
    BY <1>2, <1>3, <2>2, <2>4, <2>5 DEF ReplayOnlyByOverlap
<1>9. OneLeaf'
  <2>1. ASSUME NEW l \in Issued, ExchangedOnce(l)',
               NEW x \in Chain(l)', NEW y \in Chain(l)', Children(x)' = {}, Children(y)' = {}
        PROVE  x = y
    <3>1. Chain(l)' = Chain(l) /\ Chain(l) \subseteq Issued
      BY <1>3 DEF Chain
    <3>2. ExchangedOnce(l)
      BY <1>3, <2>1, <3>1 DEF ExchangedOnce
    <3>3. QED
      BY <1>3, <2>1, <3>1, <3>2 DEF FamilyInv, OneLeaf
  <2>2. QED
    BY <1>2, <1>3, <2>1 DEF OneLeaf
<1>10. EndedForGood'
  BY <1>1, <1>2, <1>3, <1>5 DEF FamilyInv, EndedForGood
<1>11. QED
  BY <1>6, <1>7, <1>8, <1>9, <1>10 DEF FamilyInv

\* A Refresh that answers: the request leaves Rotating(t) as its child comes in.
LEMMA RefreshFamily ==
  ASSUME FamilyInv, TypeOK', NEW p \in Proc, NEW c \in Pair, RefreshIssues(p, c),
         NEW t, t = call[p].with
  PROVE  FamilyInv'
<1>1. /\ TypeOK /\ Descent /\ ended' = ended /\ ended \subseteq Issued
      /\ call[p].pc = "reissue" /\ t \in Issued /\ t \in Pair
      /\ IssueTokenPair(p, c, t, token[t].login)
  BY CallData DEF FamilyInv, RefreshIssues, TypeOK
<1>2. token[t].login \in Pair /\ token[t].login \in Issued /\ token[t].revoked
  BY <1>1, IssuedRow DEF FamilyInv, Descent, ReissueRevoked, Row
<1>3. /\ c \notin Issued /\ Issued' = Issued \cup {c} /\ Issued \subseteq Pair
      /\ token'[c].parent = t /\ token'[c].login = token[t].login /\ ~token'[c].revoked
      /\ \A u \in Issued : token'[u] = token[u]
  BY <1>1, <1>2, IssueRow DEF Issued
<1>4. /\ \A u \in Issued : u # t => Children(u)' = Children(u)
      /\ Children(t)' = Children(t) \cup {c} /\ Children(c)' = {}
      /\ \A l \in Issued :
           Chain(l)' = IF l = token[t].login THEN Chain(l) \cup {c} ELSE Chain(l)
      /\ Chain(c)' = {}
  BY <1>1, FamilyGrows
<1>5. call' = [call EXCEPT ![p] = Idle] /\ call \in [Proc -> Calls] /\ Idle.pc = "idle"
  BY <1>1, IdleCall DEF IssueTokenPair, Goto, TypeOK
<1>6. /\ \A u : Rotating(u)' \subseteq Rotating(u)
      /\ p \in Rotating(t) /\ Rotating(t)' = Rotating(t) \ {p}
  BY <1>1, <1>5 DEF Rotating
<1>7. c \notin Children(t) /\ Children(t) \subseteq Issued
  BY <1>3 DEF Children
<1>8. Descent'
  BY <1>1, <1>2, <1>3 DEF Descent
<1>9. ReissueRevoked'
  <2>1. SUFFICES ASSUME NEW q \in Proc, call'[q].pc = "reissue"
                 PROVE  token'[call'[q].with].revoked
    BY DEF ReissueRevoked
  <2>2. call'[q] = call[q] /\ call[q].with \in Issued
    BY <1>1, <1>5, <2>1, CallData
  <2>3. QED
    BY <1>3, <2>1, <2>2 DEF FamilyInv, ReissueRevoked
<1>10. ReplayOnlyByOverlap'
  <2>1. Cardinality(Children(c)') + Cardinality(Rotating(c)') <= Cardinality(Proc)
    <3>1. Cardinality(Children(c)') = 0
      BY <1>4, FS_EmptySet
    <3>2. QED
      BY <3>1, AllMayRotate, SessionsAssumption, FS_CardinalityType
  <2>2. Cardinality(Children(t)') + Cardinality(Rotating(t)') <= Cardinality(Proc)
    <3>1. Cardinality(Children(t)') = Cardinality(Children(t)) + 1
      BY <1>1, <1>4, <1>7, FiniteSets, FS_AddElement
    <3>2. Cardinality(Rotating(t)') = Cardinality(Rotating(t)) - 1
      <4>1. IsFiniteSet(Rotating(t))
        BY <1>1, FiniteSets
      <4>2. Cardinality(Rotating(t) \ {p}) = Cardinality(Rotating(t)) - 1
        BY <1>6, <4>1, FS_RemoveElement, ZenonT(30)
      <4>3. QED
        BY <1>6, <4>2
    <3>3. Cardinality(Children(t)) + Cardinality(Rotating(t)) <= Cardinality(Proc)
      BY <1>1 DEF FamilyInv, ReplayOnlyByOverlap
    <3>4. QED
      BY <1>1, <3>1, <3>2, <3>3, FiniteSets
  <2>3. ASSUME NEW u \in Issued, u # t
        PROVE  Cardinality(Children(u)') + Cardinality(Rotating(u)') <= Cardinality(Proc)
    <3>1. Cardinality(Children(u)) + Cardinality(Rotating(u)) <= Cardinality(Proc)
      BY DEF FamilyInv, ReplayOnlyByOverlap
    <3>2. Cardinality(Children(u)) + Cardinality(Rotating(u)') <= Cardinality(Proc)
      BY <1>1, <1>6, <3>1, FewerRotate, FiniteSets
    <3>3. QED
      BY <1>4, <2>3, <3>2
  <2>4. \A u \in Issued : ~token'[u].revoked => Children(u)' = {}
    BY <1>2, <1>3, <1>4 DEF FamilyInv, ReplayOnlyByOverlap
  <2>5. QED
    BY <1>3, <1>4, <2>1, <2>2, <2>3, <2>4 DEF ReplayOnlyByOverlap
<1>11. OneLeaf'
  <2>1. ASSUME NEW l \in Issued, ExchangedOnce(l)',
               NEW x \in Chain(l)', NEW y \in Chain(l)', Children(x)' = {}, Children(y)' = {}
        PROVE  x = y
    <3>1. Chain(l) \subseteq Chain(l)' /\ Chain(l) \subseteq Issued
      BY <1>4 DEF Chain
    <3>2. CASE l # token[t].login
      <4>1. Chain(l)' = Chain(l) /\ t \notin Chain(l)
        BY <1>4, <3>2 DEF Chain
      <4>2. ExchangedOnce(l)
        BY <1>4, <2>1, <3>1, <4>1 DEF ExchangedOnce
      <4>3. QED
        BY <1>4, <2>1, <3>1, <4>1, <4>2 DEF FamilyInv, OneLeaf
    <3>3. CASE l = token[t].login
      <4>1. Chain(l)' = Chain(l) \cup {c} /\ t \in Chain(l)
        BY <1>1, <1>4, <3>3 DEF Chain
      <4>2. Cardinality(Children(t)') <= 1
        BY <2>1, <3>1, <4>1 DEF ExchangedOnce
      <4>3. Cardinality(Children(t)') = Cardinality(Children(t)) + 1
        BY <1>1, <1>4, <1>7, FiniteSets, FS_AddElement
      <4>4. Cardinality(Children(t)) = 0 /\ Children(t) = {}
        BY <1>1, <4>2, <4>3, FiniteSets, FS_EmptySet
      <4>5. ExchangedOnce(l)
        <5>1. ASSUME NEW u \in Chain(l)
              PROVE  Cardinality(Children(u)) <= 1
          <6>1. CASE u = t
            BY <4>4, <6>1
          <6>2. CASE u # t
            BY <1>4, <2>1, <3>1, <6>2 DEF ExchangedOnce
          <6>3. QED
            BY <6>1, <6>2
        <5>2. QED
          BY <5>1 DEF ExchangedOnce
      <4>6. \A u \in Chain(l) : Children(u) = {} => u = t
        BY <4>1, <4>4, <4>5 DEF FamilyInv, OneLeaf
      <4>7. \A u \in Chain(l) : Children(u)' # {}
        BY <1>4, <3>1, <4>6
      <4>8. QED
        BY <2>1, <4>1, <4>7
    <3>4. QED
      BY <3>2, <3>3
  <2>2. QED
    BY <1>3, <1>4, <2>1 DEF OneLeaf
<1>12. EndedForGood'
  <2>1. t \notin ended
    BY <1>6 DEF FamilyInv, EndedForGood
  <2>2. QED
    BY <1>1, <1>3, <1>4, <1>6, <2>1 DEF FamilyInv, EndedForGood
<1>13. QED
  BY <1>8, <1>9, <1>10, <1>11, <1>12 DEF FamilyInv

LEMMA NextFamily ==
  ASSUME FamilyInv, [Next]_vars
  PROVE  FamilyInv'
<1>1. TypeOK /\ TypeOK' /\ Issued \subseteq Pair
  BY NextTypeOK DEF FamilyInv, Issued
<1>2. ASSUME NEW p \in Proc, NEW c, Goto(p, c), c.pc # "reissue", Issued' = Issued,
             \A u \in Issued : token[u].revoked => token'[u].revoked
      PROVE  ReissueRevoked'
  <2>1. SUFFICES ASSUME NEW q \in Proc, call'[q].pc = "reissue"
                 PROVE  token'[call'[q].with].revoked
    BY DEF ReissueRevoked
  <2>2. call'[q] = call[q] /\ call[q].with \in Issued
    BY <1>1, <1>2, <2>1, CallData DEF Goto, TypeOK
  <2>3. QED
    BY <1>2, <2>1, <2>2 DEF FamilyInv, ReissueRevoked
<1>3. ASSUME NEW p \in Proc, NEW c, Goto(p, c), c.pc # "reissue", UNCHANGED <<token, ended>>
      PROVE  FamilyInv'
  BY <1>1, <1>2, <1>3, RowsStay, StandingFamilies
<1>4. ASSUME NEW p \in Proc, RefreshRevokes(p)
      PROVE  FamilyInv'
  <2>1. call[p].with \in Issued /\ token' = Revoked(call[p].with) /\ ended' = ended
    BY <1>1, <1>4, CallData DEF RefreshRevokes
  <2>2. /\ Issued' = Issued /\ token'[call[p].with].revoked
        /\ \A u \in Issued : /\ token'[u].parent = token[u].parent
                             /\ token'[u].login = token[u].login
                             /\ token[u].revoked => token'[u].revoked
    BY <1>1, <2>1, RevokeRow
  <2>3. ReissueRevoked'
    <3>1. SUFFICES ASSUME NEW q \in Proc, call'[q].pc = "reissue"
                   PROVE  token'[call'[q].with].revoked
      BY DEF ReissueRevoked
    <3>2. call' = [call EXCEPT ![p] = [pc |-> "reissue", with |-> call[p].with]]
          /\ call \in [Proc -> Calls]
      BY <1>1, <1>4 DEF RefreshRevokes, Goto, TypeOK
    <3>3. CASE q = p
      BY <2>2, <3>2, <3>3
    <3>4. CASE q # p
      <4>1. call'[q] = call[q] /\ call[q].with \in Issued
        BY <1>1, <3>1, <3>2, <3>4, CallData
      <4>2. QED
        BY <2>2, <3>1, <4>1 DEF FamilyInv, ReissueRevoked
    <3>5. QED
      BY <3>3, <3>4
  <2>4. QED
    BY <1>1, <2>1, <2>2, <2>3, StandingFamilies
<1>5. ASSUME NEW p \in Proc, LogoutRevokes(p), NEW t, t = call[p].with
      PROVE  FamilyInv'
  <2>1. /\ t \in Issued /\ token' = Revoked(t) /\ Goto(p, Idle)
        /\ \/ ended' = ended
           \/ ended' = ended \cup {t} /\ ~token[t].revoked /\ Rotating(t) = {}
    BY <1>1, <1>5, CallData DEF LogoutRevokes
  <2>2. /\ Issued' = Issued /\ token'[t].revoked
        /\ \A u \in Issued : /\ token'[u].parent = token[u].parent
                             /\ token'[u].login = token[u].login
                             /\ token[u].revoked => token'[u].revoked
    BY <1>1, <2>1, RevokeRow
  <2>3. ReissueRevoked'
    BY <1>2, <2>1, <2>2, IdleCall
  <2>4. Rotating(t)' \subseteq Rotating(t)
    BY <1>1, <2>1, IdleCall DEF Goto, Rotating, TypeOK
  <2>5. \A u \in ended' \ ended : token'[u].revoked /\ Children(u) = {} /\ Rotating(u)' = {}
    BY <2>1, <2>2, <2>4 DEF FamilyInv, ReplayOnlyByOverlap
  <2>6. QED
    BY <1>1, <2>2, <2>3, <2>5, StandingFamilies
<1>6. ASSUME NEW p \in Proc, Serve(p) \/ BlacklistFails(p) \/ Abandon(p)
      PROVE  FamilyInv'
  <2>1. CASE Login(p) \/ \E t \in Pair : RefreshReads(p, t) \/ \E a \in Pair : Logout(p, a, t)
    BY <1>3, <2>1 DEF Login, RefreshReads, Logout
  <2>2. CASE LogoutMeasures(p) \/ LogoutBlacklists(p) \/ LogoutReads(p)
             \/ BlacklistFails(p) \/ Abandon(p)
    <3>1. \E c : Goto(p, c) /\ c.pc # "reissue"
      BY <2>2, IdleCall
      DEF LogoutMeasures, LogoutBlacklists, LogoutReads, BlacklistFails, Abandon
    <3>2. UNCHANGED <<token, ended>>
      BY <2>2 DEF LogoutMeasures, LogoutBlacklists, LogoutReads, BlacklistFails, Abandon
    <3>3. QED
      BY <1>3, <3>1, <3>2
  <2>3. QED
    BY <1>1, <1>4, <1>5, <1>6, <2>1, <2>2, LoginFamily, RefreshFamily DEF Serve
<1>7. CASE Tick \/ UNCHANGED vars
  <2>1. token' = token /\ call' = call /\ ended' = ended /\ Issued' = Issued
    BY <1>7, RowsStay DEF Tick, vars
  <2>2. ReissueRevoked'
    BY <2>1 DEF FamilyInv, ReissueRevoked
  <2>3. QED
    BY <1>1, <2>1, <2>2, StandingFamilies
<1>8. QED
  BY <1>6, <1>7 DEF Next

LEMMA FamilyInvariant == Spec => []FamilyInv
  BY InitFamily, NextFamily, PTL DEF Spec

\* A token is exchanged only after it was revoked, and then at most once for
\* every request that had read its row before.  (Service.Refresh.)
THEOREM ReplaysOverlap == Spec => []ReplayOnlyByOverlap
<1>1. FamilyInv => ReplayOnlyByOverlap
  BY DEF FamilyInv
<1>2. QED
  BY <1>1, FamilyInvariant, PTL

\* Unless a token of it was exchanged twice, a login has one live refresh token
\* at most: the one that was not exchanged yet.  (Service.Refresh.)
THEOREM OneLiveToken == Spec => []OneLivePerLogin
<1>1. FamilyInv => OneLivePerLogin
  <2>1. SUFFICES ASSUME FamilyInv, NEW l \in Issued, ExchangedOnce(l)
                 PROVE  Cardinality({t \in Chain(l) : ~token[t].revoked}) <= 1
    BY DEF OneLivePerLogin
  <2> DEFINE Live == {t \in Chain(l) : ~token[t].revoked}
  <2>2. Live \subseteq Pair
    BY DEF Chain, Issued
  <2>3. IsFiniteSet(Live)
    BY <2>2, SessionsAssumption, FS_Subset
  <2>4. \A s, t \in Live : s = t
    <3>1. \A t \in Live : Children(t) = {}
      BY <2>1 DEF FamilyInv, ReplayOnlyByOverlap, Chain
    <3>2. QED
      BY <2>1, <3>1 DEF FamilyInv, OneLeaf
  <2>5. CASE Live = {}
    BY <2>5, FS_EmptySet
  <2>6. CASE Live # {}
    <3>1. PICK t : Live = {t}
      BY <2>4, <2>6
    <3>2. Cardinality(Live) = 1
      BY <3>1, FS_Singleton
    <3>3. QED
      BY <3>2
  <2>7. QED
    BY <2>5, <2>6
<1>2. QED
  BY <1>1, FamilyInvariant, PTL

\* A Logout that revoked the live token of a login, with no Refresh of it under
\* way, has ended the login.  (Service.Logout.)
THEOREM LogoutEndsTheLogin == Spec => []LogoutEndsLogin
<1>1. FamilyInv => LogoutEndsLogin
  <2>1. SUFFICES ASSUME FamilyInv, NEW t \in ended
                 PROVE  /\ Children(t) = {}
                        /\ ExchangedOnce(token[t].login) =>
                             \A d \in Chain(token[t].login) : token[d].revoked
    BY DEF LogoutEndsLogin
  <2>2. token[t].revoked /\ Children(t) = {} /\ t \in Issued
    BY <2>1 DEF FamilyInv, EndedForGood, TypeOK
  <2>3. token[t].login \in Issued /\ t \in Chain(token[t].login)
    BY <2>1, <2>2 DEF FamilyInv, Descent, Chain
  <2>4. ASSUME ExchangedOnce(token[t].login), NEW d \in Chain(token[t].login), ~token[d].revoked
        PROVE  FALSE
    <3>1. Children(d) = {}
      BY <2>1, <2>4 DEF FamilyInv, ReplayOnlyByOverlap, Chain
    <3>2. d = t
      BY <2>1, <2>2, <2>3, <2>4, <3>1 DEF FamilyInv, OneLeaf
    <3>3. QED
      BY <2>2, <2>4, <3>2
  <2>5. QED
    BY <2>2, <2>4
<1>2. QED
  BY <1>1, FamilyInvariant, PTL
=============================================================================
