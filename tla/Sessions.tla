------------------------------ MODULE Sessions ------------------------------
(***************************************************************************)
(* Login, refresh and logout of internal/auth/service.go, the rows of      *)
(* refresh_tokens, the access tokens and their blacklist in Redis, and     *)
(* middleware.JWTAuth.                                                     *)
(*                                                                         *)
(* Tokens are given out in pairs, once (the random bytes and the jti never *)
(* repeat): element i of Pair stands for its access token and for its      *)
(* refresh token.  Each element of Proc is a goroutine serving a request,  *)
(* cut at every statement and every Redis command.  Clients may use any    *)
(* tokens given out, of different pairs too, in several requests at once.  *)
(* Time is a counter.                                                      *)
(***************************************************************************)
EXTENDS Integers, FiniteSets

CONSTANTS
  Proc,         \* goroutines serving requests
  Pair,         \* token pairs
  AccessTTL, RefreshTTL,
  MaxTime,      \* bound on the clock
  Faults        \* TRUE: Redis calls may fail and requests be cut short

ASSUME SessionsAssumption ==
  /\ IsFiniteSet(Proc) /\ IsFiniteSet(Pair)
  /\ AccessTTL \in Nat \ {0} /\ RefreshTTL \in Nat \ {0}
  /\ MaxTime \in Nat \ {0}
  /\ Faults \in BOOLEAN

VARIABLES
  now,         \* the clock
  token,       \* token[t]: the row of refresh token t, or NoRow
  expires,     \* expires[a]: exp of access token a, 0 if not given out
  blacklist,   \* blacklist[a]: when blacklist:{a} expires, 0 if no such key
  call,        \* call[p]: where the request that p is serving has got to
  signedOut,   \* history: access tokens of which a logout was recorded
  ended        \* history: live refresh tokens revoked by a Logout alone

vars == <<now, token, expires, blacklist, call, signedOut, ended>>

\* parent is the token presented to the Refresh that created the row, itself
\* for a Login, and login is the token of the Login it descends from; neither
\* is stored.
Row == [exp : Nat, revoked : BOOLEAN, parent : Pair, login : Pair]
NoRow == [exp |-> 0]

Issued == {t \in Pair : token[t] # NoRow}

Idle == [pc |-> "idle"]

Calls ==
  {Idle}
    \cup [pc : {"login"}]                        \* credentials are right
    \cup [pc : {"rotate", "reissue"}, with : Pair]
    \cup [pc : {"measure"}, jti : Pair, with : Pair]
    \cup [pc : {"blacklist"}, jti : Pair, left : Nat, with : Pair]
    \cup [pc : {"lookup", "revoke"}, with : Pair]

TypeOK ==
  /\ now \in 1..MaxTime
  /\ token \in [Pair -> Row \cup {NoRow}]
  /\ expires \in [Pair -> Nat]
  /\ blacklist \in [Pair -> Nat]
  /\ call \in [Proc -> Calls]
  /\ \A p \in Proc : call[p].pc \in {"rotate", "reissue", "revoke"} =>
       call[p].with \in Issued
  /\ signedOut \subseteq Pair /\ ended \subseteq Issued

Init ==
  /\ now = 1
  /\ token = [t \in Pair |-> NoRow]
  /\ expires = [a \in Pair |-> 0]
  /\ blacklist = [a \in Pair |-> 0]
  /\ call = [p \in Proc |-> Idle]
  /\ signedOut = {} /\ ended = {}

Goto(p, c) == call' = [call EXCEPT ![p] = c]

-----------------------------------------------------------------------------
(* issueTokenPair *)

\* GenerateAccessToken, of which only the exp matters here, and
\* RefreshTokenRepository.Create.
AccessExp == now + AccessTTL
NewRow(parent, login) ==
  [exp |-> now + RefreshTTL, revoked |-> FALSE, parent |-> parent, login |-> login]

\* The two tokens are the answer of the request.
IssueTokenPair(p, t, parent, login) ==
  /\ token[t] = NoRow
  /\ expires' = [expires EXCEPT ![t] = AccessExp]
  /\ token' = [token EXCEPT ![t] = NewRow(parent, login)]
  /\ Goto(p, Idle)

\* Service.Login has found an active user and the right password ...
Login(p) ==
  /\ call[p] = Idle
  /\ Goto(p, [pc |-> "login"])
  /\ UNCHANGED <<now, token, expires, blacklist, signedOut, ended>>

\* ... and issues tokens.
LoginIssues(p, t) ==
  /\ call[p].pc = "login"
  /\ IssueTokenPair(p, t, t, t)
  /\ UNCHANGED <<now, blacklist, signedOut, ended>>

-----------------------------------------------------------------------------
(* Service.Refresh *)

\* GetByHash, and the checks on the row it returned.
\* (Seeded fault: the row's revoked_at is not looked at.)
Unexpired(t) == now <= token[t].exp
Usable(t) == ~token[t].revoked /\ now <= token[t].exp

RefreshReads(p, t) ==
  /\ call[p] = Idle
  /\ t \in Issued /\ Usable(t)
  /\ Goto(p, [pc |-> "rotate", with |-> t])
  /\ UNCHANGED <<now, token, expires, blacklist, signedOut, ended>>

\* RefreshTokenRepository.Revoke: the row by its id, revoked or not.
\* (Seeded fault: the statement matches no row.)
Unrevoked(t) == token
Revoked(t) == [token EXCEPT ![t].revoked = TRUE]

RefreshRevokes(p) ==
  /\ call[p].pc = "rotate"
  /\ token' = Revoked(call[p].with)
  /\ Goto(p, [pc |-> "reissue", with |-> call[p].with])
  /\ UNCHANGED <<now, expires, blacklist, signedOut, ended>>

\* GetByID, which does not ask whether the user is active, and new tokens.
RefreshIssues(p, t) ==
  /\ call[p].pc = "reissue"
  /\ IssueTokenPair(p, t, call[p].with, token[call[p].with].login)
  /\ UNCHANGED <<now, blacklist, signedOut, ended>>

-----------------------------------------------------------------------------
(* JWTAuth, and Service.Logout behind it *)

\* Manager.Parse: the token was signed here and has not expired.
Parses(a) == now < expires[a]

\* Blacklist.IsBlacklisted, when Redis answers.
IsBlacklisted(a) == now < blacklist[a]

\* JWTAuth lets a request with access token a through.  If Redis does not
\* answer, the token counts as not blacklisted.
Accepts(a) ==
  /\ Parses(a)
  /\ ~IsBlacklisted(a) \/ Faults

\* Logout with access token a and any string for a refresh token.
Logout(p, a, t) ==
  /\ call[p] = Idle
  /\ Accepts(a)
  /\ Goto(p, [pc |-> "measure", jti |-> a, with |-> t])
  /\ UNCHANGED <<now, token, expires, blacklist, signedOut, ended>>

\* What time.Until finds left of the life of a.
\* (Seeded fault: rounded down to a coarser unit.)
ShortLife(a) == expires[a] - now - 1
Remaining(a) == expires[a] - now

\* The handler looks at the clock: there may be nothing left to blacklist.
LogoutMeasures(p) ==
  /\ call[p].pc = "measure"
  /\ LET a == call[p].jti
         t == call[p].with
     IN Goto(p, IF Remaining(a) > 0
                THEN [pc |-> "blacklist", jti |-> a, left |-> Remaining(a), with |-> t]
                ELSE [pc |-> "lookup", with |-> t])
  /\ signedOut' = signedOut \cup IF Remaining(call[p].jti) > 0 THEN {} ELSE {call[p].jti}
  /\ UNCHANGED <<now, token, expires, blacklist, ended>>

\* Blacklist.Add: SET with an expiry.
LogoutBlacklists(p) ==
  /\ call[p].pc = "blacklist"
  /\ blacklist' = [blacklist EXCEPT ![call[p].jti] = now + call[p].left]
  /\ signedOut' = signedOut \cup {call[p].jti}
  /\ Goto(p, [pc |-> "lookup", with |-> call[p].with])
  /\ UNCHANGED <<now, token, expires, ended>>

\* GetByHash; an unknown token is "already logged out".
\* (Seeded fault: not found is not told apart.)
LogoutReadsAny(p) ==
  /\ call[p].pc = "lookup"
  /\ Goto(p, [pc |-> "revoke", with |-> call[p].with])
  /\ UNCHANGED <<now, token, expires, blacklist, signedOut, ended>>
LogoutReads(p) ==
  /\ call[p].pc = "lookup"
  /\ Goto(p, IF call[p].with \in Issued
             THEN [pc |-> "revoke", with |-> call[p].with] ELSE Idle)
  /\ UNCHANGED <<now, token, expires, blacklist, signedOut, ended>>

\* The Refresh requests that have read t and not answered yet.
Rotating(t) ==
  {p \in Proc : call[p].pc \in {"rotate", "reissue"} /\ call[p].with = t}

LogoutRevokes(p) ==
  /\ call[p].pc = "revoke"
  /\ LET t == call[p].with
     IN /\ token' = Revoked(t)
        /\ ended' = IF ~token[t].revoked /\ Rotating(t) = {}
                    THEN ended \cup {t} ELSE ended
  /\ Goto(p, Idle)
  /\ UNCHANGED <<now, expires, blacklist, signedOut>>

-----------------------------------------------------------------------------
(* The environment *)

\* Time passes.  (Redis drops a key when its time has come: see Accepts.)
Tick ==
  /\ now < MaxTime
  /\ now' = now + 1
  /\ UNCHANGED <<token, expires, blacklist, call, signedOut, ended>>

\* Blacklist.Add fails, and its error is dropped.
BlacklistFails(p) ==
  /\ Faults
  /\ call[p].pc = "blacklist"
  /\ Goto(p, [pc |-> "lookup", with |-> call[p].with])
  /\ UNCHANGED <<now, token, expires, blacklist, signedOut, ended>>

\* The request is cut short: a statement fails, the client goes away, or the
\* server dies.
Abandon(p) ==
  /\ Faults
  /\ call[p] # Idle
  /\ Goto(p, Idle)
  /\ UNCHANGED <<now, token, expires, blacklist, signedOut, ended>>

Serve(p) ==
  \/ Login(p) \/ RefreshRevokes(p)
  \/ LogoutMeasures(p) \/ LogoutBlacklists(p)
  \/ LogoutReads(p) \/ LogoutRevokes(p)
  \/ \E t \in Pair : RefreshReads(p, t) \/ LoginIssues(p, t) \/ RefreshIssues(p, t)
  \/ \E a, t \in Pair : Logout(p, a, t)

Next == (\E p \in Proc : Serve(p) \/ BlacklistFails(p) \/ Abandon(p)) \/ Tick

Spec == Init /\ [][Next]_vars

-----------------------------------------------------------------------------

Children(t) == {c \in Issued \ {t} : token[c].parent = t}

\* An access token whose logout was recorded is not accepted again: its
\* blacklist entry lives as long as the token.  (auth.Handler.Logout computes
\* the life of the key before Service.Logout and Blacklist.Add store it.)
SignedOutStaysOut ==
  \A a \in signedOut : Parses(a) => IsBlacklisted(a)

\* A refresh token that is presented twice is exchanged twice only by requests
\* that overlap: nothing is issued for it before it is revoked, and then only
\* to requests that had read its row before.  (Service.Refresh checks
\* revoked_at and revokes in two statements.)
ReplayOnlyByOverlap ==
  \A t \in Issued :
    /\ ~token[t].revoked => Children(t) = {}
    /\ Cardinality(Children(t)) + Cardinality(Rotating(t)) <= Cardinality(Proc)

\* "the presented refresh token is single-use ... a stolen-and-replayed old
\* token can never mint a second valid session" (Service.Refresh).
SingleUse == \A t \in Issued : Cardinality(Children(t)) <= 1

Chain(l) == {t \in Issued : token[t].login = l}
ExchangedOnce(l) == \A t \in Chain(l) : Cardinality(Children(t)) <= 1

\* Unless one of its tokens was exchanged twice, a login has at most one live
\* refresh token, wherever rotations, logouts and failures have cut in: all but
\* the last of the chain are revoked.
\* (Service.Refresh revokes before it issues the replacement.)
OneLivePerLogin ==
  \A l \in Issued :
    ExchangedOnce(l) => Cardinality({t \in Chain(l) : ~token[t].revoked}) <= 1

\* A Logout with the live refresh token of a login ends the login, if no Refresh
\* of that token was under way when it was revoked: the token is not exchanged
\* again, and unless one of its forebears was exchanged twice, no other token
\* of the login is alive or will be.
\* (Service.Logout revokes the row it found, whatever Refresh made of it.)
LogoutEndsLogin ==
  \A t \in ended :
    /\ Children(t) = {}
    /\ ExchangedOnce(token[t].login) => \A d \in Chain(token[t].login) : token[d].revoked
=============================================================================
