------------------------------- MODULE Sessions -------------------------------
(***************************************************************************)
(* Refresh tokens (auth.py, routers/auth.py).  A login starts a lineage of *)
(* tokens; every rotation revokes the one presented and issues the next.   *)
(* A token that is presented after its rotation has leaked, and ends every *)
(* session of its owner.  A login reads the account, a rotation the token  *)
(* and the account, and both commit later: another rotation, a logout, a   *)
(* theft found out or a merge may come between.                            *)
(***************************************************************************)
EXTENDS Integers, FiniteSets

CONSTANTS
    Holders,        \* accounts with sessions
    Nobody,         \* the owner of a row not written yet
    Tokens,         \* refresh tokens, by lookup hash
    NoToken,
    Callers         \* requests on /auth/refresh under way

ASSUME SessionsAssumption == Nobody \notin Holders /\ NoToken \notin Tokens

VARIABLES
    token,          \* RefreshToken rows
    closed,         \* accounts that are merged into another (users.deleted_at)
    signing,        \* the account a login under way has read, by the token it will issue
    call,           \* the token each refresh request is rotating
    reused,         \* history: tokens that were live when a reuse was detected
    ended,          \* history: lineages none of whose tokens was being rotated at that moment
    overtaken,      \* history: tokens that were being rotated when their owner closed
    caught,         \* history: tokens that a login under way at that moment was to issue
    contested       \* history: lineages two rotations have worked on at once

sessionVars == << token, closed, signing, call, reused, ended, overtaken, caught, contested >>
logins == << signing, caught >>

TokenRow == [status : {"free", "live", "expired", "revoked"}, owner : Holders \cup {Nobody},
             lineage : Tokens, parent : Tokens]

Live(p) == {t \in Tokens : token[t].status = "live" /\ token[t].owner = p}
Rotating(t) == \E c \in Callers : call[c] = t
Lineage(l) == {t \in Tokens : token[t].status # "free" /\ token[t].lineage = l}

-----------------------------------------------------------------------------

\* google_login, agent_login: the account is read; t names the token to be.
BeginLogin(p, t) ==
    /\ p \notin closed
    /\ token[t].status = "free"
    /\ signing[t] = Nobody
    /\ signing' = [signing EXCEPT ![t] = p]
    /\ UNCHANGED << token, closed, call, reused, ended, overtaken, caught, contested >>

\* issue_refresh_token and the commit: the first token of a lineage, whatever has
\* become of the account.
Login(t) ==
    /\ signing[t] # Nobody
    /\ token' = [token EXCEPT ![t] = [status |-> "live", owner |-> signing[t], lineage |-> t,
                                      parent |-> t]]
    /\ signing' = [signing EXCEPT ![t] = Nobody]
    /\ UNCHANGED << closed, call, reused, ended, overtaken, caught, contested >>

\* resolve_refresh_token accepts t, and its owner is still there.
PresentToken(c, t) ==
    /\ call[c] = NoToken
    /\ token[t].status = "live"
    /\ token[t].owner \notin closed
    /\ call' = [call EXCEPT ![c] = t]
    /\ contested' = contested \cup {token[u].lineage : u \in {u \in Lineage(token[t].lineage) : Rotating(u)}}
    /\ UNCHANGED << token, closed, reused, ended, overtaken, logins >>

\* revoked_at is set on the rows that have none.
Revoke(ts) ==
    [t \in Tokens |-> IF t \in ts /\ token[t].status \in {"live", "expired"}
                      THEN [token[t] EXCEPT !.status = "revoked"] ELSE token[t]]

OwnedBy(p) == {t \in Tokens : token[t].status # "free" /\ token[t].owner = p}
Ended(p) == {token[t].lineage : t \in OwnedBy(p)} \ {token[t].lineage : t \in {t \in Tokens : Rotating(t)}}

\* Mutant of DetectReuse: the family is revoked on the request's session, which
\* the AuthError rolls back.
DetectReuseOnRequest(t) ==
    /\ token[t].status = "revoked"
    /\ reused' = reused \cup Live(token[t].owner)
    /\ ended' = ended \cup Ended(token[t].owner)
    /\ UNCHANGED << token, closed, call, overtaken, contested, logins >>

\* resolve_refresh_token meets a revoked token: _revoke_family_durably commits
\* the revocation of all its owner's tokens before the request is refused.  If
\* that transaction fails, the failure is logged and nothing has happened.
DetectReuse(t) ==
    /\ token[t].status = "revoked"
    /\ token' = Revoke(OwnedBy(token[t].owner))
    /\ reused' = reused \cup Live(token[t].owner)
    /\ ended' = ended \cup Ended(token[t].owner)
    /\ UNCHANGED << closed, call, overtaken, contested, logins >>

\* Mutant of Rotate: the token presented stays as it is.
RotateKeepingOld(c, n) ==
    LET t == call[c] IN
    /\ call[c] # NoToken
    /\ token[n].status = "free" /\ signing[n] = Nobody
    /\ token' = [token EXCEPT ![n] = [token[t] EXCEPT !.status = "live", !.parent = t]]
    /\ call' = [call EXCEPT ![c] = NoToken]
    /\ UNCHANGED << closed, reused, ended, overtaken, contested, logins >>

\* issue_refresh_token and the commit: n replaces t, whatever has become of t.
Rotate(c, n) ==
    LET t == call[c] IN
    /\ call[c] # NoToken
    /\ token[n].status = "free" /\ signing[n] = Nobody
    /\ token' = [token EXCEPT ![n] = [token[t] EXCEPT !.status = "live", !.parent = t],
                              ![t].status = "revoked"]
    /\ call' = [call EXCEPT ![c] = NoToken]
    /\ UNCHANGED << closed, reused, ended, overtaken, contested, logins >>

\* The request fails before its commit.
DropRotation(c) ==
    /\ call[c] # NoToken
    /\ call' = [call EXCEPT ![c] = NoToken]
    /\ UNCHANGED << token, closed, reused, ended, overtaken, contested, logins >>

\* logout, of one device (only a token without revoked_at) or of all of them.
Logout(t) ==
    /\ token[t].status # "free"
    /\ token' = Revoke({t})
    /\ UNCHANGED << closed, call, reused, ended, overtaken, contested, logins >>

LogoutEverywhere(t) ==
    /\ token[t].status # "free"
    /\ token' = Revoke(OwnedBy(token[t].owner))
    /\ UNCHANGED << closed, call, reused, ended, overtaken, contested, logins >>

\* merge_accounts, with p as the source: its sessions must not keep working.
CloseAccount(p) ==
    /\ p \notin closed
    /\ closed' = closed \cup {p}
    /\ token' = Revoke(OwnedBy(p))
    /\ overtaken' = overtaken \cup {t \in OwnedBy(p) : Rotating(t)}
    /\ caught' = caught \cup {t \in Tokens : signing[t] = p}
    /\ UNCHANGED << signing, call, reused, ended, contested >>

\* expires_at passes; the token is refused from then on, without an alarm.
TokenExpires(t) ==
    /\ token[t].status = "live"
    /\ token' = [token EXCEPT ![t].status = "expired"]
    /\ UNCHANGED << closed, call, reused, ended, overtaken, contested, logins >>

SessionsInit ==
    /\ token = [t \in Tokens |->
                 [status |-> "free", owner |-> Nobody, lineage |-> t, parent |-> t]]
    /\ signing = [t \in Tokens |-> Nobody]
    /\ call = [c \in Callers |-> NoToken]
    /\ closed = {}
    /\ reused = {}
    /\ ended = {}
    /\ overtaken = {}
    /\ caught = {}
    /\ contested = {}

SessionsNext ==
    \/ \E p \in Holders : CloseAccount(p) \/ \E t \in Tokens : BeginLogin(p, t)
    \/ \E c \in Callers, t \in Tokens : PresentToken(c, t) \/ Rotate(c, t)
    \/ \E c \in Callers : DropRotation(c)
    \/ \E t \in Tokens :
        \/ Login(t)
        \/ DetectReuse(t)
        \/ Logout(t)
        \/ LogoutEverywhere(t)
        \/ TokenExpires(t)

SessionsSpec == SessionsInit /\ [][SessionsNext]_sessionVars

-----------------------------------------------------------------------------
(* Properties.                                                             *)

SessionsTypeOK ==
    /\ token \in [Tokens -> TokenRow]
    /\ closed \subseteq Holders
    /\ signing \in [Tokens -> Holders \cup {Nobody}]
    /\ call \in [Callers -> Tokens \cup {NoToken}]
    /\ reused \subseteq Tokens
    /\ ended \subseteq Tokens
    /\ overtaken \subseteq Tokens
    /\ caught \subseteq Tokens
    /\ contested \subseteq Tokens

\* A login is one session: rotated one request at a time, its lineage never has
\* two tokens that work, through logouts, expiry, failed and repeated requests.
OneTokenPerLogin ==
    \A l \in Tokens \ contested :
        \A s, t \in Lineage(l) : token[s].status = "live" /\ token[t].status = "live" => s = t

ReuseEndsSessions ==
    \A t \in Tokens :
        token[t].status = "live" => t \notin reused /\ token[t].lineage \notin ended

ClosedAccountsSignedOut ==
    \A t \in Tokens :
        token[t].status = "live" /\ token[t].owner \in closed =>
            \/ t \in caught
            \/ token[t].parent \in overtaken /\ t \notin overtaken

\* A revocation is final, and these are its limits.  A token presented a second
\* time ends every session of its owner: what worked then never works again, it
\* survives the refusal of the request, and no lineage that was at rest has a token
\* again.  auth.py promises more: to kill the whole family.  A rotation under way
\* at that moment still issues a successor that works, and a login its first token.
\* And a merged account is signed out, but for the token a login under way at the
\* merge still issues and the successor of a rotation under way; none of these is
\* ever rotated.
RevocationsHold == ReuseEndsSessions /\ ClosedAccountsSignedOut
=============================================================================
