--------------------------- MODULE Backoffice_proofs ---------------------------
(***************************************************************************)
(* Proofs about Sessions, AddressBook and Accounts, for any number of      *)
(* accounts, tokens, addresses, merges and requests in flight; at the end, *)
(* about the composition of these with the components of Shop_proofs and   *)
(* Office_proofs.                                                          *)
(***************************************************************************)
EXTENDS Backoffice, Shop_proofs, Office_proofs

-----------------------------------------------------------------------------
(* Types, and what no request can undo: a row that is written stays so.    *)

\* A token under rotation is written, and so is the first of every lineage.
Written ==
    /\ \A c \in Callers : call[c] # NoToken => token[call[c]].status # "free"
    /\ \A t \in Tokens : token[t].status # "free" => token[token[t].lineage].status # "free"

\* A login under way will write a row that nobody else writes.
Awaited == \A t \in Tokens : signing[t] # Nobody => token[t].status = "free"

BaseInv == SessionsTypeOK /\ Written /\ Awaited

LEMMA RevokeType ==
    ASSUME token \in [Tokens -> TokenRow], NEW ts \in SUBSET Tokens
    PROVE  /\ Revoke(ts) \in [Tokens -> TokenRow]
           /\ \A t \in Tokens :
                /\ Revoke(ts)[t].owner = token[t].owner
                /\ Revoke(ts)[t].lineage = token[t].lineage
                /\ Revoke(ts)[t].parent = token[t].parent
                /\ Revoke(ts)[t].status =
                     IF t \in ts /\ token[t].status \in {"live", "expired"}
                     THEN "revoked" ELSE token[t].status
  BY DEF Revoke, TokenRow

\* A revocation changes nothing but the status of live and expired rows.
LEMMA RevocationKeepsBase ==
    ASSUME BaseInv, NEW ts \in SUBSET Tokens, token' = Revoke(ts), call' = call,
           closed' \subseteq Holders, reused' \subseteq Tokens, overtaken' \subseteq Tokens,
           contested' \subseteq Tokens, ended' \subseteq Tokens, caught' \subseteq Tokens, signing' = signing
    PROVE  BaseInv'
<1>1. /\ token \in [Tokens -> TokenRow] /\ call \in [Callers -> Tokens \cup {NoToken}]
      /\ signing \in [Tokens -> Holders \cup {Nobody}]
  BY DEF BaseInv, SessionsTypeOK
<1>2. token' \in [Tokens -> TokenRow]
  BY <1>1, RevokeType
<1>3. \A t \in Tokens :
        /\ token'[t].lineage = token[t].lineage /\ token[t].lineage \in Tokens
        /\ token'[t].status = "free" <=> token[t].status = "free"
  BY <1>1, RevokeType DEF TokenRow
<1>4. Written' /\ Awaited'
  BY <1>1, <1>3 DEF BaseInv, Written, Awaited
<1>. QED
  BY <1>1, <1>2, <1>4 DEF BaseInv, SessionsTypeOK

\* What a rotation does: n is the one live successor of the token presented.
Rotated(c, n) ==
    /\ call[c] \in Tokens /\ call[c] # NoToken /\ call[c] # n
    /\ token[call[c]].status # "free" /\ token[n].status = "free" /\ signing[n] = Nobody
    /\ token' \in [Tokens -> TokenRow]
    /\ token'[n].status = "live" /\ token'[n].parent = call[c]
    /\ token'[n].owner = token[call[c]].owner
    /\ token'[n].lineage = token[call[c]].lineage
    /\ token'[call[c]].status = "revoked"
    /\ token'[call[c]].owner = token[call[c]].owner
    /\ token'[call[c]].lineage = token[call[c]].lineage
    /\ \A t \in Tokens \ {n, call[c]} : token'[t] = token[t]
    /\ call' = [call EXCEPT ![c] = NoToken]
    /\ UNCHANGED << closed, reused, ended, overtaken, caught, contested, signing >>

LEMMA RotateEffect ==
    ASSUME BaseInv, NEW c \in Callers, NEW n \in Tokens, Rotate(c, n)
    PROVE  Rotated(c, n)
<1>1. token \in [Tokens -> TokenRow] /\ call[c] \in Tokens /\ call[c] # n
  BY DEF BaseInv, SessionsTypeOK, Written, Awaited, Rotate
<1>. DEFINE row == [token[call[c]] EXCEPT !.status = "live", !.parent = call[c]]
            old == [token[call[c]] EXCEPT !.status = "revoked"]
<1>2. token' = [[token EXCEPT ![n] = row] EXCEPT ![call[c]] = old]
  BY <1>1 DEF Rotate
<1>3. token[call[c]] \in TokenRow
  BY <1>1
<1>4. /\ row \in TokenRow /\ row.status = "live" /\ row.parent = call[c]
      /\ row.owner = token[call[c]].owner /\ row.lineage = token[call[c]].lineage
  BY <1>1, <1>3 DEF TokenRow
<1>5. /\ old \in TokenRow /\ old.status = "revoked"
      /\ old.owner = token[call[c]].owner /\ old.lineage = token[call[c]].lineage
  BY <1>1, <1>3 DEF TokenRow
<1>. HIDE DEF row, old
<1>6. /\ token' \in [Tokens -> TokenRow] /\ token'[n] = row /\ token'[call[c]] = old
      /\ \A t \in Tokens \ {n, call[c]} : token'[t] = token[t]
  BY <1>1, <1>2, <1>4, <1>5
<1>. QED
  BY <1>1, <1>4, <1>5, <1>6 DEF Rotated, Rotate, BaseInv, Written, Awaited, logins

LEMMA BaseStep == BaseInv /\ [SessionsNext]_sessionVars => BaseInv'
<1>. SUFFICES ASSUME BaseInv, [SessionsNext]_sessionVars PROVE BaseInv'
  OBVIOUS
<1>. \A p : OwnedBy(p) \in SUBSET Tokens
  BY DEF OwnedBy
<1>0. /\ token \in [Tokens -> TokenRow] /\ call \in [Callers -> Tokens \cup {NoToken}]
      /\ closed \subseteq Holders /\ reused \subseteq Tokens
      /\ overtaken \subseteq Tokens /\ contested \subseteq Tokens /\ Written /\ Awaited
      /\ ended \subseteq Tokens /\ caught \subseteq Tokens
      /\ signing \in [Tokens -> Holders \cup {Nobody}]
      /\ \A p : Ended(p) \subseteq Tokens
  BY DEF BaseInv, SessionsTypeOK, Ended, OwnedBy, TokenRow
<1>11. ASSUME NEW p \in Holders, NEW t \in Tokens, BeginLogin(p, t) PROVE BaseInv'
  BY <1>0, <1>11 DEF BeginLogin, BaseInv, SessionsTypeOK, Written, Awaited
<1>1. ASSUME NEW t \in Tokens, Login(t) PROVE BaseInv'
  <2>. DEFINE row == [status |-> "live", owner |-> signing[t], lineage |-> t, parent |-> t]
  <2>1. row \in TokenRow /\ row.status = "live" /\ row.lineage = t
    BY <1>0 DEF TokenRow
  <2>. HIDE DEF row
  <2>2. token' = [token EXCEPT ![t] = row]
    BY <1>1 DEF Login, row
  <2>. QED
    BY <1>0, <1>1, <2>1, <2>2 DEF Login, BaseInv, SessionsTypeOK, Written, Awaited, TokenRow
<1>2. ASSUME NEW p \in Holders, CloseAccount(p) PROVE BaseInv'
  BY <1>0, <1>2, RevocationKeepsBase DEF CloseAccount, OwnedBy
<1>3. ASSUME NEW c \in Callers, NEW t \in Tokens, PresentToken(c, t) PROVE BaseInv'
  <2>1. contested' \subseteq Tokens
    BY <1>0, <1>3 DEF PresentToken, Lineage, TokenRow
  <2>. QED
    BY <1>0, <1>3, <2>1 DEF PresentToken, logins, BaseInv, SessionsTypeOK, Written, Awaited
<1>4. ASSUME NEW c \in Callers, NEW n \in Tokens, Rotate(c, n) PROVE BaseInv'
  <2>0. Rotated(c, n)
    BY <1>4, RotateEffect
  <2>1. \A t \in Tokens : token[t].status # "free" =>
            token'[t].status # "free" /\ token'[t].lineage = token[t].lineage
    BY <2>0 DEF Rotated
  <2>2. \A t \in Tokens : token[t].lineage \in Tokens
    BY <1>0 DEF TokenRow
  <2>3. Written' /\ Awaited'
    BY <1>0, <2>0, <2>1, <2>2 DEF Written, Awaited, Rotated
  <2>. QED
    BY <1>0, <2>0, <2>3 DEF BaseInv, SessionsTypeOK, Rotated
<1>5. ASSUME NEW c \in Callers, DropRotation(c) PROVE BaseInv'
  BY <1>0, <1>5 DEF DropRotation, logins, BaseInv, SessionsTypeOK, Written, Awaited
<1>6. ASSUME NEW t \in Tokens, DetectReuse(t) PROVE BaseInv'
  BY <1>0, <1>6, RevocationKeepsBase DEF DetectReuse, Live, logins
<1>7. ASSUME NEW t \in Tokens, Logout(t) PROVE BaseInv'
  BY <1>0, <1>7, RevocationKeepsBase DEF Logout, logins
<1>8. ASSUME NEW t \in Tokens, LogoutEverywhere(t) PROVE BaseInv'
  BY <1>0, <1>8, RevocationKeepsBase DEF LogoutEverywhere, logins
<1>9. ASSUME NEW t \in Tokens, TokenExpires(t) PROVE BaseInv'
  BY <1>0, <1>9 DEF TokenExpires, logins, BaseInv, SessionsTypeOK, Written, Awaited, TokenRow
<1>10. CASE UNCHANGED sessionVars
  BY <1>0, <1>10 DEF sessionVars, BaseInv, SessionsTypeOK, Written, Awaited
<1>. QED
  BY <1>1, <1>2, <1>3, <1>4, <1>5, <1>6, <1>7, <1>8, <1>9, <1>10, <1>11 DEF SessionsNext

LEMMA BaseInit == SessionsInit => BaseInv
  BY SessionsAssumption DEF SessionsInit, BaseInv, SessionsTypeOK, Written, Awaited, TokenRow

\* Every reachable state of the refresh tokens is well typed.
THEOREM SessionsTyped == SessionsSpec => []SessionsTypeOK
<1>1. BaseInv => SessionsTypeOK
  BY DEF BaseInv
<1>. QED
  BY <1>1, BaseInit, BaseStep, PTL DEF SessionsSpec

-----------------------------------------------------------------------------
(* A revocation is final.                                                  *)

\* The strengthening: a token under rotation when its owner closed is revoked, a
\* request that still rotates a token of a closed account is such a one, and a login
\* to a closed account was under way.
FinalInv ==
    /\ BaseInv
    /\ ClosedAccountsSignedOut
    /\ \A t \in reused : token[t].status = "revoked"
    /\ \A t \in overtaken : token[t].status = "revoked"
    /\ \A t \in Tokens : signing[t] \in closed => t \in caught
    /\ \A c \in Callers :
         call[c] # NoToken /\ token[call[c]].owner \in closed => call[c] \in overtaken

\* Revoking tokens of accounts, for whatever reason, disturbs none of it.
LEMMA RevocationKeepsFinal ==
    ASSUME FinalInv, BaseInv', NEW ts \in SUBSET Tokens, token' = Revoke(ts), call' = call,
           UNCHANGED << closed, overtaken, signing, caught >>,
           \A t \in reused' : t \in reused \/ (t \in ts /\ token[t].status = "live")
    PROVE  FinalInv'
<1>1. /\ token \in [Tokens -> TokenRow] /\ call \in [Callers -> Tokens \cup {NoToken}]
      /\ reused' \subseteq Tokens /\ reused \subseteq Tokens /\ overtaken \subseteq Tokens
  BY DEF FinalInv, BaseInv, SessionsTypeOK
<1>2. \A t \in Tokens :
        /\ token'[t].owner = token[t].owner /\ token'[t].parent = token[t].parent
        /\ token'[t].status = "live" => token[t].status = "live"
        /\ token[t].status = "revoked" => token'[t].status = "revoked"
        /\ token[t].status = "live" /\ t \in ts => token'[t].status = "revoked"
  BY <1>1, RevokeType
<1>3. \A t \in reused' : token'[t].status = "revoked"
  BY <1>1, <1>2 DEF FinalInv
<1>4. ClosedAccountsSignedOut'
  BY <1>1, <1>2 DEF ClosedAccountsSignedOut, FinalInv
<1>. QED
  BY <1>1, <1>2, <1>3, <1>4 DEF FinalInv

LEMMA FinalStep == FinalInv /\ [SessionsNext]_sessionVars => FinalInv'
<1>. SUFFICES ASSUME FinalInv, [SessionsNext]_sessionVars PROVE FinalInv'
  OBVIOUS
<1>. BaseInv'
  BY BaseStep DEF FinalInv
<1>. \A p : OwnedBy(p) \in SUBSET Tokens
  BY DEF OwnedBy
<1>0. /\ token \in [Tokens -> TokenRow] /\ call \in [Callers -> Tokens \cup {NoToken}]
      /\ closed \subseteq Holders /\ reused \subseteq Tokens /\ overtaken \subseteq Tokens
      /\ BaseInv /\ ClosedAccountsSignedOut
      /\ signing \in [Tokens -> Holders \cup {Nobody}] /\ Nobody \notin closed
      /\ \A t \in reused : token[t].status = "revoked"
      /\ \A t \in Tokens : signing[t] \in closed => t \in caught
      /\ \A t \in overtaken : token[t].status = "revoked"
      /\ \A c \in Callers :
           call[c] # NoToken /\ token[call[c]].owner \in closed => call[c] \in overtaken
  BY SessionsAssumption DEF FinalInv, BaseInv, SessionsTypeOK
<1>11. ASSUME NEW p \in Holders, NEW t \in Tokens, BeginLogin(p, t) PROVE FinalInv'
  BY <1>0, <1>11 DEF BeginLogin, FinalInv, ClosedAccountsSignedOut
<1>1. ASSUME NEW t \in Tokens, Login(t) PROVE FinalInv'
  <2>0. t \notin overtaken /\ t \notin reused /\ token[t].status = "free"
    BY <1>0, <1>1 DEF Login, BaseInv, Awaited
  <2>1. /\ token'[t].owner = signing[t] /\ token'[t].status = "live"
        /\ \A s \in Tokens \ {t} : token'[s] = token[s]
        /\ \A s \in Tokens : signing'[s] \in closed => signing[s] \in closed
        /\ UNCHANGED << call, closed, reused, overtaken, caught >>
    BY <1>0, <1>1 DEF Login
  <2>2. \A c \in Callers : call[c] # t
    BY <1>0, <2>0, SessionsAssumption DEF BaseInv, Written
  <2>3. ClosedAccountsSignedOut'
    BY <1>0, <2>1 DEF ClosedAccountsSignedOut
  <2>. QED
    BY <1>0, <2>0, <2>1, <2>2, <2>3 DEF FinalInv
<1>2. ASSUME NEW p \in Holders, CloseAccount(p) PROVE FinalInv'
  <2>1. \A t \in Tokens :
          /\ token'[t].owner = token[t].owner /\ token'[t].parent = token[t].parent
          /\ token'[t].status = "live" => token[t].status = "live" /\ t \notin OwnedBy(p)
          /\ token[t].status = "revoked" => token'[t].status = "revoked"
    BY <1>0, <1>2, RevokeType DEF CloseAccount
  <2>2. \A t \in OwnedBy(p) : token'[t].status = "revoked"
    <3>1. \A t \in OwnedBy(p) : t \in Tokens /\ token[t].status \in {"live", "expired", "revoked"}
      BY <1>0 DEF OwnedBy, TokenRow
    <3>. QED
      BY <1>0, <1>2, <3>1, RevokeType DEF CloseAccount
  <2>3. /\ closed' = closed \cup {p} /\ UNCHANGED << call, reused, signing >>
        /\ caught' = caught \cup {t \in Tokens : signing[t] = p}
        /\ overtaken' = overtaken \cup {t \in OwnedBy(p) : Rotating(t)}
    BY <1>2 DEF CloseAccount
  <2>4. /\ ClosedAccountsSignedOut'
        /\ \A t \in reused' : token'[t].status = "revoked"
        /\ \A t \in Tokens : signing'[t] \in closed' => t \in caught'
    <3>1. /\ \A t \in reused' : token'[t].status = "revoked"
          /\ \A t \in Tokens : signing'[t] \in closed' => t \in caught'
      BY <1>0, <2>1, <2>3
    <3>2. \A t \in Tokens : token'[t].status = "live" => token[t].owner # p
      BY <1>0, <2>1 DEF OwnedBy
    <3>3. ClosedAccountsSignedOut'
      BY <1>0, <2>1, <2>2, <2>3, <3>2 DEF ClosedAccountsSignedOut
    <3>. QED
      BY <3>1, <3>3
  <2>5. ASSUME NEW c \in Callers, call[c] # NoToken, token[call[c]].owner = p
        PROVE  call[c] \in overtaken'
    <3>1. call[c] \in OwnedBy(p)
      BY <1>0, <2>5 DEF OwnedBy, BaseInv, Written
    <3>. QED
      BY <2>3, <3>1 DEF Rotating
  <2>. QED
    BY <1>0, <2>1, <2>2, <2>3, <2>4, <2>5 DEF FinalInv
<1>3. ASSUME NEW c \in Callers, NEW t \in Tokens, PresentToken(c, t) PROVE FinalInv'
  BY <1>0, <1>3 DEF PresentToken, logins, FinalInv, ClosedAccountsSignedOut
<1>4. ASSUME NEW c \in Callers, NEW n \in Tokens, Rotate(c, n) PROVE FinalInv'
  <2>0. Rotated(c, n)
    BY <1>0, <1>4, RotateEffect
  <2>1. /\ \A t \in reused' : token'[t].status = "revoked"
        /\ \A t \in Tokens : signing'[t] \in closed' => t \in caught'
    BY <1>0, <2>0 DEF Rotated
  <2>2. ClosedAccountsSignedOut'
    <3>. SUFFICES ASSUME NEW s \in Tokens, token'[s].status = "live", token'[s].owner \in closed
                  PROVE  s \in caught \/ (token'[s].parent \in overtaken /\ s \notin overtaken)
      BY <2>0 DEF ClosedAccountsSignedOut, Rotated
    <3>1. CASE s = n
      BY <1>0, <2>0, <3>1 DEF Rotated
    <3>2. CASE s # n
      BY <1>0, <2>0, <3>2 DEF Rotated, ClosedAccountsSignedOut
    <3>. QED
      BY <3>1, <3>2
  <2>3. \A t \in overtaken' : token'[t].status = "revoked"
    BY <1>0, <2>0 DEF Rotated
  <2>4. ASSUME NEW d \in Callers, call'[d] # NoToken, token'[call'[d]].owner \in closed'
        PROVE  call'[d] \in overtaken'
    <3>1. d # c /\ call'[d] = call[d] /\ call[d] # n /\ call[d] \in Tokens
      BY <1>0, <2>0, <2>4 DEF Rotated, BaseInv, Written
    <3>. QED
      BY <1>0, <2>0, <2>4, <3>1 DEF Rotated
  <2>. QED
    BY <2>1, <2>2, <2>3, <2>4 DEF FinalInv
<1>5. ASSUME NEW c \in Callers, DropRotation(c) PROVE FinalInv'
  BY <1>0, <1>5 DEF DropRotation, logins, FinalInv, ClosedAccountsSignedOut
<1>6. ASSUME NEW t \in Tokens, DetectReuse(t) PROVE FinalInv'
  <2>1. \A s \in reused' :
          s \in reused \/ (s \in OwnedBy(token[t].owner) /\ token[s].status = "live")
    BY <1>6 DEF DetectReuse, Live, OwnedBy
  <2>. QED
    BY <1>6, <2>1, RevocationKeepsFinal DEF DetectReuse, logins
<1>7. ASSUME NEW t \in Tokens, Logout(t) PROVE FinalInv'
  BY <1>7, RevocationKeepsFinal DEF Logout, logins
<1>8. ASSUME NEW t \in Tokens, LogoutEverywhere(t) PROVE FinalInv'
  BY <1>8, RevocationKeepsFinal DEF LogoutEverywhere, logins
<1>9. ASSUME NEW t \in Tokens, TokenExpires(t) PROVE FinalInv'
  <2>1. /\ token[t].status = "live" /\ token'[t].status = "expired"
        /\ token'[t].owner = token[t].owner
        /\ \A s \in Tokens \ {t} : token'[s] = token[s]
        /\ UNCHANGED << closed, call, reused, overtaken, signing, caught >>
    BY <1>0, <1>9 DEF TokenExpires, logins, TokenRow
  <2>. QED
    BY <1>0, <2>1 DEF FinalInv, ClosedAccountsSignedOut
<1>10. CASE UNCHANGED sessionVars
  BY <1>0, <1>10 DEF sessionVars, FinalInv, ClosedAccountsSignedOut
<1>. QED
  BY <1>1, <1>2, <1>3, <1>4, <1>5, <1>6, <1>7, <1>8, <1>9, <1>10, <1>11 DEF SessionsNext

\* A lineage has one owner.  One that was ended has a revoked row where it had any,
\* and no request rotates a token of it.
OneOwner ==
    \A t \in Tokens : token[t].status # "free" => token[token[t].lineage].owner = token[t].owner
AtRest(l) ==
    /\ token[l].status # "free"
    /\ \A t \in Tokens : token[t].status # "free" /\ token[t].lineage = l =>
         token[t].status = "revoked"
    /\ \A c \in Callers : call[c] # NoToken => token[call[c]].lineage # l
EndedInv == BaseInv /\ OneOwner /\ \A l \in ended : AtRest(l)

\* Where no row is written and no token comes to life, a lineage stays at rest.
LEMMA RestGoesOn ==
    ASSUME EndedInv, BaseInv', \A l \in ended' : l \in ended \/ AtRest(l)',
           \A c \in Callers : call'[c] # NoToken =>
             call'[c] = call[c] \/ (call'[c] \in Tokens /\ token[call'[c]].status = "live"),
           \A t \in Tokens :
              /\ token'[t].lineage = token[t].lineage /\ token'[t].owner = token[t].owner
              /\ token'[t].status = "free" <=> token[t].status = "free"
              /\ token[t].status = "revoked" => token'[t].status = "revoked"
    PROVE  EndedInv'
<1>1. /\ token \in [Tokens -> TokenRow] /\ call \in [Callers -> Tokens \cup {NoToken}]
      /\ call' \in [Callers -> Tokens \cup {NoToken}] /\ ended \subseteq Tokens
      /\ OneOwner /\ (\A l \in ended : AtRest(l)) /\ BaseInv
      /\ \A t \in Tokens : token[t].lineage \in Tokens
  BY DEF EndedInv, BaseInv, SessionsTypeOK, TokenRow
<1>2. OneOwner'
  BY <1>1 DEF OneOwner
<1>3. ASSUME NEW l \in ended PROVE AtRest(l)'
  <2>1. AtRest(l) /\ l \in Tokens
    BY <1>1
  <2>2. ASSUME NEW c \in Callers, call'[c] # NoToken PROVE token'[call'[c]].lineage # l
    <3>1. CASE call'[c] = call[c]
      BY <1>1, <2>1, <2>2, <3>1 DEF AtRest
    <3>2. CASE call'[c] \in Tokens /\ token[call'[c]].status = "live"
      BY <1>1, <2>1, <3>2 DEF AtRest
    <3>. QED
      BY <2>2, <3>1, <3>2
  <2>. QED
    BY <1>1, <2>1, <2>2 DEF AtRest
<1>. QED
  BY <1>2, <1>3 DEF EndedInv

LEMMA RevocationKeepsRest ==
    ASSUME EndedInv, BaseInv', NEW ts \in SUBSET Tokens, token' = Revoke(ts), call' = call,
           \A l \in ended' : l \in ended \/ AtRest(l)'
    PROVE  EndedInv'
<1>1. token \in [Tokens -> TokenRow]
  BY DEF EndedInv, BaseInv, SessionsTypeOK
<1>2. \A t \in Tokens :
        /\ token'[t].lineage = token[t].lineage /\ token'[t].owner = token[t].owner
        /\ token'[t].status = "free" <=> token[t].status = "free"
        /\ token[t].status = "revoked" => token'[t].status = "revoked"
  BY <1>1, RevokeType
<1>. QED
  BY <1>2, RestGoesOn

\* A lineage that DetectReuse ends is at rest.
LEMMA EndedAtRest ==
    ASSUME EndedInv, NEW p, token' = Revoke(OwnedBy(p)), call' = call, NEW l \in Ended(p)
    PROVE  AtRest(l)'
<1>. OwnedBy(p) \in SUBSET Tokens
  BY DEF OwnedBy
<1>0. /\ token \in [Tokens -> TokenRow] /\ call \in [Callers -> Tokens \cup {NoToken}]
      /\ OneOwner /\ Written
  BY DEF EndedInv, BaseInv, SessionsTypeOK
<1>1. PICK s \in OwnedBy(p) : l = token[s].lineage
  BY DEF Ended
<1>2. s \in Tokens /\ token[s].status # "free" /\ token[s].owner = p /\ l \in Tokens
  BY <1>0, <1>1 DEF OwnedBy, TokenRow
<1>3. token[l].owner = p /\ token[l].status # "free"
  BY <1>0, <1>1, <1>2 DEF OneOwner, Written
<1>4. \A t \in Tokens : token'[t].lineage = token[t].lineage
        /\ (token'[t].status = "free" <=> token[t].status = "free")
        /\ (t \in OwnedBy(p) /\ token[t].status # "free" => token'[t].status = "revoked")
  BY <1>0, RevokeType DEF TokenRow
<1>5. ASSUME NEW t \in Tokens, token[t].status # "free", token[t].lineage = l
      PROVE  t \in OwnedBy(p)
  BY <1>0, <1>3, <1>5 DEF OwnedBy, OneOwner
<1>6. ASSUME NEW c \in Callers, call[c] # NoToken PROVE token[call[c]].lineage # l
  <2>1. call[c] \in Tokens /\ Rotating(call[c])
    BY <1>0, <1>6 DEF Rotating
  <2>. QED
    BY <2>1 DEF Ended
<1>. QED
  BY <1>0, <1>2, <1>3, <1>4, <1>5, <1>6 DEF AtRest

LEMMA EndedStep == EndedInv /\ [SessionsNext]_sessionVars => EndedInv'
<1>. SUFFICES ASSUME EndedInv, [SessionsNext]_sessionVars PROVE EndedInv'
  OBVIOUS
<1>. BaseInv'
  BY BaseStep DEF EndedInv
<1>. \A p : OwnedBy(p) \in SUBSET Tokens
  BY DEF OwnedBy
<1>0. /\ token \in [Tokens -> TokenRow] /\ call \in [Callers -> Tokens \cup {NoToken}]
      /\ ended \subseteq Tokens /\ OneOwner /\ (\A l \in ended : AtRest(l))
      /\ BaseInv /\ Written /\ Awaited
      /\ \A t \in Tokens : token[t].lineage \in Tokens
  BY DEF EndedInv, BaseInv, SessionsTypeOK, TokenRow
<1>1. ASSUME NEW p \in Holders, NEW t \in Tokens, BeginLogin(p, t) PROVE EndedInv'
  BY <1>0, <1>1, RestGoesOn DEF BeginLogin
<1>2. ASSUME NEW t \in Tokens, Login(t) PROVE EndedInv'
  <2>1. /\ token[t].status = "free" /\ token'[t].lineage = t /\ token'[t].status = "live"
        /\ \A s \in Tokens \ {t} : token'[s] = token[s]
        /\ UNCHANGED << call, ended >>
    BY <1>0, <1>2 DEF Login, Awaited
  <2>2. /\ \A s \in Tokens : token[s].status # "free" => token[s].lineage # t
        /\ \A c \in Callers : call[c] # NoToken => call[c] \in Tokens /\ call[c] # t
    BY <1>0, <2>1 DEF Written
  <2>3. OneOwner'
    BY <1>0, <2>1, <2>2 DEF OneOwner
  <2>4. ASSUME NEW l \in ended PROVE AtRest(l)'
    <3>1. AtRest(l) /\ l \in Tokens /\ l # t
      BY <1>0, <2>1 DEF AtRest
    <3>. QED
      BY <1>0, <2>1, <2>2, <3>1 DEF AtRest
  <2>. QED
    BY <2>1, <2>3, <2>4 DEF EndedInv
<1>3. ASSUME NEW p \in Holders, CloseAccount(p) PROVE EndedInv'
  BY <1>0, <1>3, RevocationKeepsRest DEF CloseAccount
<1>4. ASSUME NEW c \in Callers, NEW t \in Tokens, PresentToken(c, t) PROVE EndedInv'
  <2>1. /\ token[t].status = "live" /\ token' = token /\ ended' = ended
        /\ \A d \in Callers : call'[d] = call[d] \/ call'[d] = t
    BY <1>0, <1>4 DEF PresentToken
  <2>. QED
    BY <2>1, RestGoesOn
<1>5. ASSUME NEW c \in Callers, NEW n \in Tokens, Rotate(c, n) PROVE EndedInv'
  <2>0. Rotated(c, n)
    BY <1>0, <1>5, RotateEffect
  <2>. DEFINE t == call[c]
              m == token[t].lineage
  <2>1. /\ t \in Tokens /\ t # NoToken /\ t # n /\ token[n].status = "free" /\ m \in Tokens
        /\ token[t].status # "free" /\ token'[t].status = "revoked" /\ token'[n].status = "live"
        /\ token'[n].lineage = m /\ token'[t].lineage = m
        /\ token'[n].owner = token[t].owner /\ token'[t].owner = token[t].owner
        /\ \A s \in Tokens \ {n, t} : token'[s] = token[s]
        /\ call' = [call EXCEPT ![c] = NoToken] /\ ended' = ended
    BY <1>0, <2>0 DEF Rotated
  <2>2. \A s \in Tokens : token[s].status # "free" => s # n /\ token[s].lineage # n
    BY <1>0, <2>1 DEF Written
  <2>3. \A s \in Tokens : token[s].status # "free" =>
          token'[s].lineage = token[s].lineage /\ token'[s].owner = token[s].owner
    BY <2>1, <2>2
  <2>4. OneOwner'
    <3>1. token[m].owner = token[t].owner /\ token[m].status # "free"
      BY <1>0, <2>1 DEF OneOwner, Written
    <3>2. ASSUME NEW s \in Tokens, token'[s].status # "free"
          PROVE  token'[token'[s].lineage].owner = token'[s].owner
      <4>1. CASE s = n
        BY <2>1, <2>3, <3>1, <4>1
      <4>2. CASE s # n
        <5>1. token[s].status # "free"
          BY <2>1, <3>2, <4>2
        <5>2. token[token[s].lineage].owner = token[s].owner /\ token[token[s].lineage].status # "free"
          BY <1>0, <5>1 DEF OneOwner, Written
        <5>. QED
          BY <1>0, <2>3, <5>1, <5>2
      <4>. QED
        BY <4>1, <4>2
    <3>. QED
      BY <3>2 DEF OneOwner
  <2>5. ASSUME NEW l \in ended PROVE AtRest(l)'
    <3>1. AtRest(l) /\ l \in Tokens /\ l # m /\ l # n
      BY <1>0, <2>1 DEF AtRest
    <3>2. \A d \in Callers : call'[d] # NoToken =>
            d # c /\ call'[d] = call[d] /\ call[d] \in Tokens /\ token[call[d]].status # "free"
      BY <1>0, <2>1 DEF Written
    <3>3. \A d \in Callers : call'[d] # NoToken => token'[call'[d]].lineage # l
      BY <2>3, <3>1, <3>2 DEF AtRest
    <3>4. token'[l].status # "free"
      BY <2>1, <3>1 DEF AtRest
    <3>5. \A s \in Tokens : token'[s].status # "free" /\ token'[s].lineage = l => token'[s].status = "revoked"
      BY <2>1, <3>1 DEF AtRest
    <3>. QED
      BY <3>3, <3>4, <3>5 DEF AtRest
  <2>. QED
    BY <2>1, <2>4, <2>5 DEF EndedInv
<1>6. ASSUME NEW c \in Callers, DropRotation(c) PROVE EndedInv'
  <2>1. /\ token' = token /\ ended' = ended
        /\ \A d \in Callers : call'[d] # NoToken => call'[d] = call[d]
    BY <1>0, <1>6 DEF DropRotation
  <2>. QED
    BY <2>1, RestGoesOn
<1>7. ASSUME NEW t \in Tokens, DetectReuse(t) PROVE EndedInv'
  <2>. DEFINE p == token[t].owner
  <2>1. token' = Revoke(OwnedBy(p)) /\ call' = call /\ ended' = ended \cup Ended(p)
    BY <1>7 DEF DetectReuse
  <2>2. \A l \in ended' : l \in ended \/ AtRest(l)'
    BY <2>1, EndedAtRest
  <2>. QED
    BY <2>1, <2>2, RevocationKeepsRest
<1>8. ASSUME NEW t \in Tokens, Logout(t) PROVE EndedInv'
  BY <1>8, RevocationKeepsRest DEF Logout
<1>9. ASSUME NEW t \in Tokens, LogoutEverywhere(t) PROVE EndedInv'
  BY <1>9, RevocationKeepsRest DEF LogoutEverywhere
<1>10. ASSUME NEW t \in Tokens, TokenExpires(t) PROVE EndedInv'
  <2>1. /\ token[t].status = "live" /\ token'[t].status = "expired"
        /\ token'[t].lineage = token[t].lineage /\ token'[t].owner = token[t].owner
        /\ \A s \in Tokens \ {t} : token'[s] = token[s]
        /\ UNCHANGED << call, ended >>
    BY <1>0, <1>10 DEF TokenExpires, TokenRow
  <2>. QED
    BY <2>1, RestGoesOn
<1>11. CASE UNCHANGED sessionVars
  BY <1>11, RestGoesOn DEF sessionVars
<1>. QED
  BY <1>1, <1>2, <1>3, <1>4, <1>5, <1>6, <1>7, <1>8, <1>9, <1>10, <1>11 DEF SessionsNext

\* A token presented a second time ends every session of its owner, and a merge those
\* of the account it closes: nothing revives a token, and what still issues one is a
\* rotation or a login that was under way, however many requests race it.
THEOREM RevocationIsFinal == SessionsSpec => []RevocationsHold
<1>1. SessionsInit => FinalInv /\ EndedInv
  BY BaseInit, SessionsAssumption
     DEF SessionsInit, FinalInv, ClosedAccountsSignedOut, EndedInv, OneOwner
<1>2. ASSUME FinalInv, EndedInv PROVE RevocationsHold
  <2>1. token \in [Tokens -> TokenRow] /\ ClosedAccountsSignedOut
    BY <1>2 DEF FinalInv, BaseInv, SessionsTypeOK
  <2>2. ReuseEndsSessions
    BY <1>2 DEF FinalInv, EndedInv, AtRest, ReuseEndsSessions
  <2>. QED
    BY <2>1, <2>2 DEF RevocationsHold
<1>. QED
  BY <1>1, <1>2, FinalStep, EndedStep, PTL DEF SessionsSpec

-----------------------------------------------------------------------------
(* One token per login.                                                    *)

\* The strengthening: in a lineage that is not contested at most one request is
\* rotating, and no token but the one it rotates works.
LoginInv ==
    /\ BaseInv
    /\ OneTokenPerLogin
    /\ \A c \in Callers : call[c] # NoToken /\ token[call[c]].lineage \notin contested =>
         /\ \A s \in Lineage(token[call[c]].lineage) : token[s].status = "live" => s = call[c]
         /\ \A d \in Callers :
              call[d] # NoToken /\ token[call[d]].lineage = token[call[c]].lineage => d = c

\* Where no token comes to life, nothing is lost.
LEMMA NoNewTokenKeepsLogin ==
    ASSUME LoginInv, BaseInv', contested' = contested,
           \A c \in Callers : call'[c] # NoToken => call'[c] = call[c],
           \A t \in Tokens :
              /\ token'[t].lineage = token[t].lineage
              /\ token'[t].status = "free" <=> token[t].status = "free"
              /\ token'[t].status = "live" => token[t].status = "live"
    PROVE  LoginInv'
<1>1. /\ call \in [Callers -> Tokens \cup {NoToken}] /\ call' \in [Callers -> Tokens \cup {NoToken}]
      /\ contested \subseteq Tokens
  BY DEF LoginInv, BaseInv, SessionsTypeOK
<1>2. \A l : Lineage(l)' = Lineage(l) /\ Lineage(l) \subseteq Tokens
  BY DEF Lineage
<1>3. OneTokenPerLogin'
  BY <1>2 DEF LoginInv, OneTokenPerLogin
<1>. QED
  BY <1>1, <1>2, <1>3 DEF LoginInv

LEMMA RevocationKeepsLogin ==
    ASSUME LoginInv, BaseInv', NEW ts \in SUBSET Tokens, token' = Revoke(ts),
           UNCHANGED << call, contested >>
    PROVE  LoginInv'
<1>1. token \in [Tokens -> TokenRow]
  BY DEF LoginInv, BaseInv, SessionsTypeOK
<1>2. \A t \in Tokens :
        /\ token'[t].lineage = token[t].lineage
        /\ token'[t].status = "free" <=> token[t].status = "free"
        /\ token'[t].status = "live" => token[t].status = "live"
  BY <1>1, RevokeType
<1>. QED
  BY <1>2, NoNewTokenKeepsLogin

LEMMA LoginStep == LoginInv /\ [SessionsNext]_sessionVars => LoginInv'
<1>. SUFFICES ASSUME LoginInv, [SessionsNext]_sessionVars PROVE LoginInv'
  OBVIOUS
<1>. BaseInv'
  BY BaseStep DEF LoginInv
<1>. \A p : OwnedBy(p) \in SUBSET Tokens
  BY DEF OwnedBy
<1>0. /\ token \in [Tokens -> TokenRow] /\ call \in [Callers -> Tokens \cup {NoToken}]
      /\ contested \subseteq Tokens /\ BaseInv /\ Written
      /\ \A t \in Tokens : token[t].lineage \in Tokens
  BY DEF LoginInv, BaseInv, SessionsTypeOK, TokenRow
<1>11. ASSUME NEW p \in Holders, NEW t \in Tokens, BeginLogin(p, t) PROVE LoginInv'
  BY <1>11, NoNewTokenKeepsLogin DEF BeginLogin
<1>1. ASSUME NEW t \in Tokens, Login(t) PROVE LoginInv'
  <2>1. /\ token[t].status = "free" /\ token'[t].status = "live" /\ token'[t].lineage = t
        /\ \A s \in Tokens \ {t} : token'[s] = token[s]
        /\ UNCHANGED << call, contested >>
    BY <1>0, <1>1 DEF Login, BaseInv, Awaited
  <2>2. /\ \A s \in Tokens : token[s].status # "free" => token[s].lineage # t
        /\ \A c \in Callers : call[c] # NoToken =>
              call[c] \in Tokens /\ call[c] # t /\ token[call[c]].lineage # t
    BY <1>0, <2>1 DEF Written
  <2>3. \A l \in Tokens : Lineage(l)' = IF l = t THEN {t} ELSE Lineage(l)
    BY <1>0, <2>1, <2>2 DEF Lineage
  <2>4. OneTokenPerLogin'
    <3>. SUFFICES ASSUME NEW l \in Tokens \ contested, NEW r \in Lineage(l)', NEW s \in Lineage(l)',
                         token'[r].status = "live", token'[s].status = "live"
                  PROVE  r = s
      BY <2>1 DEF OneTokenPerLogin
    <3>1. CASE l = t
      BY <2>3, <3>1
    <3>2. CASE l # t
      <4>1. r \in Lineage(l) /\ s \in Lineage(l) /\ r # t /\ s # t /\ r \in Tokens /\ s \in Tokens
        BY <2>1, <2>3, <3>2 DEF Lineage
      <4>. QED
        BY <2>1, <4>1 DEF LoginInv, OneTokenPerLogin
    <3>. QED
      BY <3>1, <3>2
  <2>. QED
    <3>. SUFFICES ASSUME NEW c \in Callers, call[c] # NoToken, token[call[c]].lineage \notin contested
                  PROVE  /\ \A s \in Lineage(token[call[c]].lineage)' :
                              token'[s].status = "live" => s = call[c]
                         /\ \A d \in Callers :
                              call[d] # NoToken /\ token[call[d]].lineage = token[call[c]].lineage => d = c
      BY <2>1, <2>2, <2>4 DEF LoginInv
    <3>1. Lineage(token[call[c]].lineage)' = Lineage(token[call[c]].lineage)
      BY <1>0, <2>1, <2>2, <2>3
    <3>2. \A s \in Lineage(token[call[c]].lineage) : s # t /\ token'[s] = token[s]
      BY <2>1 DEF Lineage
    <3>. QED
      BY <3>1, <3>2 DEF LoginInv
<1>2. ASSUME NEW p \in Holders, CloseAccount(p) PROVE LoginInv'
  BY <1>2, RevocationKeepsLogin DEF CloseAccount
<1>3. ASSUME NEW c \in Callers, NEW t \in Tokens, PresentToken(c, t) PROVE LoginInv'
  <2>. DEFINE l == token[t].lineage
  <2>1. /\ call[c] = NoToken /\ token[t].status = "live" /\ call' = [call EXCEPT ![c] = t]
        /\ contested' = contested \cup {token[u].lineage : u \in {u \in Lineage(l) : Rotating(u)}}
        /\ token' = token
    BY <1>3 DEF PresentToken
  <2>2. contested \subseteq contested' /\ \A m : Lineage(m)' = Lineage(m)
    BY <2>1 DEF Lineage
  <2>3. OneTokenPerLogin'
    BY <2>1, <2>2 DEF LoginInv, OneTokenPerLogin
  <2>4. ASSUME l \notin contested', NEW d \in Callers, call[d] # NoToken, token[call[d]].lineage = l
        PROVE  FALSE
    <3>1. call[d] \in Lineage(l) /\ Rotating(call[d])
      BY <1>0, <2>4 DEF Lineage, Rotating, Written
    <3>. QED
      BY <2>1, <2>4, <3>1
  <2>5. t \in Lineage(l) /\ l \in Tokens
    BY <1>0, <2>1 DEF Lineage
  <2>6. l \notin contested' => \A s \in Lineage(l) : token[s].status = "live" => s = t
    BY <2>1, <2>2, <2>5 DEF LoginInv, OneTokenPerLogin
  <2>. QED
    <3>. SUFFICES ASSUME NEW d \in Callers, call'[d] # NoToken, token[call'[d]].lineage \notin contested'
                  PROVE  /\ \A s \in Lineage(token[call'[d]].lineage) :
                              token[s].status = "live" => s = call'[d]
                         /\ \A e \in Callers :
                              call'[e] # NoToken /\ token[call'[e]].lineage = token[call'[d]].lineage => e = d
      BY <2>1, <2>2, <2>3 DEF LoginInv
    <3>1. call'[c] = t /\ \A e \in Callers \ {c} : call'[e] = call[e]
      BY <1>0, <2>1
    <3>2. CASE d = c
      BY <2>4, <2>6, <3>1, <3>2
    <3>3. CASE d # c
      <4>1. token[call[d]].lineage # l
        BY <2>4, <3>1, <3>3
      <4>. QED
        BY <2>2, <3>1, <3>3, <4>1 DEF LoginInv
    <3>. QED
      BY <3>2, <3>3
<1>4. ASSUME NEW c \in Callers, NEW n \in Tokens, Rotate(c, n) PROVE LoginInv'
  <2>0. Rotated(c, n)
    BY <1>0, <1>4, RotateEffect
  <2>. DEFINE t == call[c]
              l == token[t].lineage
  <2>1. /\ t \in Tokens /\ t # NoToken /\ t # n /\ token[n].status = "free"
        /\ token[t].status # "free" /\ token'[t].status = "revoked" /\ token'[n].status = "live"
        /\ token'[n].lineage = l /\ token'[t].lineage = l /\ l \in Tokens
        /\ \A s \in Tokens \ {n, t} : token'[s] = token[s]
        /\ call' = [call EXCEPT ![c] = NoToken] /\ contested' = contested
    BY <1>0, <2>0 DEF Rotated
  <2>2. \A m \in Tokens : Lineage(m)' = IF m = l THEN Lineage(m) \cup {n} ELSE Lineage(m)
    BY <1>0, <2>1 DEF Lineage
  <2>3. \A s \in Tokens : token'[s].status = "live" /\ s # n => token[s].status = "live" /\ s # t
    BY <2>1
  <2>4. l \notin contested => \A s \in Lineage(l) : token'[s].status = "live" => s = n
    <3>. SUFFICES ASSUME l \notin contested, NEW s \in Lineage(l), token'[s].status = "live", s # n
                  PROVE  FALSE
      OBVIOUS
    <3>1. s \in Tokens /\ token[s].status = "live" /\ s # t
      BY <2>3 DEF Lineage
    <3>. QED
      BY <2>1, <3>1 DEF LoginInv
  <2>5. OneTokenPerLogin'
    <3>. SUFFICES ASSUME NEW m \in Tokens \ contested, NEW r \in Lineage(m)', NEW s \in Lineage(m)',
                         token'[r].status = "live", token'[s].status = "live"
                  PROVE  r = s
      BY <2>1 DEF OneTokenPerLogin
    <3>1. CASE m = l
      BY <2>2, <2>4, <3>1
    <3>2. CASE m # l
      <4>1. r \in Lineage(m) /\ s \in Lineage(m) /\ r \in Tokens /\ s \in Tokens /\ r # n /\ s # n
        BY <2>1, <2>2, <3>2 DEF Lineage
      <4>. QED
        BY <2>3, <4>1 DEF LoginInv, OneTokenPerLogin
    <3>. QED
      BY <3>1, <3>2
  <2>. QED
    <3>. SUFFICES ASSUME NEW d \in Callers, call'[d] # NoToken, token'[call'[d]].lineage \notin contested
                  PROVE  /\ \A s \in Tokens :
                              token'[s].status = "live" /\ token'[s].lineage = token'[call'[d]].lineage
                                => s = call'[d]
                         /\ \A e \in Callers :
                              call'[e] # NoToken /\ token'[call'[e]].lineage = token'[call'[d]].lineage => e = d
      BY <2>1, <2>5 DEF LoginInv, Lineage
    <3>1. call'[c] = NoToken /\ \A e \in Callers \ {c} : call'[e] = call[e]
      BY <1>0, <2>1
    <3>2. \A e \in Callers : call'[e] # NoToken =>
             /\ e # c /\ call'[e] = call[e] /\ call[e] \in Tokens /\ call[e] # n
             /\ token'[call[e]].lineage = token[call[e]].lineage
      BY <1>0, <2>1, <3>1 DEF Written
    <3>3. token[call[d]].lineage \notin contested /\ token[call[d]].lineage \in Tokens
      BY <1>0, <3>2
    <3>4. token[call[d]].lineage # l
      BY <2>1, <3>2, <3>3 DEF LoginInv
    <3>5. \A s \in Tokens : token'[s].status = "live" /\ token'[s].lineage # l =>
             s \in Lineage(token'[s].lineage) /\ token[s].status = "live"
      BY <2>1 DEF Lineage
    <3>. QED
      BY <3>2, <3>3, <3>4, <3>5 DEF LoginInv
<1>5. ASSUME NEW c \in Callers, DropRotation(c) PROVE LoginInv'
  <2>1. /\ token' = token /\ contested' = contested
        /\ \A d \in Callers : call'[d] # NoToken => call'[d] = call[d]
    BY <1>0, <1>5 DEF DropRotation
  <2>. QED
    BY <2>1, NoNewTokenKeepsLogin
<1>6. ASSUME NEW t \in Tokens, DetectReuse(t) PROVE LoginInv'
  BY <1>6, RevocationKeepsLogin DEF DetectReuse
<1>7. ASSUME NEW t \in Tokens, Logout(t) PROVE LoginInv'
  BY <1>7, RevocationKeepsLogin DEF Logout
<1>8. ASSUME NEW t \in Tokens, LogoutEverywhere(t) PROVE LoginInv'
  BY <1>8, RevocationKeepsLogin DEF LogoutEverywhere
<1>9. ASSUME NEW t \in Tokens, TokenExpires(t) PROVE LoginInv'
  <2>1. /\ token[t].status = "live" /\ token'[t].status = "expired"
        /\ token'[t].lineage = token[t].lineage
        /\ \A s \in Tokens \ {t} : token'[s] = token[s]
        /\ UNCHANGED << call, contested >>
    BY <1>0, <1>9 DEF TokenExpires, TokenRow
  <2>. QED
    BY <2>1, NoNewTokenKeepsLogin
<1>10. CASE UNCHANGED sessionVars
  BY <1>10, NoNewTokenKeepsLogin DEF sessionVars
<1>. QED
  BY <1>1, <1>2, <1>3, <1>4, <1>5, <1>6, <1>7, <1>8, <1>9, <1>10, <1>11 DEF SessionsNext

\* A lineage that is rotated one request at a time has at most one token that
\* works, for any number of requests, logouts, expiries and failures.
THEOREM OneTokenEach == SessionsSpec => []OneTokenPerLogin
<1>1. SessionsInit => LoginInv
  <2>. SUFFICES ASSUME SessionsInit PROVE LoginInv
    OBVIOUS
  <2>1. \A l : Lineage(l) = {}
    BY DEF SessionsInit, Lineage
  <2>. QED
    BY <2>1, BaseInit DEF SessionsInit, LoginInv, OneTokenPerLogin
<1>2. LoginInv => OneTokenPerLogin
  BY DEF LoginInv
<1>. QED
  BY <1>1, <1>2, LoginStep, PTL DEF SessionsSpec

-----------------------------------------------------------------------------
(* AddressBook.                                                            *)

Calm == Dwellers \ (mixed \cup crowded)
OneOf(s) == \A a, b \in s : a = b

\* What a request does to its account's default once it commits.
Kept(e, u) ==
    {a \in List(u) \ edit[e].drop :
        (address[a].default /\ a \notin edit[e].clear) \/ a \in edit[e].mark}
Adds(e) == \E row \in edit[e].new : row.default

\* Rows of an account nobody else was at: one default at most, and one if it has
\* any address and its flag was not taken off.
Provided(u) ==
    /\ OneOf(Defaults(u))
    /\ List(u) # {} /\ u \notin unset => Defaults(u) # {}
SoundEdit(e, u) ==
    /\ OneOf(Kept(e, u))
    /\ Adds(e) => Kept(e, u) = {}
    /\ u \notin unset => \/ Kept(e, u) # {} \/ Adds(e)
                         \/ List(u) \ edit[e].drop = {} /\ edit[e].new = {}

\* A request is for one account, and touches that one's rows unless they were moved.
NewRowOf(u) == {[of |-> u, default |-> d, deleted |-> FALSE] : d \in {TRUE, FALSE}}
EditShape(e, u) ==
    /\ edit[e] = [of |-> {u}, clear |-> edit[e].clear, mark |-> edit[e].mark,
                  drop |-> edit[e].drop, new |-> edit[e].new]
    /\ edit[e].clear \cup edit[e].mark \cup edit[e].drop \subseteq DOMAIN address
    /\ \A a \in edit[e].clear \cup edit[e].mark \cup edit[e].drop :
         address[a].of = u \/ address[a].of \in crowded
    /\ edit[e].new \subseteq NewRowOf(u) /\ OneOf(edit[e].new)

BookShape ==
    /\ Len(address) \in Nat
    /\ address = [a \in 1 .. Len(address) |->
                    [of |-> address[a].of, default |-> address[a].default,
                     deleted |-> address[a].deleted]]
    /\ DOMAIN edit = Edits

AddressInv ==
    /\ BookShape
    /\ \A u \in Calm : Provided(u)
    /\ \A e \in Edits : edit[e] = NoEdit \/ \E u \in Dwellers : EditShape(e, u)
    /\ \A e \in Edits : \A u \in Calm : edit[e].of = {u} => SoundEdit(e, u)
    /\ \A e, f \in Edits : \A u \in Calm : edit[e].of = {u} /\ edit[f].of = {u} => e = f

\* Greatest is the latest of some rows.
LEMMA Latest ==
    ASSUME NEW n \in Nat, NEW s \in SUBSET (1 .. n), s # {}
    PROVE  \E a \in s : \A b \in s : b <= a
<1>. DEFINE t == {n - a : a \in s}
<1>0. \A a \in s : a \in 1 .. n /\ n - a \in Nat
  OBVIOUS
<1>1. t \subseteq Nat /\ t # {}
  BY <1>0
<1>2. PICK x \in t : \A y \in t : ~ (<< y, x >> \in OpToRel(<, Nat))
  BY <1>1, NatLessThanWellFounded, WFMin
<1>3. \A y \in t : ~ (y < x)
  BY <1>1, <1>2 DEF OpToRel
<1>4. PICK a \in s : x = n - a
  OBVIOUS
<1>5. ASSUME NEW b \in s PROVE b <= a
  <2>1. n - b \in t /\ ~ (n - b < n - a)
    BY <1>3, <1>4
  <2>. QED
    BY <2>1
<1>. QED
  BY <1>5

LEMMA ForemostIsOne ==
    ASSUME BookShape, NEW s \in SUBSET DOMAIN address, \A a \in s : ~ address[a].default
    PROVE  Foremost(s) \subseteq s /\ OneOf(Foremost(s)) /\ (s # {} => Foremost(s) # {})
<1>1. DOMAIN address = 1 .. Len(address) /\ Len(address) \in Nat
  BY DEF BookShape
<1>2. Foremost(s) = {a \in s : \A b \in s : b <= a}
  BY DEF Foremost
<1>3. s # {} => \E a \in s : \A b \in s : b <= a
  BY <1>1, Latest
<1>4. ASSUME NEW a \in Foremost(s), NEW b \in Foremost(s) PROVE a = b
  BY <1>1, <1>2
<1>. QED
  BY <1>2, <1>3, <1>4 DEF OneOf

\* Rows of u, and the requests for it, that a step leaves alone stay right.
LEMMA OthersStayRight ==
    ASSUME NEW u \in Dwellers, List(u)' = List(u),
           \A a \in List(u) : address'[a].default <=> address[a].default,
           unset \subseteq unset'
    PROVE  /\ Provided(u) => Provided(u)'
           /\ \A e \in Edits : edit'[e] = edit[e] /\ SoundEdit(e, u) => SoundEdit(e, u)'
<1>1. Defaults(u)' = Defaults(u)
  BY DEF Defaults
<1>2. Provided(u) => Provided(u)'
  BY <1>1 DEF Provided, OneOf
<1>3. ASSUME NEW e \in Edits, edit'[e] = edit[e], SoundEdit(e, u) PROVE SoundEdit(e, u)'
  <2>1. Kept(e, u)' = Kept(e, u) /\ (Adds(e)' <=> Adds(e))
    BY <1>3 DEF Kept, Adds
  <2>. QED
    BY <1>3, <2>1 DEF SoundEdit, OneOf
<1>. QED
  BY <1>2, <1>3

\* A request that starts.
LEMMA StartKeeps ==
    ASSUME AddressInv, NEW e \in Edits, NEW u \in Dwellers,
           NEW clear \in SUBSET List(u), NEW mark \in SUBSET List(u), NEW drop \in SUBSET List(u),
           NEW new \in SUBSET NewRowOf(u), OneOf(new),
           Start(e, u, clear, mark, drop, new),
           address' = address, mixed' = mixed, unset \subseteq unset',
           u \in Calm => SoundEdit(e, u)'
    PROVE  AddressInv'
<1>1. /\ edit[e] = NoEdit /\ crowded \subseteq crowded'
      /\ edit' = [edit EXCEPT ![e] = [of |-> {u}, clear |-> clear, mark |-> mark,
                                      drop |-> drop, new |-> new]]
      /\ (\E f \in Edits : edit[f].of = {u}) => u \in crowded'
  BY DEF Start
<1>2. DOMAIN edit = Edits /\ Calm' \subseteq Calm /\ \A f \in Edits \ {e} : edit'[f] = edit[f]
  BY <1>1 DEF AddressInv, BookShape, Calm
<1>3. edit'[e] = [of |-> {u}, clear |-> clear, mark |-> mark, drop |-> drop, new |-> new]
  BY <1>1, <1>2
<1>4. BookShape'
  BY <1>1, <1>2 DEF AddressInv, BookShape
<1>5. \A w \in Dwellers : List(w)' = List(w)
  BY DEF List
<1>6. \A w \in Calm' : Provided(w)'
  BY <1>2, <1>5, OthersStayRight DEF AddressInv, Calm
<1>7. EditShape(e, u)'
  BY <1>3 DEF EditShape, List, NewRowOf, OneOf
<1>8. ASSUME NEW f \in Edits \ {e} PROVE edit'[f] = NoEdit \/ \E w \in Dwellers : EditShape(f, w)'
  BY <1>1, <1>2, <1>8 DEF AddressInv, EditShape, NewRowOf, OneOf
<1>9. ASSUME NEW f \in Edits, NEW w \in Calm', edit'[f].of = {w} PROVE SoundEdit(f, w)'
  <2>1. CASE f = e
    BY <1>2, <1>3, <1>9, <2>1
  <2>2. CASE f # e
    BY <1>2, <1>5, <1>9, <2>2, OthersStayRight DEF AddressInv, Calm
  <2>. QED
    BY <2>1, <2>2
<1>10. ASSUME NEW f \in Edits, NEW g \in Edits, NEW w \in Calm', edit'[f].of = {w}, edit'[g].of = {w}
       PROVE  f = g
  <2>1. w = u => \A h \in Edits \ {e} : edit[h].of # {w}
    BY <1>1, <1>10 DEF Calm
  <2>. QED
    BY <1>2, <1>3, <1>10, <2>1 DEF AddressInv
<1>. QED
  BY <1>4, <1>6, <1>7, <1>8, <1>9, <1>10 DEF AddressInv

\* Each request leaves its account, if it has that to itself, provided with a default.
LEMMA CreateStarts ==
    ASSUME AddressInv, NEW e \in Edits, NEW u \in Dwellers, CreateAddress(e, u)
    PROVE  AddressInv'
<1>1. PICK asked \in BOOLEAN :
        LET default == asked \/ List(u) = {} IN
        Start(e, u, IF default THEN Defaults(u) ELSE {}, {}, {},
              {[of |-> u, default |-> default, deleted |-> FALSE]})
  BY DEF CreateAddress
<1>. DEFINE d == asked \/ List(u) = {}
            row == [of |-> u, default |-> d, deleted |-> FALSE]
            off == IF d THEN Defaults(u) ELSE {}
<1>2. Start(e, u, off, {}, {}, {row})
  BY <1>1
<1>3. d \in BOOLEAN
  OBVIOUS
<1>4. off \subseteq List(u) /\ {row} \subseteq NewRowOf(u) /\ OneOf({row}) /\ (row.default <=> d)
  BY <1>3 DEF Defaults, NewRowOf, OneOf
<1>5. edit'[e] = [of |-> {u}, clear |-> off, mark |-> {}, drop |-> {}, new |-> {row}]
  BY <1>2 DEF Start, AddressInv, BookShape
<1>6. address' = address /\ mixed' = mixed /\ unset' = unset
  BY DEF CreateAddress
<1>7. ASSUME u \in Calm PROVE SoundEdit(e, u)'
  <2>1. Kept(e, u)' = (IF d THEN {} ELSE Defaults(u)) /\ (Adds(e)' <=> d)
    BY <1>4, <1>5, <1>6 DEF Kept, Adds, Defaults, List
  <2>2. Provided(u)
    BY <1>7 DEF AddressInv
  <2>. QED
    BY <1>6, <2>1, <2>2 DEF SoundEdit, Provided, OneOf
<1>. HIDE DEF d, row, off
<1>. QED
  BY <1>2, <1>4, <1>6, <1>7, StartKeeps

LEMMA UpdateStarts ==
    ASSUME AddressInv, NEW e \in Edits, NEW u \in Dwellers, NEW a \in List(u),
           UpdateAddress(e, u, a) \/ SetDefaultAddress(e, u, a)
    PROVE  AddressInv'
<1>1. PICK clear, mark :
        /\ Start(e, u, clear, mark, {}, {})
        /\ \/ clear = Defaults(u) \ {a} /\ mark = {a}
           \/ clear = Defaults(u) \ {a} /\ mark = {} /\ a \in Defaults(u)
           \/ clear = {a} /\ mark = {} /\ u \in unset'
           \/ clear = {} /\ mark = {}
        /\ address' = address /\ mixed' = mixed /\ unset \subseteq unset'
  <2>1. CASE UpdateAddress(e, u, a)
    <3>1. PICK flag \in {"true", "false", "absent"} :
            LET default == flag = "true" \/ (flag = "absent" /\ address[a].default) IN
            /\ Start(e, u, IF default THEN Defaults(u) \ {a}
                           ELSE IF flag = "false" THEN {a} ELSE {},
                     IF flag = "true" THEN {a} ELSE {}, {}, {})
            /\ unset' = IF flag = "false" THEN unset \cup {u} ELSE unset
      BY <2>1 DEF UpdateAddress
    <3>2. address' = address /\ mixed' = mixed /\ unset \subseteq unset'
      BY <2>1, <3>1 DEF UpdateAddress
    <3>3. CASE flag = "true"
      BY <3>1, <3>2, <3>3
    <3>4. CASE flag = "false"
      BY <3>1, <3>2, <3>4
    <3>5. CASE flag = "absent" /\ address[a].default
      BY <3>1, <3>2, <3>5 DEF Defaults
    <3>6. CASE flag = "absent" /\ ~ address[a].default
      BY <3>1, <3>2, <3>6
    <3>. QED
      BY <3>3, <3>4, <3>5, <3>6
  <2>2. CASE SetDefaultAddress(e, u, a)
    BY <2>2 DEF SetDefaultAddress
  <2>. QED
    BY <2>1, <2>2
<1>2. clear \subseteq List(u) /\ mark \subseteq List(u)
  BY <1>1 DEF Defaults
<1>3. edit'[e] = [of |-> {u}, clear |-> clear, mark |-> mark, drop |-> {}, new |-> {}]
  BY <1>1 DEF Start, AddressInv, BookShape
<1>4. ASSUME u \in Calm PROVE SoundEdit(e, u)'
  <2>1. /\ Kept(e, u)' = {b \in List(u) : (b \in Defaults(u) /\ b \notin clear) \/ b \in mark}
        /\ ~ Adds(e)' /\ List(u)' = List(u)
    BY <1>1, <1>3 DEF Kept, Adds, Defaults, List
  <2>2. OneOf(Defaults(u)) /\ (u \notin unset => Defaults(u) # {})
    BY <1>4 DEF AddressInv, Provided
  <2>4. CASE clear = Defaults(u) \ {a} /\ (mark = {a} \/ (mark = {} /\ a \in Defaults(u)))
    <3>1. Kept(e, u)' = {a}
      BY <2>1, <2>4 DEF Defaults
    <3>. QED
      BY <2>1, <3>1 DEF SoundEdit, OneOf
  <2>5. CASE mark = {} /\ ((clear = {a} /\ u \in unset') \/ clear = {})
    <3>1. Kept(e, u)' \subseteq Defaults(u) /\ (clear = {} => Kept(e, u)' = Defaults(u))
      BY <2>1, <2>5 DEF Defaults
    <3>. QED
      BY <1>1, <2>1, <2>2, <2>5, <3>1 DEF SoundEdit, OneOf
  <2>. QED
    <3>1. \/ clear = Defaults(u) \ {a} /\ (mark = {a} \/ (mark = {} /\ a \in Defaults(u)))
          \/ mark = {} /\ ((clear = {a} /\ u \in unset') \/ clear = {})
      BY <1>1, Zenon
    <3>. QED
      BY <2>4, <2>5, <3>1
<1>. QED
  BY <1>1, <1>2, <1>4, StartKeeps DEF OneOf

LEMMA DeleteStarts ==
    ASSUME AddressInv, NEW e \in Edits, NEW u \in Dwellers, NEW a \in List(u),
           DeleteAddress(e, u, a)
    PROVE  AddressInv'
<1>. DEFINE heirs == IF address[a].default THEN Foremost(List(u) \ {a}) ELSE {}
<1>1. /\ Start(e, u, {a}, heirs, {a}, {})
      /\ address' = address /\ mixed' = mixed /\ unset' = unset
  BY DEF DeleteAddress
<1>2. heirs \subseteq List(u)
  BY DEF Foremost
<1>3. edit'[e] = [of |-> {u}, clear |-> {a}, mark |-> heirs, drop |-> {a}, new |-> {}]
  BY <1>1 DEF Start, AddressInv, BookShape
<1>4. ASSUME u \in Calm PROVE SoundEdit(e, u)'
  <2>1. /\ Kept(e, u)' = {b \in List(u) \ {a} : b \in Defaults(u) \/ b \in heirs}
        /\ ~ Adds(e)' /\ List(u)' = List(u)
    BY <1>1, <1>3 DEF Kept, Adds, Defaults, List
  <2>2. OneOf(Defaults(u)) /\ (u \notin unset => Defaults(u) # {})
    BY <1>4 DEF AddressInv, Provided
  <2>3. CASE address[a].default
    <3>1. Defaults(u) = {a}
      BY <2>2, <2>3 DEF Defaults, OneOf
    <3>2. List(u) \ {a} \subseteq DOMAIN address /\ \A b \in List(u) \ {a} : ~ address[b].default
      BY <3>1 DEF List, Defaults
    <3>3. heirs = Foremost(List(u) \ {a})
      BY <2>3
    <3>4. /\ heirs \subseteq List(u) \ {a} /\ OneOf(heirs)
          /\ List(u) \ {a} # {} => heirs # {}
      <4>1. BookShape /\ List(u) \ {a} \in SUBSET DOMAIN address
        BY <3>2 DEF AddressInv
      <4>. HIDE DEF heirs
      <4>. QED
        BY <3>2, <3>3, <4>1, ForemostIsOne
    <3>5. Kept(e, u)' = heirs
      BY <2>1, <3>1, <3>4
    <3>. HIDE DEF heirs
    <3>. QED
      BY <1>3, <2>1, <3>4, <3>5 DEF SoundEdit, OneOf
  <2>4. CASE ~ address[a].default
    <3>1. Kept(e, u)' = Defaults(u)
      BY <2>1, <2>4 DEF Defaults
    <3>. QED
      BY <1>1, <2>1, <2>2, <3>1 DEF SoundEdit, OneOf
  <2>. QED
    BY <2>3, <2>4
<1>. HIDE DEF heirs
<1>. QED
  BY <1>1, <1>2, <1>4, StartKeeps DEF OneOf

LEMMA NewRowFits ==
    ASSUME NEW u, NEW row \in NewRowOf(u)
    PROVE  /\ row.of = u /\ ~ row.deleted
           /\ row = [of |-> row.of, default |-> row.default, deleted |-> row.deleted]
<1>1. PICK b \in {TRUE, FALSE} : row = [of |-> u, default |-> b, deleted |-> FALSE]
  BY DEF NewRowOf
<1>. QED
  BY <1>1

\* What a commit does to the rows: those the request touches get their flags, and
\* a new row comes last.
LEMMA CommitWrites ==
    ASSUME AddressInv, NEW e \in Edits, NEW w \in Dwellers, EditShape(e, w), CommitEdit(e)
    PROVE  /\ BookShape'
           /\ DOMAIN address \subseteq DOMAIN address'
           /\ \A a \in DOMAIN address :
                /\ address'[a].of = address[a].of
                /\ address'[a].default <=>
                     (address[a].default /\ a \notin edit[e].clear) \/ a \in edit[e].mark
                /\ address'[a].deleted <=> address[a].deleted \/ a \in edit[e].drop
           /\ edit[e].new = {} => DOMAIN address' = DOMAIN address
           /\ edit[e].new # {} => \E a : \E row \in edit[e].new :
                a \notin DOMAIN address /\ DOMAIN address' = DOMAIN address \cup {a} /\ address'[a] = row
<1>. DEFINE d == edit[e]
            n == Len(address)
            rows == [a \in DOMAIN address |->
                      [address[a] EXCEPT !.default = (@ /\ a \notin d.clear) \/ a \in d.mark,
                                         !.deleted = @ \/ a \in d.drop]]
            S == {rows[a] : a \in 1 .. n} \cup d.new
<1>1. /\ \/ d.new = {} /\ address' = rows
         \/ \E row \in d.new : address' = Append(rows, row)
      /\ edit' = [edit EXCEPT ![e] = NoEdit]
  BY DEF CommitEdit
<1>2. /\ n \in Nat /\ DOMAIN address = 1 .. n /\ DOMAIN edit = Edits
      /\ \A a \in 1 .. n : address[a] = [of |-> address[a].of, default |-> address[a].default,
                                         deleted |-> address[a].deleted]
  BY DEF AddressInv, BookShape
<1>3. rows \in [1 .. n -> S]
  BY <1>2
<1>4. rows \in Seq(S) /\ Len(rows) = n /\ DOMAIN rows = 1 .. n
  <2>. HIDE DEF rows, S
  <2>. QED
    BY <1>2, <1>3
<1>5. ASSUME NEW a \in DOMAIN address
      PROVE  /\ rows[a].of = address[a].of
             /\ rows[a].default <=> (address[a].default /\ a \notin d.clear) \/ a \in d.mark
             /\ rows[a].deleted <=> address[a].deleted \/ a \in d.drop
             /\ rows[a] = [of |-> rows[a].of, default |-> rows[a].default,
                           deleted |-> rows[a].deleted]
  <2>1. address[a] = [of |-> address[a].of, default |-> address[a].default,
                      deleted |-> address[a].deleted]
    BY <1>2
  <2>2. rows[a] = [address[a] EXCEPT !.default = (@ /\ a \notin d.clear) \/ a \in d.mark,
                                     !.deleted = @ \/ a \in d.drop]
    OBVIOUS
  <2>. HIDE DEF rows, d
  <2>3. rows[a] = [of |-> address[a].of,
                   default |-> (address[a].default /\ a \notin d.clear) \/ a \in d.mark,
                   deleted |-> address[a].deleted \/ a \in d.drop]
    BY <2>1, <2>2
  <2>. DEFINE flag == (address[a].default /\ a \notin d.clear) \/ a \in d.mark
              gone == address[a].deleted \/ a \in d.drop
  <2>4. rows[a] = [of |-> address[a].of, default |-> flag, deleted |-> gone]
    BY <2>3
  <2>5. /\ rows[a].of = address[a].of /\ rows[a].default = flag /\ rows[a].deleted = gone
        /\ rows[a] = [of |-> rows[a].of, default |-> rows[a].default,
                      deleted |-> rows[a].deleted]
    <3>. HIDE DEF flag, gone
    <3>. QED
      BY <2>4
  <2>. QED
    BY <2>5, Zenon
<1>6. DOMAIN edit' = Edits
  BY <1>1, <1>2
<1>7. CASE d.new = {}
  <2>1. address' = rows
    BY <1>1, <1>7
  <2>. HIDE DEF rows
  <2>. QED
    BY <1>2, <1>4, <1>5, <1>6, <1>7, <2>1 DEF BookShape
<1>8. CASE d.new # {}
  <2>1. PICK row \in d.new : address' = Append(rows, row)
    BY <1>1, <1>8
  <2>2. row = [of |-> row.of, default |-> row.default, deleted |-> row.deleted]
    BY <2>1, NewRowFits DEF EditShape
  <2>. HIDE DEF rows
  <2>3. /\ Len(address') = n + 1 /\ DOMAIN address' = 1 .. n + 1
        /\ \A a \in 1 .. n : address'[a] = rows[a]
        /\ address'[n + 1] = row
    <3>1. row \in S
      BY <2>1
    <3>. HIDE DEF S
    <3>. QED
      BY <1>2, <1>4, <2>1, <3>1, AppendProperties
  <2>4. \A a \in 1 .. n + 1 : a \in 1 .. n \/ a = n + 1
    BY <1>2
  <2>5. \A a \in 1 .. n + 1 :
          address'[a] = [of |-> address'[a].of, default |-> address'[a].default,
                         deleted |-> address'[a].deleted]
    BY <1>2, <1>5, <2>2, <2>3, <2>4
  <2>6. address' \in Seq(S)
    BY <1>4, <2>1, AppendProperties
  <2>7. BookShape'
    BY <1>2, <1>6, <2>3, <2>5, <2>6 DEF BookShape
  <2>8. n + 1 \notin DOMAIN address /\ DOMAIN address' = DOMAIN address \cup {n + 1}
    BY <1>2, <2>3
  <2>. QED
    BY <1>2, <1>5, <1>8, <2>1, <2>3, <2>7, <2>8
<1>. QED
  BY <1>7, <1>8

\* A commit provides its account, and leaves the others as they are.
LEMMA CommitKeeps ==
    ASSUME AddressInv, NEW e \in Edits, CommitEdit(e)
    PROVE  AddressInv'
<1>1. /\ edit[e] # NoEdit /\ edit' = [edit EXCEPT ![e] = NoEdit]
      /\ unset' = unset /\ mixed' = mixed /\ crowded' = crowded /\ Calm' = Calm
  BY DEF CommitEdit, Calm
<1>2. PICK w \in Dwellers : EditShape(e, w)
  BY <1>1 DEF AddressInv
<1>3. /\ DOMAIN edit = Edits /\ edit[e].of = {w} /\ edit'[e] = NoEdit
      /\ \A f \in Edits \ {e} : edit'[f] = edit[f]
  BY <1>1, <1>2 DEF AddressInv, BookShape, EditShape
<1>4. /\ BookShape'
      /\ DOMAIN address \subseteq DOMAIN address'
      /\ \A a \in DOMAIN address :
           /\ address'[a].of = address[a].of
           /\ address'[a].default <=>
                (address[a].default /\ a \notin edit[e].clear) \/ a \in edit[e].mark
           /\ address'[a].deleted <=> address[a].deleted \/ a \in edit[e].drop
      /\ edit[e].new = {} => DOMAIN address' = DOMAIN address
      /\ edit[e].new # {} => \E a : \E row \in edit[e].new :
           a \notin DOMAIN address /\ DOMAIN address' = DOMAIN address \cup {a} /\ address'[a] = row
  BY <1>2, CommitWrites
<1>5. ASSUME NEW u \in Calm, u # w
      PROVE  List(u)' = List(u) /\ \A a \in List(u) : address'[a].default <=> address[a].default
  <2>1. \A a \in DOMAIN address : address[a].of = u =>
          a \notin edit[e].clear \cup edit[e].mark \cup edit[e].drop
    BY <1>2, <1>5 DEF EditShape, Calm
  <2>2. \A a \in DOMAIN address' : a \in DOMAIN address \/ address'[a].of = w
    <3>1. \A row \in edit[e].new : row.of = w
      BY <1>2, NewRowFits DEF EditShape
    <3>. QED
      BY <1>4, <3>1
  <2>. QED
    BY <1>4, <1>5, <2>1, <2>2 DEF List
<1>6. ASSUME w \in Calm PROVE Provided(w)'
  <2>1. SoundEdit(e, w)
    BY <1>3, <1>6 DEF AddressInv
  <2>2. CASE edit[e].new = {}
    <3>1. List(w)' = List(w) \ edit[e].drop
      BY <1>4, <2>2 DEF List
    <3>2. Defaults(w)' = Kept(e, w)
      BY <1>4, <3>1 DEF Defaults, Kept, List
    <3>. QED
      BY <1>1, <2>1, <2>2, <3>1, <3>2 DEF SoundEdit, Provided, Adds, OneOf
  <2>3. CASE edit[e].new # {}
    <3>1. PICK a : \E row \in edit[e].new :
            a \notin DOMAIN address /\ DOMAIN address' = DOMAIN address \cup {a} /\ address'[a] = row
      BY <1>4, <2>3
    <3>2. /\ a \notin DOMAIN address /\ DOMAIN address' = DOMAIN address \cup {a}
          /\ address'[a].of = w /\ ~ address'[a].deleted /\ (address'[a].default <=> Adds(e))
      BY <1>2, <3>1 DEF EditShape, NewRowOf, OneOf, Adds
    <3>3. List(w)' = (List(w) \ edit[e].drop) \cup {a}
      BY <1>4, <3>2 DEF List
    <3>4. Defaults(w)' = Kept(e, w) \cup (IF Adds(e) THEN {a} ELSE {})
      BY <1>4, <3>2, <3>3 DEF Defaults, Kept, List
    <3>. QED
      BY <1>1, <2>1, <2>3, <3>4 DEF SoundEdit, Provided, OneOf
  <2>. QED
    BY <2>2, <2>3
<1>7. \A u \in Calm' : Provided(u)'
  BY <1>1, <1>5, <1>6, OthersStayRight DEF AddressInv, Calm
<1>8. ASSUME NEW f \in Edits PROVE edit'[f] = NoEdit \/ \E u \in Dwellers : EditShape(f, u)'
  <2>1. CASE f = e
    BY <1>3, <2>1
  <2>2. ASSUME f # e, NEW u \in Dwellers, EditShape(f, u) PROVE EditShape(f, u)'
    <3>1. /\ edit'[f] = edit[f] /\ crowded' = crowded
          /\ \A a \in DOMAIN address : a \in DOMAIN address' /\ address'[a].of = address[a].of
      BY <1>1, <1>3, <1>4, <2>2
    <3>. QED
      BY <2>2, <3>1 DEF EditShape, NewRowOf, OneOf
  <2>. QED
    BY <1>3, <2>1, <2>2 DEF AddressInv
<1>9. ASSUME NEW f \in Edits, NEW u \in Calm', edit'[f].of = {u} PROVE SoundEdit(f, u)'
  <2>1. f # e
    BY <1>3, <1>9 DEF NoEdit
  <2>2. edit'[f] = edit[f] /\ u # w
    BY <1>1, <1>3, <1>9, <2>1 DEF AddressInv
  <2>. QED
    BY <1>1, <1>5, <1>9, <2>2, OthersStayRight DEF AddressInv, Calm
<1>10. ASSUME NEW f \in Edits, NEW g \in Edits, NEW u \in Calm', edit'[f].of = {u}, edit'[g].of = {u}
       PROVE  f = g
  <2>1. f # e /\ g # e
    BY <1>3, <1>10 DEF NoEdit
  <2>. QED
    BY <1>1, <1>3, <1>10, <2>1 DEF AddressInv
<1>. QED
  BY <1>4, <1>7, <1>8, <1>9, <1>10 DEF AddressInv

LEMMA DropKeeps ==
    ASSUME AddressInv, NEW e \in Edits, DropEdit(e)
    PROVE  AddressInv'
<1>1. /\ edit' = [edit EXCEPT ![e] = NoEdit] /\ address' = address
      /\ unset' = unset /\ mixed' = mixed /\ crowded' = crowded /\ Calm' = Calm
  BY DEF DropEdit, Calm
<1>2. /\ DOMAIN edit = Edits /\ edit'[e] = NoEdit /\ edit'[e].of = {}
      /\ \A f \in Edits \ {e} : edit'[f] = edit[f]
  BY <1>1 DEF AddressInv, BookShape, NoEdit
<1>3. \A u \in Dwellers : List(u)' = List(u)
  BY <1>1 DEF List
<1>4. BookShape'
  BY <1>1, <1>2 DEF AddressInv, BookShape
<1>5. \A u \in Calm' : Provided(u)'
  BY <1>1, <1>3, OthersStayRight DEF AddressInv, Calm
<1>6. ASSUME NEW f \in Edits PROVE edit'[f] = NoEdit \/ \E u \in Dwellers : EditShape(f, u)'
  <2>1. CASE f = e
    BY <1>2, <2>1
  <2>2. ASSUME f # e, NEW u \in Dwellers, EditShape(f, u) PROVE EditShape(f, u)'
    <3>1. edit'[f] = edit[f] /\ crowded' = crowded /\ address' = address
      BY <1>1, <1>2, <2>2
    <3>. QED
      BY <2>2, <3>1 DEF EditShape, NewRowOf, OneOf
  <2>. QED
    BY <1>2, <2>1, <2>2 DEF AddressInv
<1>7. ASSUME NEW f \in Edits, NEW u \in Calm', edit'[f].of = {u} PROVE SoundEdit(f, u)'
  <2>1. f # e
    BY <1>2, <1>7
  <2>. QED
    BY <1>1, <1>2, <1>3, <1>7, <2>1, OthersStayRight DEF AddressInv, Calm
<1>8. ASSUME NEW f \in Edits, NEW g \in Edits, NEW u \in Calm', edit'[f].of = {u}, edit'[g].of = {u}
      PROVE  f = g
  BY <1>1, <1>2, <1>8 DEF AddressInv
<1>. QED
  BY <1>4, <1>5, <1>6, <1>7, <1>8 DEF AddressInv

\* A merge of two quiet accounts leaves the target with the rows of the one that
\* had any; of two accounts that both had some, with too many.
LEMMA MoveKeeps ==
    ASSUME AddressInv, NEW s \in Dwellers, NEW t \in Dwellers, MoveAddresses(s, t)
    PROVE  AddressInv'
<1>. DEFINE moved == [a \in DOMAIN address |->
              IF address[a].of = s THEN [address[a] EXCEPT !.of = t] ELSE address[a]]
<1>1. /\ s # t /\ edit' = edit /\ address' = moved
      /\ mixed \subseteq mixed' /\ unset \subseteq unset' /\ crowded \subseteq crowded'
      /\ Calm' \subseteq Calm
  BY DEF MoveAddresses, Calm
<1>2. t \in Calm' => /\ s \in Calm /\ t \in Calm /\ (List(s) = {} \/ List(t) = {})
                     /\ (t \notin unset' => s \notin unset /\ t \notin unset)
  BY DEF MoveAddresses, Calm
<1>3. ASSUME NEW u \in {s, t}, NEW e \in Edits, edit[e].of = {u} PROVE u \notin Calm'
  <2>1. edit[e].of \subseteq {s, t} /\ edit[e] # NoEdit
    BY <1>3 DEF NoEdit
  <2>2. {s, t} \subseteq crowded'
    BY <2>1 DEF MoveAddresses
  <2>. QED
    BY <2>2 DEF Calm
<1>4. /\ Len(address) \in Nat /\ DOMAIN address = 1 .. Len(address) /\ DOMAIN edit = Edits
      /\ \A a \in DOMAIN address :
           address[a] = [of |-> address[a].of, default |-> address[a].default,
                         deleted |-> address[a].deleted]
  BY DEF AddressInv, BookShape
<1>5. ASSUME NEW a \in DOMAIN address
      PROVE  /\ address'[a] = [of |-> address'[a].of, default |-> address[a].default,
                               deleted |-> address[a].deleted]
             /\ address[a].of = s => address'[a].of = t
             /\ address[a].of # s => address'[a].of = address[a].of
             /\ address'[a].default = address[a].default
             /\ address'[a].deleted = address[a].deleted
  <2>1. address'[a] = IF address[a].of = s THEN [address[a] EXCEPT !.of = t] ELSE address[a]
    BY <1>1
  <2>2. address[a] = [of |-> address[a].of, default |-> address[a].default,
                      deleted |-> address[a].deleted]
    BY <1>4
  <2>. HIDE DEF moved
  <2>3. CASE address[a].of = s
    BY <2>1, <2>2, <2>3
  <2>4. CASE address[a].of # s
    BY <2>1, <2>2, <2>4
  <2>. QED
    BY <2>3, <2>4
<1>6. DOMAIN address' = DOMAIN address /\ address' = [a \in 1 .. Len(address) |-> address'[a]]
  BY <1>1, <1>4
<1>. HIDE DEF moved
<1>7. Len(address') = Len(address)
  <2>. DEFINE S == {address'[a] : a \in 1 .. Len(address)}
  <2>1. address' \in [1 .. Len(address) -> S]
    BY <1>6
  <2>. HIDE DEF S
  <2>. QED
    BY <1>4, <2>1
<1>8. BookShape'
  BY <1>1, <1>4, <1>5, <1>6, <1>7 DEF BookShape
<1>9. ASSUME NEW u \in Dwellers \ {s, t}
      PROVE  List(u)' = List(u) /\ \A a \in List(u) : address'[a].default <=> address[a].default
  BY <1>5, <1>6, <1>9 DEF List
<1>10. List(s)' = {} /\ List(t)' = List(s) \cup List(t)
  BY <1>1, <1>5, <1>6 DEF List
<1>11. Defaults(t)' = Defaults(s) \cup Defaults(t)
  BY <1>5, <1>10 DEF Defaults, List
<1>12. ASSUME NEW u \in Calm' PROVE Provided(u)'
  <2>1. CASE u = s
    BY <1>10, <2>1 DEF Provided, Defaults, OneOf
  <2>2. CASE u = t
    <3>1. Provided(s) /\ Provided(t)
      BY <1>2, <1>12, <2>2 DEF AddressInv
    <3>2. (List(s) = {} => Defaults(s) = {}) /\ (List(t) = {} => Defaults(t) = {})
      BY DEF Defaults
    <3>. QED
      BY <1>2, <1>10, <1>11, <1>12, <2>2, <3>1, <3>2 DEF Provided, OneOf
  <2>3. CASE u \notin {s, t}
    BY <1>1, <1>9, <1>12, <2>3, OthersStayRight DEF AddressInv, Calm
  <2>. QED
    BY <2>1, <2>2, <2>3
<1>13. ASSUME NEW e \in Edits, NEW u \in Dwellers, EditShape(e, u) PROVE EditShape(e, u)'
  <2>1. \A a \in edit[e].clear \cup edit[e].mark \cup edit[e].drop :
          address'[a].of = u \/ address'[a].of \in crowded'
    <3>1. edit[e].of = {u} /\ edit[e] # NoEdit
      BY <1>13 DEF EditShape, NoEdit
    <3>2. s = u \/ s \in crowded => t \in crowded'
      BY <3>1 DEF MoveAddresses
    <3>. QED
      BY <1>1, <1>5, <1>13, <3>2 DEF EditShape
  <2>. QED
    BY <1>1, <1>6, <1>13, <2>1 DEF EditShape, NewRowOf, OneOf
<1>14. ASSUME NEW e \in Edits, NEW u \in Calm', edit[e].of = {u} PROVE SoundEdit(e, u)'
  BY <1>1, <1>3, <1>9, <1>14, OthersStayRight DEF AddressInv, Calm
<1>15. \A e \in Edits : edit'[e] = NoEdit \/ \E u \in Dwellers : EditShape(e, u)'
  BY <1>1, <1>13 DEF AddressInv
<1>. QED
  BY <1>1, <1>8, <1>12, <1>14, <1>15 DEF AddressInv

\* For any number of accounts, addresses and requests, one at a time for each
\* account: checkout finds one default address.
THEOREM DefaultIsOne == AddressesSpec => []OneDefaultAddress
<1>1. AddressesInit => AddressInv
  <2>. SUFFICES ASSUME AddressesInit PROVE AddressInv
    OBVIOUS
  <2>1. address = << >> /\ \A u \in Dwellers : List(u) = {} /\ Defaults(u) = {}
    BY DEF AddressesInit, List, Defaults
  <2>. QED
    <3>1. BookShape
      <4>1. Len(address) = 0 /\ DOMAIN address = {}
        BY <2>1
      <4>2. address = [a \in 1 .. Len(address) |->
                         [of |-> address[a].of, default |-> address[a].default,
                          deleted |-> address[a].deleted]]
        BY <2>1, <4>1
      <4>. QED
        BY <4>1, <4>2 DEF BookShape, AddressesInit
    <3>2. \A e \in Edits : edit[e] = NoEdit /\ edit[e].of = {}
      BY DEF AddressesInit, NoEdit
    <3>3. \A u \in Calm : Provided(u)
      BY <2>1 DEF Calm, Provided, OneOf
    <3>. QED
      BY <3>1, <3>2, <3>3 DEF AddressInv
<1>2. AddressInv /\ [AddressesNext]_addressVars => AddressInv'
  <2>. SUFFICES ASSUME AddressInv, [AddressesNext]_addressVars PROVE AddressInv'
    OBVIOUS
  <2>1. ASSUME NEW e \in Edits, NEW u \in Dwellers, NEW a \in DOMAIN address,
               UpdateAddress(e, u, a) \/ SetDefaultAddress(e, u, a) \/ DeleteAddress(e, u, a)
        PROVE  AddressInv'
    <3>1. a \in List(u)
      BY <2>1 DEF UpdateAddress, SetDefaultAddress, DeleteAddress
    <3>. QED
      BY <2>1, <3>1, UpdateStarts, DeleteStarts
  <2>2. CASE UNCHANGED addressVars
    <3>1. \A u \in Dwellers : List(u)' = List(u)
      BY <2>2 DEF addressVars, List
    <3>2. \A u \in Dwellers : /\ Provided(u) => Provided(u)'
                              /\ \A e \in Edits : SoundEdit(e, u) => SoundEdit(e, u)'
      BY <2>2, <3>1, OthersStayRight DEF addressVars
    <3>. QED
      BY <2>2, <3>2 DEF addressVars, AddressInv, BookShape, EditShape, NewRowOf, OneOf, Calm
  <2>. QED
    BY <2>1, <2>2, CreateStarts, CommitKeeps, DropKeeps, MoveKeeps DEF AddressesNext
<1>3. AddressInv => OneDefaultAddress
  <2>. SUFFICES ASSUME AddressInv, NEW u \in Calm
                PROVE  /\ Cardinality(Defaults(u)) <= 1
                       /\ List(u) # {} /\ u \notin unset => Defaults(u) # {}
    BY DEF OneDefaultAddress, Calm
  <2>1. Provided(u)
    BY DEF AddressInv
  <2>2. Defaults(u) = {} \/ \E a : Defaults(u) = {a}
    BY <2>1 DEF Provided, OneOf
  <2>3. Cardinality(Defaults(u)) \in {0, 1}
    BY <2>2, FS_EmptySet, FS_Singleton
  <2>. QED
    BY <2>1, <2>3 DEF Provided
<1>. QED
  BY <1>1, <1>2, <1>3, PTL DEF AddressesSpec

\* The rows, and the row a request is about to add.
AddressTypes ==
    /\ AddressesTypeOK
    /\ DOMAIN edit = Edits
    /\ \A e \in Edits : edit[e].new \subseteq AddressRow

LEMMA RowsStayRows ==
    ASSUME NEW s \in Seq(AddressRow), NEW t, DOMAIN t = DOMAIN s,
           t = [i \in DOMAIN s |-> t[i]], \A i \in DOMAIN s : t[i] \in AddressRow
    PROVE  t \in Seq(AddressRow)
<1>1. DOMAIN s = 1 .. Len(s) /\ Len(s) \in Nat
  BY LenProperties
<1>2. t \in [1 .. Len(s) -> AddressRow]
  BY <1>1
<1>. QED
  BY ONLY <1>1, <1>2, IsASeq

\* The columns of address rows, whatever requests and merges write at once.
THEOREM AddressesTyped == AddressesSpec => []AddressesTypeOK
<1>1. AddressesInit => AddressTypes
  BY EmptySeq DEF AddressesInit, AddressTypes, AddressesTypeOK, NoEdit
<1>2. AddressTypes /\ [AddressesNext]_addressVars => AddressTypes'
  <2>. SUFFICES ASSUME AddressTypes, [AddressesNext]_addressVars PROVE AddressTypes'
    OBVIOUS
  <2>0. /\ address \in Seq(AddressRow) /\ absorbed \subseteq Dwellers /\ unset \subseteq Dwellers
        /\ mixed \subseteq Dwellers /\ crowded \subseteq Dwellers /\ DOMAIN edit = Edits
        /\ \A e \in Edits : edit[e].new \subseteq AddressRow
    BY DEF AddressTypes, AddressesTypeOK
  <2>a. \A a \in DOMAIN address :
            /\ address[a].of \in Dwellers /\ address[a].default \in BOOLEAN
            /\ address[a].deleted \in BOOLEAN /\ address[a] \in AddressRow
    <3>1. \A a \in DOMAIN address : address[a] \in AddressRow
      BY <2>0, LenProperties, ElementOfSeq
    <3>. QED
      BY <3>1 DEF AddressRow
  <2>1. ASSUME NEW e \in Edits, NEW u \in Dwellers, NEW clear, NEW mark, NEW drop, NEW new,
               Start(e, u, clear, mark, drop, new), new \subseteq AddressRow
        PROVE  /\ DOMAIN edit' = Edits /\ \A f \in Edits : edit'[f].new \subseteq AddressRow
               /\ crowded' \subseteq Dwellers
    BY <2>0, <2>1, SMT DEF Start
  <2>2. ASSUME NEW e \in Edits, edit' = [edit EXCEPT ![e] = NoEdit]
        PROVE  DOMAIN edit' = Edits /\ \A f \in Edits : edit'[f].new \subseteq AddressRow
    BY <2>0, <2>2 DEF NoEdit
  <2>3. ASSUME NEW e \in Edits, NEW u \in Dwellers, CreateAddress(e, u) PROVE AddressTypes'
    <3>1. PICK asked \in BOOLEAN :
            LET default == asked \/ List(u) = {} IN
            Start(e, u, IF default THEN Defaults(u) ELSE {}, {}, {},
                  {[of |-> u, default |-> default, deleted |-> FALSE]})
      BY <2>3, Zenon DEF CreateAddress
    <3>. DEFINE d == asked \/ List(u) = {}
                new == {[of |-> u, default |-> d, deleted |-> FALSE]}
                clear == IF d THEN Defaults(u) ELSE {}
    <3>2. new \subseteq AddressRow
      BY DEF AddressRow
    <3>3. Start(e, u, clear, {}, {}, new)
      BY <3>1, Zenon
    <3>4. UNCHANGED << address, absorbed, unset, mixed >>
      BY <2>3, Zenon DEF CreateAddress
    <3>. HIDE DEF new, clear
    <3>5. /\ DOMAIN edit' = Edits /\ \A f \in Edits : edit'[f].new \subseteq AddressRow
          /\ crowded' \subseteq Dwellers
      BY ONLY <2>1, <3>2, <3>3, e \in Edits, u \in Dwellers
    <3>. QED
      BY <2>0, <3>4, <3>5 DEF AddressTypes, AddressesTypeOK
  <2>4. ASSUME NEW e \in Edits, NEW u \in Dwellers, NEW a \in DOMAIN address,
               UpdateAddress(e, u, a) \/ SetDefaultAddress(e, u, a) \/ DeleteAddress(e, u, a)
        PROVE  AddressTypes'
    <3>1. \E clear, mark, drop : Start(e, u, clear, mark, drop, {})
      BY <2>4, Zenon DEF UpdateAddress, SetDefaultAddress, DeleteAddress
    <3>2. /\ DOMAIN edit' = Edits /\ \A f \in Edits : edit'[f].new \subseteq AddressRow
          /\ crowded' \subseteq Dwellers
      <4>1. {} \subseteq AddressRow
        OBVIOUS
      <4>. QED
        BY <2>1, <3>1, <4>1
    <3>3. UNCHANGED << address, absorbed, mixed >> /\ unset' \subseteq unset \cup {u}
      BY <2>4 DEF UpdateAddress, SetDefaultAddress, DeleteAddress
    <3>. QED
      BY <2>0, <3>2, <3>3 DEF AddressTypes, AddressesTypeOK
  <2>5. ASSUME NEW e \in Edits, CommitEdit(e) PROVE AddressTypes'
    <3>. DEFINE d == edit[e]
                rows == [a \in DOMAIN address |->
                          [address[a] EXCEPT !.default = (@ /\ a \notin d.clear) \/ a \in d.mark,
                                             !.deleted = @ \/ a \in d.drop]]
    <3>1. /\ address' = rows \/ \E row \in d.new : address' = Append(rows, row)
          /\ edit' = [edit EXCEPT ![e] = NoEdit] /\ UNCHANGED << absorbed, unset, mixed, crowded >>
      BY <2>5, Zenon DEF CommitEdit
    <3>2. rows \in Seq(AddressRow)
      <4>1. \A a \in DOMAIN address : rows[a] \in AddressRow
        BY <2>a DEF AddressRow
      <4>2. DOMAIN rows = DOMAIN address /\ rows = [a \in DOMAIN address |-> rows[a]]
        OBVIOUS
      <4>. HIDE DEF rows
      <4>. QED
        BY ONLY <2>0, <4>1, <4>2, RowsStayRows
    <3>. HIDE DEF rows
    <3>3. address' \in Seq(AddressRow)
      BY <2>0, <3>1, <3>2, AppendProperties
    <3>. QED
      BY <2>0, <2>2, <3>1, <3>3 DEF AddressTypes, AddressesTypeOK
  <2>6. ASSUME NEW e \in Edits, DropEdit(e) PROVE AddressTypes'
    BY <2>0, <2>2, <2>6 DEF DropEdit, AddressTypes, AddressesTypeOK
  <2>7. ASSUME NEW s \in Dwellers, NEW t \in Dwellers, MoveAddresses(s, t) PROVE AddressTypes'
    <3>. DEFINE rows == [a \in DOMAIN address |->
                          IF address[a].of = s THEN [address[a] EXCEPT !.of = t] ELSE address[a]]
    <3>1. address' = rows
      BY <2>7, Zenon DEF MoveAddresses
    <3>2. rows \in Seq(AddressRow)
      <4>1. \A a \in DOMAIN address : rows[a] \in AddressRow
        BY <2>a DEF AddressRow
      <4>2. DOMAIN rows = DOMAIN address /\ rows = [a \in DOMAIN address |-> rows[a]]
        OBVIOUS
      <4>. HIDE DEF rows
      <4>. QED
        BY ONLY <2>0, <4>1, <4>2, RowsStayRows
    <3>. HIDE DEF rows
    <3>3. /\ absorbed' \subseteq Dwellers /\ mixed' \subseteq Dwellers /\ unset' \subseteq Dwellers
          /\ crowded' \subseteq Dwellers /\ edit' = edit
      BY <2>0, <2>7 DEF MoveAddresses
    <3>. QED
      BY <2>0, <3>1, <3>2, <3>3 DEF AddressTypes, AddressesTypeOK
  <2>8. CASE UNCHANGED addressVars
    BY <2>8, <2>0 DEF addressVars, AddressTypes, AddressesTypeOK
  <2>. QED
    BY <2>3, <2>4, <2>5, <2>6, <2>7, <2>8, Zenon DEF AddressesNext
<1>. QED
  BY <1>1, <1>2, PTL DEF AddressesSpec, AddressTypes

-----------------------------------------------------------------------------
(* Accounts: services/account_merge.py.                                    *)

\* Who took an account's place; 0 while nobody has.
Into(rows) == [u \in Ids |-> IF u \in DOMAIN rows THEN rows[u].into ELSE 0]

\* What Survivor is, for any way in which accounts were merged.
Follows(f, next) ==
    /\ f \in [0 .. MaxAccounts -> [Ids -> Ids]]
    /\ \A u \in Ids : f[0][u] = u
    /\ \A n \in 1 .. MaxAccounts, u \in Ids :
          f[n][u] = IF next[u] = 0 THEN u ELSE f[n - 1][next[u]]

SurvivorIn(rows) ==
    CHOOSE f : f = [steps \in 0 .. MaxAccounts |->
        [u \in Ids |-> IF steps = 0 \/ u \notin DOMAIN rows \/ rows[u].into = 0 THEN u
                       ELSE f[steps - 1][rows[u].into]]]

LEMMA SurvivorIsThat == Survivor = SurvivorIn(user)
  BY DEF Survivor, SurvivorIn

LEMMA SurvivorFollows ==
    ASSUME NEW rows, Into(rows) \in [Ids -> 0 .. MaxAccounts]
    PROVE  Follows(SurvivorIn(rows), Into(rows))
<1>. DEFINE next == Into(rows)
            Walk == [Ids -> Ids]
            Onward(g) == [u \in Ids |-> IF next[u] = 0 THEN u ELSE g[next[u]]]
            step == [n \in 1 .. MaxAccounts |-> [g \in Walk |-> Onward(g)]]
            stay == [u \in Ids |-> u]
            Body(f) == [steps \in 0 .. MaxAccounts |->
                [u \in Ids |-> IF steps = 0 \/ u \notin DOMAIN rows \/ rows[u].into = 0 THEN u
                               ELSE f[steps - 1][rows[u].into]]]
<1>1. MaxAccounts \in Nat
  BY AccountsAssumption
<1>2. next \in [Ids -> 0 .. MaxAccounts]
  OBVIOUS
<1>3. stay \in Walk
  OBVIOUS
<1>4. \A u \in Ids : (next[u] = 0 <=> u \notin DOMAIN rows \/ rows[u].into = 0)
                     /\ (next[u] # 0 => next[u] = rows[u].into)
  BY DEF Into
<1>. HIDE DEF next
<1>5. ASSUME NEW g \in Walk PROVE Onward(g) \in Walk
  BY <1>2 DEF Ids
<1>6. step \in [1 .. MaxAccounts -> [Walk -> Walk]]
  BY <1>5
<1>7. PICK f \in [0 .. MaxAccounts -> Walk] :
          f[0] = stay /\ \A n \in 1 .. MaxAccounts : f[n] = step[n][f[n - 1]]
  <2>. HIDE DEF Walk, stay, step
  <2>. QED
    BY <1>1, <1>3, <1>6, Recursion
<1>8. ASSUME NEW n \in 1 .. MaxAccounts PROVE f[n] = Onward(f[n - 1])
  <2>1. f[n - 1] \in Walk
    BY <1>1, <1>7
  <2>. QED
    BY <1>7, <2>1
<1>15. \A g : \A n \in 0 .. MaxAccounts : \A u \in Ids :
          Body(g)[n][u] = IF n = 0 \/ u \notin DOMAIN rows \/ rows[u].into = 0 THEN u
                          ELSE g[n - 1][rows[u].into]
  OBVIOUS
<1>16. \A g : /\ Body(g) = [n \in 0 .. MaxAccounts |-> Body(g)[n]]
             /\ \A n \in 0 .. MaxAccounts : Body(g)[n] = [u \in Ids |-> Body(g)[n][u]]
  OBVIOUS
<1>9. f = Body(f)
  <2>1. ASSUME NEW n \in 0 .. MaxAccounts PROVE f[n] = Body(f)[n]
    <3>1. CASE n = 0
      BY <1>7, <3>1
    <3>2. CASE n # 0
      <4>1. f[n] = Onward(f[n - 1])
        <5>1. n \in 1 .. MaxAccounts
          BY <1>1, <3>2
        <5>. QED
          BY <1>8, <5>1
      <4>2. \A u \in Ids : Onward(f[n - 1])[u]
                = IF n = 0 \/ u \notin DOMAIN rows \/ rows[u].into = 0 THEN u
                  ELSE f[n - 1][rows[u].into]
        BY <1>4, <3>2
      <4>. QED
        BY <4>1, <4>2
    <3>. QED
      BY <3>1, <3>2
  <2>2. f = [n \in 0 .. MaxAccounts |-> f[n]]
    OBVIOUS
  <2>. QED
    BY <2>1, <2>2
<1>. DEFINE c == CHOOSE g : g = Body(g)
<1>10. c = Body(c)
  BY <1>9
<1>11. c = SurvivorIn(rows)
  BY DEF SurvivorIn
<1>. HIDE DEF c, Body
<1>12. \A u \in Ids : c[0][u] = u
  BY <1>1, <1>10, <1>15
<1>13. ASSUME NEW n \in 1 .. MaxAccounts, NEW u \in Ids
       PROVE  c[n][u] = IF next[u] = 0 THEN u ELSE c[n - 1][next[u]]
  <2>1. n \in 0 .. MaxAccounts /\ n # 0
    OBVIOUS
  <2>2. c[n][u] = IF n = 0 \/ u \notin DOMAIN rows \/ rows[u].into = 0 THEN u
                  ELSE c[n - 1][rows[u].into]
    BY <1>10, <1>15, <2>1
  <2>. QED
    BY <1>4, <2>1, <2>2
<1>14. c \in [0 .. MaxAccounts -> [Ids -> Ids]]
  <2>. DEFINE Typed == {n \in Nat : n <= MaxAccounts => c[n] \in [Ids -> Ids]}
  <2>1. c = [n \in 0 .. MaxAccounts |-> c[n]] /\ \A n \in 0 .. MaxAccounts : c[n] = [u \in Ids |-> c[n][u]]
    BY <1>10, <1>16
  <2>2. 0 \in Typed
    BY <1>1, <1>12, <2>1
  <2>3. ASSUME NEW n \in Nat, n \in Typed PROVE n + 1 \in Typed
    <3>. SUFFICES ASSUME n + 1 <= MaxAccounts PROVE c[n + 1] \in [Ids -> Ids]
      OBVIOUS
    <3>1. c[n] \in [Ids -> Ids] /\ n + 1 \in 1 .. MaxAccounts /\ (n + 1) - 1 = n
      BY <1>1, <2>3
    <3>2. ASSUME NEW u \in Ids PROVE c[n + 1][u] \in Ids
      <4>1. c[n + 1][u] = IF next[u] = 0 THEN u ELSE c[n][next[u]]
        BY <1>13, <3>1
      <4>2. next[u] # 0 => next[u] \in Ids
        BY <1>2 DEF Ids
      <4>. QED
        BY <3>1, <4>1, <4>2
    <3>3. c[n + 1] = [u \in Ids |-> c[n + 1][u]]
      <4>1. n + 1 \in 0 .. MaxAccounts
        BY <1>1, <3>1
      <4>. QED
        BY ONLY <2>1, <4>1, Zenon
    <3>. QED
      BY <3>2, <3>3
  <2>4. \A n \in Nat : n \in Typed
    <3>. HIDE DEF Typed
    <3>. QED
      BY <2>2, <2>3, ByInduction
  <2>. QED
    BY <2>1, <2>4
<1>. QED
  BY <1>11, <1>12, <1>13, <1>14 DEF Follows, next

-----------------------------------------------------------------------------

\* Only what next says matters.
LEMMA FollowsOne ==
    ASSUME NEW f, NEW g, NEW next \in [Ids -> 0 .. MaxAccounts],
           Follows(f, next), Follows(g, next)
    PROVE  \A n \in 0 .. MaxAccounts : \A u \in Ids : f[n][u] = g[n][u]
<1>. DEFINE Same == {n \in Nat : n <= MaxAccounts => \A u \in Ids : f[n][u] = g[n][u]}
<1>1. MaxAccounts \in Nat
  BY AccountsAssumption
<1>2. 0 \in Same
  BY DEF Follows
<1>3. ASSUME NEW n \in Nat, n \in Same PROVE n + 1 \in Same
  <2>. SUFFICES ASSUME n + 1 <= MaxAccounts, NEW u \in Ids PROVE f[n + 1][u] = g[n + 1][u]
    OBVIOUS
  <2>1. n + 1 \in 1 .. MaxAccounts /\ (n + 1) - 1 = n
    BY <1>1
  <2>2. /\ f[n + 1][u] = IF next[u] = 0 THEN u ELSE f[n][next[u]]
        /\ g[n + 1][u] = IF next[u] = 0 THEN u ELSE g[n][next[u]]
    BY <2>1 DEF Follows
  <2>3. next[u] # 0 => next[u] \in Ids
    BY DEF Ids
  <2>4. \A w \in Ids : f[n][w] = g[n][w]
    BY <1>1, <1>3
  <2>. QED
    BY <2>2, <2>3, <2>4
<1>4. \A n \in Nat : n \in Same
  <2>. HIDE DEF Same
  <2>. QED
    BY <1>2, <1>3, ByInduction
<1>. QED
  BY <1>1, <1>4

\* Where the way has ended, more steps lead nowhere else.
LEMMA EndsThere ==
    ASSUME NEW f, NEW next \in [Ids -> 0 .. MaxAccounts], Follows(f, next),
           NEW k \in 0 .. MaxAccounts, NEW u \in Ids, next[f[k][u]] = 0
    PROVE  \A n \in k .. MaxAccounts : f[n][u] = f[k][u]
<1>1. MaxAccounts \in Nat
  BY AccountsAssumption
\* One step more.
<1>. DEFINE Settled == {n \in Nat : n < MaxAccounts => \A w \in Ids :
                                      next[f[n][w]] = 0 => f[n + 1][w] = f[n][w]}
<1>2. \A n \in Nat : n < MaxAccounts =>
         \A w \in Ids : f[n + 1][w] = IF next[w] = 0 THEN w ELSE f[n][next[w]]
  BY <1>1 DEF Follows
<1>3. 0 \in Settled
  BY <1>2 DEF Follows
<1>4. ASSUME NEW n \in Nat, n \in Settled PROVE n + 1 \in Settled
  <2>. SUFFICES ASSUME n + 1 < MaxAccounts, NEW w \in Ids, next[f[n + 1][w]] = 0
                PROVE  f[(n + 1) + 1][w] = f[n + 1][w]
    OBVIOUS
  <2>1. n < MaxAccounts /\ n + 1 \in Nat
    BY <1>1
  <2>2. f[n + 1][w] = IF next[w] = 0 THEN w ELSE f[n][next[w]]
    BY <1>2, <2>1
  <2>3. f[(n + 1) + 1][w] = IF next[w] = 0 THEN w ELSE f[n + 1][next[w]]
    BY <1>2, <2>1
  <2>4. next[w] # 0 => next[w] \in Ids
    BY DEF Ids
  <2>5. next[w] # 0 => f[n + 1][next[w]] = f[n][next[w]]
    BY <1>4, <2>1, <2>2, <2>4
  <2>. QED
    BY <2>2, <2>3, <2>5
<1>5. \A n \in Nat : n \in Settled
  <2>. HIDE DEF Settled
  <2>. QED
    BY <1>3, <1>4, ByInduction
\* And so any number of steps.
<1>. DEFINE Stays == {n \in Nat : k + n <= MaxAccounts => f[k + n][u] = f[k][u]}
<1>6. 0 \in Stays
  BY <1>1
<1>7. ASSUME NEW n \in Nat, n \in Stays PROVE n + 1 \in Stays
  <2>. SUFFICES ASSUME k + (n + 1) <= MaxAccounts PROVE f[k + (n + 1)][u] = f[k][u]
    OBVIOUS
  <2>1. /\ k + n \in Nat /\ k + n < MaxAccounts /\ k + n <= MaxAccounts
        /\ k + (n + 1) = (k + n) + 1
    BY <1>1
  <2>2. f[k + n][u] = f[k][u]
    BY ONLY <1>7, <2>1
  <2>3. f[(k + n) + 1][u] = f[k + n][u]
    BY <1>5, <2>1, <2>2
  <2>. QED
    BY <2>1, <2>2, <2>3
<1>8. \A n \in Nat : n \in Stays
  <2>. HIDE DEF Stays
  <2>. QED
    BY <1>6, <1>7, ByInduction
<1>. SUFFICES ASSUME NEW n \in k .. MaxAccounts PROVE f[n][u] = f[k][u]
  OBVIOUS
<1>9. n - k \in Nat /\ k + (n - k) = n /\ n <= MaxAccounts
  BY <1>1
<1>10. k + (n - k) <= MaxAccounts => f[k + (n - k)][u] = f[k][u]
  BY <1>8, <1>9
<1>. QED
  BY ONLY <1>9, <1>10

LEMMA FollowsOnward ==
    ASSUME NEW f, NEW next, Follows(f, next)
    PROVE  \A n \in Nat : n < MaxAccounts =>
              \A w \in Ids : f[n + 1][w] = IF next[w] = 0 THEN w ELSE f[n][next[w]]
<1>. SUFFICES ASSUME NEW n \in Nat, n < MaxAccounts, NEW w \in Ids
              PROVE  f[n + 1][w] = IF next[w] = 0 THEN w ELSE f[n][next[w]]
  OBVIOUS
<1>1. n + 1 \in 1 .. MaxAccounts /\ (n + 1) - 1 = n
  BY AccountsAssumption
<1>. QED
  BY <1>1 DEF Follows

\* A merge of s into t, both alive: whoever led to s now leads to t.
LEMMA MergeRedirects ==
    ASSUME NEW f, NEW next \in [Ids -> 0 .. MaxAccounts], Follows(f, next),
           NEW s \in Ids, NEW t \in Ids, s # t, next[s] = 0, next[t] = 0,
           NEW after \in [Ids -> 0 .. MaxAccounts], after[s] = t,
           \A u \in Ids \ {s} : after[u] = next[u],
           NEW g, Follows(g, after)
    PROVE  \A n \in 0 .. MaxAccounts - 1 : \A u \in Ids :
              next[f[n][u]] = 0 => g[n + 1][u] = IF f[n][u] = s THEN t ELSE f[n][u]
<1>. DEFINE Moved(u) == IF u = s THEN t ELSE u
            Right == {n \in Nat : n < MaxAccounts => \A u \in Ids :
                                      next[f[n][u]] = 0 => g[n + 1][u] = Moved(f[n][u])}
<1>1. MaxAccounts \in Nat
  BY AccountsAssumption
<1>2. after \in [Ids -> 0 .. MaxAccounts] /\ after[s] = t /\ after[t] = 0
      /\ \A u \in Ids \ {s} : after[u] = next[u]
  BY DEF Ids
<1>3. /\ \A n \in Nat : n < MaxAccounts =>
             \A w \in Ids : f[n + 1][w] = IF next[w] = 0 THEN w ELSE f[n][next[w]]
      /\ \A n \in Nat : n < MaxAccounts =>
             \A w \in Ids : g[n + 1][w] = IF after[w] = 0 THEN w ELSE g[n][after[w]]
  BY FollowsOnward
<1>4. \A n \in Nat : n <= MaxAccounts => g[n][t] = t
  <2>. SUFFICES ASSUME NEW n \in Nat, n <= MaxAccounts PROVE g[n][t] = t
    OBVIOUS
  <2>1. g[0][t] = t
    BY DEF Follows
  <2>2. CASE n # 0
    <3>1. n \in 1 .. MaxAccounts
      BY <1>1, <2>2
    <3>. QED
      BY <1>2, <3>1 DEF Follows
  <2>. QED
    BY <2>1, <2>2
<1>5. \A n \in Nat : n < MaxAccounts => \A u \in Ids : next[u] = 0 => g[n + 1][u] = Moved(u)
  <2>. SUFFICES ASSUME NEW n \in Nat, n < MaxAccounts, NEW u \in Ids, next[u] = 0
                PROVE  g[n + 1][u] = Moved(u)
    OBVIOUS
  <2>1. g[n + 1][u] = IF after[u] = 0 THEN u ELSE g[n][after[u]]
    BY <1>3
  <2>2. g[n][t] = t
    BY <1>1, <1>4
  <2>3. CASE u = s
    <3>1. after[u] = t /\ t # 0
      BY <1>2, <2>3 DEF Ids
    <3>. QED
      BY <2>1, <2>2, <2>3, <3>1
  <2>4. CASE u # s
    <3>1. after[u] = 0
      BY <1>2, <2>4
    <3>. QED
      BY <2>1, <2>4, <3>1
  <2>. QED
    BY <2>3, <2>4
<1>6. 0 \in Right
  BY <1>5 DEF Follows
<1>7. ASSUME NEW n \in Nat, n \in Right PROVE n + 1 \in Right
  <2>. SUFFICES ASSUME n + 1 < MaxAccounts, NEW u \in Ids, next[f[n + 1][u]] = 0
                PROVE  g[(n + 1) + 1][u] = Moved(f[n + 1][u])
    OBVIOUS
  <2>1. n < MaxAccounts /\ n + 1 \in Nat
    BY <1>1
  <2>2. f[n + 1][u] = IF next[u] = 0 THEN u ELSE f[n][next[u]]
    BY <1>3, <2>1
  <2>3. CASE next[u] = 0
    BY <1>5, <2>1, <2>2, <2>3
  <2>4. CASE next[u] # 0
    <3>1. u # s /\ after[u] = next[u] /\ next[u] \in Ids
      BY <1>2, <2>4 DEF Ids
    <3>2. g[(n + 1) + 1][u] = g[n + 1][next[u]]
      BY <1>3, <2>1, <2>4, <3>1
    <3>3. next[f[n][next[u]]] = 0
      BY <2>2, <2>4
    <3>4. g[n + 1][next[u]] = Moved(f[n][next[u]])
      BY <1>7, <2>1, <3>1, <3>3
    <3>. QED
      BY <2>2, <2>4, <3>2, <3>4
  <2>. QED
    BY <2>3, <2>4
<1>8. \A n \in Nat : n \in Right
  <2>. HIDE DEF Right
  <2>. QED
    BY <1>6, <1>7, ByInduction
<1>. QED
  BY <1>1, <1>8

-----------------------------------------------------------------------------

\* A dead account is one of a merge that met something.
Settled(u) == Alive(u) \/ u \in entangled
Dead == {u \in DOMAIN user : user[u].into # 0}

AccountShape ==
    /\ AccountsTypeOK
    /\ Len(user) <= MaxAccounts
    /\ \A u \in DOMAIN user : user[u].into \in 0 .. Len(user)
    /\ \A v \in Visits : visit[v] \in 0 .. Len(user)
    /\ \A m \in Merges :
          \/ merge[m].source = 0 /\ merge[m].target = 0
          \/ /\ merge[m].source \in 1 .. Len(user) /\ merge[m].target \in 1 .. Len(user)
             /\ merge[m].source # merge[m].target
    /\ wanted \subseteq (1 .. Len(user)) \X Liked

\* What a request or a merge under way refers to is alive, or known to be entangled.
AccountsStand ==
    /\ OwnersAreAlive
    /\ \A v \in Visits : visit[v] # 0 => Settled(visit[v])
    /\ \A u \in DOMAIN user : opening[u] > 0 => Settled(u)
    /\ \A m \in Merges : merge[m].source # 0 =>
          \/ Alive(merge[m].source) /\ Alive(merge[m].target)
          \/ {merge[m].source, merge[m].target} \subseteq entangled

\* Whoever was absorbed leads to a live account, in at most as many steps as
\* accounts have been absorbed.
WaysEnd == \A u \in DOMAIN user : Alive(Survivor[Cardinality(Dead)][u])

\* Who has a second cart, or a first while another is on its way, is known.
CartsKnown ==
    \A u \in Ids : carts[u] > 1 \/ (carts[u] > 0 /\ opening[u] > 0)
                    => u \in entangled \cup rushed

AccountInv ==
    /\ AccountShape
    /\ AccountsStand
    /\ CartsKnown
    /\ entangled = {} => WaysEnd /\ WishesSurvive

LEMMA ShapeInit == AccountsInit => AccountInv
<1>. SUFFICES ASSUME AccountsInit PROVE AccountInv
  OBVIOUS
<1>1. user = << >> /\ Len(user) = 0 /\ DOMAIN user = {}
  BY DEF AccountsInit
<1>2. AccountsTypeOK
  BY <1>1, AccountsAssumption DEF AccountsInit, AccountsTypeOK, NoMerge, MergeOf
<1>3. AccountShape
  BY <1>1, <1>2, AccountsAssumption DEF AccountsInit, AccountShape, NoMerge
<1>4. AccountsStand
  BY <1>1, AccountsAssumption DEF AccountsInit, AccountsStand, OwnersAreAlive, NoMerge
<1>5. WaysEnd /\ WishesSurvive
  BY <1>1 DEF AccountsInit, WaysEnd, WishesSurvive
<1>6. CartsKnown
  BY DEF AccountsInit, CartsKnown
<1>. QED
  BY <1>3, <1>4, <1>5, <1>6 DEF AccountInv

LEMMA RowsAreRows ==
    ASSUME NEW rows \in [1 .. Len(user) -> UserRow], user \in Seq(UserRow)
    PROVE  rows \in Seq(UserRow) /\ Len(rows) = Len(user) /\ DOMAIN rows = 1 .. Len(user)
  BY LenProperties

\* What a merge makes of the two rows.
LEMMA MergedRows ==
    ASSUME user \in Seq(UserRow), NEW d \in MergeOf,
           d.source \in 1 .. Len(user), d.target \in 1 .. Len(user), d.source # d.target
    PROVE  /\ MergedUsers(d) \in [1 .. Len(user) -> UserRow]
           /\ MergedUsers(d)[d.source].into = d.target
           /\ \A u \in 1 .. Len(user) : u # d.source => MergedUsers(d)[u].into = user[u].into
<1>. DEFINE s == d.source
            t == d.target
            gives == IF d.sourcePhone # Nothing THEN Nothing ELSE user[s].phone
            takes == IF TakesPhone(d) THEN d.sourcePhone ELSE user[t].phone
<1>1. user \in [1 .. Len(user) -> UserRow]
  BY LenProperties
<1>2. MergedUsers(d) = [u \in 1 .. Len(user) |-> MergedUsers(d)[u]]
  BY <1>1 DEF MergedUsers
<1>3. user[s] \in UserRow /\ user[t] \in UserRow /\ s # t
  BY <1>1
<1>4. \A u \in 1 .. Len(user) : u # s /\ u # t => MergedUsers(d)[u] = user[u]
  BY <1>1 DEF MergedUsers
<1>5. MergedUsers(d)[s] = [user[s] EXCEPT !.into = t, !.phone = gives, !.email = Nothing]
  BY <1>1, <1>3 DEF MergedUsers, UserRow
<1>6. MergedUsers(d)[t] = [user[t] EXCEPT !.phone = takes]
  BY <1>1, <1>3 DEF MergedUsers
<1>7. MergedUsers(d)[s] \in UserRow /\ MergedUsers(d)[s].into = t
  BY <1>3, <1>5, AccountsAssumption DEF UserRow, MergeOf
<1>8. MergedUsers(d)[t] \in UserRow /\ MergedUsers(d)[t].into = user[t].into
  BY <1>3, <1>6 DEF UserRow, MergeOf
<1>9. \A u \in 1 .. Len(user) : MergedUsers(d)[u] \in UserRow
  BY <1>1, <1>4, <1>7, <1>8
<1>. QED
  BY <1>2, <1>4, <1>7, <1>8, <1>9

LEMMA MeetsAccounts ==
    ASSUME merge \in [Merges -> MergeOf], NEW m \in Merges
    PROVE  Meets(m) \subseteq Ids
<1>. DEFINE Pair(n) == {merge[n].source, merge[n].target} \ {0}
            others == {n \in Merges \ {m} : Pair(n) \cap Pair(m) # {}}
            busy == opening[merge[m].source] > 0 \/ \E v \in Visits : visit[v] = merge[m].source
            mine == IF others # {} \/ busy THEN Pair(m) ELSE {}
<1>1. \A n \in Merges : Pair(n) \subseteq Ids
  <2>. SUFFICES ASSUME NEW n \in Merges PROVE Pair(n) \subseteq Ids
    OBVIOUS
  <2>1. merge[n].source \in 0 .. MaxAccounts /\ merge[n].target \in 0 .. MaxAccounts
    BY DEF MergeOf
  <2>. QED
    BY <2>1, AccountsAssumption DEF Ids
<1>. HIDE DEF Pair
<1>2. UNION {Pair(n) : n \in others} \subseteq Ids
  BY ONLY <1>1, Zenon
<1>3. mine \subseteq Ids
  BY <1>1
<1>. USE DEF Pair
<1>. DEFINE theirs == UNION {Pair(n) : n \in others}
<1>4. theirs \cup mine \subseteq Ids
  <2>. HIDE DEF mine, others, Pair
  <2>. QED
    BY <1>2, <1>3
<1>5. Meets(m) = theirs \cup mine
  BY DEF Meets
<1>. QED
  BY <1>4, <1>5

LEMMA ShapeStep == AccountShape /\ [AccountsNext]_accountVars => AccountShape'
<1>. SUFFICES ASSUME AccountShape, [AccountsNext]_accountVars PROVE AccountShape'
  OBVIOUS
<1>0. MaxAccounts \in Nat /\ AccountsTypeOK
  BY AccountsAssumption DEF AccountShape
<1>. USE <1>0 DEF AccountShape, AccountsTypeOK, cartVars
<1>1. ASSUME NEW row \in UserRow, row.into = 0, NewUser(row) PROVE AccountShape'
  <2>1. /\ user' = Append(user, row) /\ Len(user) < MaxAccounts
        /\ UNCHANGED << owner, wishes, carts, opening, rushed, visit, merge, wanted, entangled >>
    BY <1>1 DEF NewUser
  <2>2. user' \in Seq(UserRow) /\ Len(user') = Len(user) + 1
    BY <2>1
  <2>3. \A u \in DOMAIN user' : user'[u].into \in 0 .. Len(user')
    BY <1>1, <2>1, <2>2
  <2>. QED
    BY <2>1, <2>2, <2>3
<1>2. ASSUME NEW ph \in Phones, NEW u \in DOMAIN user, SetPhone(u, ph) PROVE AccountShape'
  <2>1. /\ user' = [user EXCEPT ![u].phone = ph]
        /\ UNCHANGED << owner, wishes, carts, opening, rushed, visit, merge, wanted, entangled >>
    BY <1>2 DEF SetPhone
  <2>2. user' \in Seq(UserRow) /\ Len(user') = Len(user)
    <3>1. user \in [1 .. Len(user) -> UserRow]
      BY LenProperties
    <3>2. user' \in [1 .. Len(user) -> UserRow]
      BY <2>1, <3>1 DEF UserRow
    <3>. QED
      BY <3>2, RowsAreRows
  <2>3. \A w \in DOMAIN user' : user'[w].into = user[w].into
    BY <2>1
  <2>. QED
    BY <2>1, <2>2, <2>3
<1>3. ASSUME NEW v \in Visits, NEW u \in DOMAIN user, BeginVisit(v, u) PROVE AccountShape'
  <2>1. /\ visit' = [visit EXCEPT ![v] = u]
        /\ UNCHANGED << user, owner, wishes, carts, opening, rushed, merge, wanted, entangled >>
    BY <1>3 DEF BeginVisit
  <2>2. u \in 0 .. Len(user) /\ u \in 0 .. MaxAccounts
    OBVIOUS
  <2>3. visit' \in [Visits -> 0 .. MaxAccounts] /\ \A w \in Visits : visit'[w] \in 0 .. Len(user)
    BY <2>1, <2>2
  <2>. QED
    BY <2>1, <2>3
<1>4. ASSUME NEW v \in Visits, NEW g \in Goods, Acquire(v, g) PROVE AccountShape'
  BY <1>4 DEF Acquire, EndVisit
<1>5. ASSUME NEW v \in Visits, NEW x \in Liked, AddWish(v, x) PROVE AccountShape'
  <2>1. visit[v] \in 1 .. Len(user) /\ visit[v] \in Ids
    BY <1>5 DEF AddWish, EndVisit, Ids
  <2>. QED
    BY <1>5, <2>1 DEF AddWish, EndVisit
<1>6. ASSUME NEW v \in Visits, NEW x \in Liked, RemoveWish(v, x) PROVE AccountShape'
  BY <1>6 DEF RemoveWish, EndVisit
<1>7. ASSUME NEW v \in Visits, FindCart(v) PROVE AccountShape'
  BY <1>7 DEF FindCart, EndVisit
<1>70. ASSUME NEW v \in Visits, FindNoCart(v) PROVE AccountShape'
  <2>1. opening' = [opening EXCEPT ![visit[v]] = @ + 1] /\ opening \in [Ids -> Nat]
    BY <1>70 DEF FindNoCart
  <2>2. \A u \in Ids : opening'[u] \in {opening[u], opening[u] + 1}
    BY <2>1
  <2>3. opening' \in [Ids -> Nat]
    <3>1. opening' = [u \in Ids |-> opening'[u]]
      BY <2>1
    <3>2. \A u \in Ids : opening'[u] \in Nat
      BY <2>1, <2>2
    <3>. QED
      BY ONLY <3>1, <3>2
  <2>. QED
    BY <1>70, <2>3 DEF FindNoCart, EndVisit
<1>71. ASSUME NEW u \in DOMAIN user, OpenCart(u) PROVE AccountShape'
  <2>1. u \in Ids
    BY DEF Ids
  <2>2. opening' \in [Ids -> Nat] /\ carts' \in [Ids -> Nat]
    BY <1>71, <2>1 DEF OpenCart
  <2>. QED
    BY <1>71, <2>1, <2>2 DEF OpenCart
<1>8. ASSUME NEW m \in Merges, NEW s \in DOMAIN user, NEW t \in DOMAIN user, BeginMerge(m, s, t)
      PROVE  AccountShape'
  <2>1. /\ merge' = [merge EXCEPT ![m] = [source |-> s, target |-> t, sourcePhone |-> user[s].phone,
                                          targetPhone |-> user[t].phone]]
        /\ UNCHANGED << user, owner, wishes, carts, opening, rushed, visit, wanted, entangled >>
        /\ s # t
    BY <1>8 DEF BeginMerge
  <2>2. merge' \in [Merges -> MergeOf]
    <3>1. user[s] \in UserRow /\ user[t] \in UserRow /\ s \in 0 .. MaxAccounts /\ t \in 0 .. MaxAccounts
      BY LenProperties
    <3>2. [source |-> s, target |-> t, sourcePhone |-> user[s].phone,
           targetPhone |-> user[t].phone] \in MergeOf
      BY <3>1 DEF MergeOf, UserRow
    <3>. QED
      BY <2>1, <3>2
  <2>. QED
    BY <2>1, <2>2
<1>9. ASSUME NEW m \in Merges, FinishMerge(m) PROVE AccountShape'
  <2>. DEFINE d == merge[m]
  <2>1. /\ user' = MergedUsers(d) /\ owner' = MovedGoods(d) /\ wishes' = MergedWishes(d)
        /\ carts' = MergedCarts(d) /\ merge' = [merge EXCEPT ![m] = NoMerge]
        /\ entangled' = entangled \cup Meets(m) /\ UNCHANGED << visit, wanted >>
        /\ d.source # 0
    BY <1>9 DEF FinishMerge
  <2>2. d \in MergeOf /\ d.source \in DOMAIN user /\ d.target \in DOMAIN user /\ d.source # d.target
        /\ d.source \in Ids /\ d.target \in Ids
    BY <2>1 DEF MergeOf, Ids
  <2>20. /\ MergedUsers(d) \in [1 .. Len(user) -> UserRow]
         /\ MergedUsers(d)[d.source].into = d.target
         /\ \A u \in 1 .. Len(user) : u # d.source => MergedUsers(d)[u].into = user[u].into
    BY <2>2, MergedRows
  <2>3. user' \in Seq(UserRow) /\ Len(user') = Len(user)
    BY <2>1, <2>2, <2>20, RowsAreRows
  <2>4. \A u \in DOMAIN user' : user'[u].into \in 0 .. Len(user')
    BY <2>1, <2>2, <2>3, <2>20
  <2>5. owner' \in [Goods -> 0 .. MaxAccounts]
    BY <2>1, <2>2 DEF MovedGoods, Ids
  <2>6. wishes' \subseteq Ids \X Liked
    BY <2>1, <2>2 DEF MergedWishes
  <2>7. carts' \in [Ids -> Nat]
    BY <2>1, <2>2 DEF MergedCarts
  <2>8. Meets(m) \subseteq Ids
    BY MeetsAccounts DEF MergeOf
  <2>9. NoMerge \in MergeOf /\ NoMerge.source = 0 /\ NoMerge.target = 0
    BY DEF NoMerge, MergeOf
  <2>10. merge' \in [Merges -> MergeOf]
    BY <2>1, <2>9
  <2>11. \A n \in Merges : merge'[n] = merge[n] \/ (merge'[n].source = 0 /\ merge'[n].target = 0)
    BY <2>1, <2>9
  <2>12. AccountsTypeOK'
    <3>1. entangled' \subseteq Ids /\ visit' \in [Visits -> 0 .. MaxAccounts] /\ wanted' \subseteq Ids \X Liked
      BY <2>1, <2>8
    <3>2. rushed' \subseteq Ids /\ opening' \in [Ids -> Nat]
      BY <1>9, <2>2 DEF FinishMerge
    <3>. QED
      BY <2>3, <2>5, <2>6, <2>7, <2>10, <3>1, <3>2
  <2>. QED
    BY <2>1, <2>3, <2>4, <2>7, <2>11, <2>12
<1>10. ASSUME NEW m \in Merges, DropMerge(m) PROVE AccountShape'
  BY <1>10 DEF DropMerge, NoMerge, MergeOf
<1>11. CASE UNCHANGED accountVars
  BY <1>11 DEF accountVars
<1>12. ASSUME NEW ph \in Phones, WhatsAppUser(ph) PROVE AccountShape'
  <2>1. [phone |-> ph, email |-> Nothing, into |-> 0] \in UserRow
    BY DEF UserRow
  <2>. QED
    BY <1>1, <1>12, <2>1 DEF WhatsAppUser
<1>13. ASSUME NEW e \in Emails, GoogleUser(e) PROVE AccountShape'
  <2>1. [phone |-> Nothing, email |-> e, into |-> 0] \in UserRow
    BY DEF UserRow
  <2>. QED
    BY <1>1, <1>13, <2>1 DEF GoogleUser
<1>. QED
  BY <1>2, <1>3, <1>4, <1>5, <1>6, <1>7, <1>70, <1>71, <1>8, <1>9, <1>10, <1>11, <1>12, <1>13 DEF AccountsNext

-----------------------------------------------------------------------------

LEMMA MeetsWho ==
    ASSUME AccountShape, NEW m \in Merges, merge[m].source # 0
    PROVE  /\ \A n \in Merges \ {m} :
                 merge[n].source # 0 /\ merge[m].source \in {merge[n].source, merge[n].target}
                    => {merge[n].source, merge[n].target} \subseteq Meets(m)
           /\ \A v \in Visits : visit[v] = merge[m].source => merge[m].source \in Meets(m)
           /\ opening[merge[m].source] > 0 => merge[m].source \in Meets(m)
<1>. DEFINE Pair(n) == {merge[n].source, merge[n].target} \ {0}
            others == {n \in Merges \ {m} : Pair(n) \cap Pair(m) # {}}
            busy == opening[merge[m].source] > 0 \/ \E v \in Visits : visit[v] = merge[m].source
            mine == IF others # {} \/ busy THEN Pair(m) ELSE {}
<1>1. Meets(m) = (UNION {Pair(n) : n \in others}) \cup mine
  BY DEF Meets
<1>2. ASSUME NEW v \in Visits, visit[v] = merge[m].source PROVE merge[m].source \in Meets(m)
  BY <1>1, <1>2
<1>20. ASSUME opening[merge[m].source] > 0 PROVE merge[m].source \in Meets(m)
  BY <1>1, <1>20
<1>3. ASSUME NEW n \in Merges \ {m}, merge[n].source # 0,
             merge[m].source \in {merge[n].source, merge[n].target}
      PROVE  {merge[n].source, merge[n].target} \subseteq Meets(m)
  <2>1. merge[n].target # 0
    BY <1>3 DEF AccountShape
  <2>2. n \in others
    BY <1>3
  <2>3. Pair(n) = {merge[n].source, merge[n].target}
    BY <1>3, <2>1
  <2>. HIDE DEF Pair, others, mine
  <2>4. Pair(n) \in {Pair(k) : k \in others}
    BY <2>2
  <2>. QED
    BY <1>1, <2>3, <2>4
<1>. QED
  BY <1>2, <1>20, <1>3

\* What a merge under way writes.
LEMMA MergeWrites ==
    ASSUME AccountShape, NEW m \in Merges, FinishMerge(m)
    PROVE  /\ merge[m].source \in 1 .. Len(user) /\ merge[m].target \in 1 .. Len(user)
           /\ merge[m].source # merge[m].target
           /\ user' \in Seq(UserRow) /\ Len(user') = Len(user) /\ DOMAIN user' = DOMAIN user
           /\ DOMAIN user = 1 .. Len(user)
           /\ \A u \in DOMAIN user :
                 user'[u].into = IF u = merge[m].source THEN merge[m].target ELSE user[u].into
           /\ merge'[m] = NoMerge /\ \A n \in Merges \ {m} : merge'[n] = merge[n]
           /\ entangled' = entangled \cup Meets(m)
<1>. DEFINE d == merge[m]
<1>1. /\ user' = MergedUsers(d) /\ merge' = [merge EXCEPT ![m] = NoMerge]
      /\ entangled' = entangled \cup Meets(m) /\ d.source # 0
  BY DEF FinishMerge
<1>2. d \in MergeOf /\ d.source \in 1 .. Len(user) /\ d.target \in 1 .. Len(user)
      /\ d.source # d.target /\ user \in Seq(UserRow) /\ merge \in [Merges -> MergeOf]
  BY <1>1 DEF AccountShape, AccountsTypeOK
<1>. HIDE DEF d
<1>3. /\ MergedUsers(d) \in [1 .. Len(user) -> UserRow]
      /\ MergedUsers(d)[d.source].into = d.target
      /\ \A u \in 1 .. Len(user) : u # d.source => MergedUsers(d)[u].into = user[u].into
  BY <1>2, MergedRows
<1>4. user' \in Seq(UserRow) /\ Len(user') = Len(user) /\ DOMAIN user' = 1 .. Len(user)
  BY <1>1, <1>2, <1>3, RowsAreRows
<1>5. merge'[m] = NoMerge /\ \A n \in Merges \ {m} : merge'[n] = merge[n]
  BY <1>1, <1>2
<1>. QED
  BY <1>1, <1>2, <1>3, <1>4, <1>5 DEF d

\* Steps that leave the rows' into alone.
LEMMA StandSame ==
    ASSUME AccountShape, AccountsStand, UNCHANGED << owner, carts, opening, visit, merge, entangled >>,
           \A u \in DOMAIN user : u \in DOMAIN user' /\ user'[u].into = user[u].into,
           \A u \in DOMAIN user' \ DOMAIN user : user'[u].into = 0
    PROVE  AccountsStand'
<1>1. \A u : Alive(u) => Alive(u)'
  BY DEF Alive
<1>2. \A u \in DOMAIN user' \ DOMAIN user : Alive(u)'
  BY DEF Alive
<1>3. \A u \in DOMAIN user' : carts'[u] # 0 => Alive(u)' \/ u \in entangled'
  BY <1>1, <1>2 DEF AccountsStand, OwnersAreAlive
<1>4. \A g \in Goods : owner'[g] # 0 => Alive(owner[g])' \/ owner'[g] \in entangled'
  BY <1>1 DEF AccountsStand, OwnersAreAlive
<1>5. \A v \in Visits : visit[v] # 0 => Alive(visit[v])' \/ visit[v] \in entangled
  BY <1>1 DEF AccountsStand, Settled
<1>6. \A m \in Merges : merge[m].source # 0 =>
          \/ Alive(merge[m].source)' /\ Alive(merge[m].target)'
          \/ {merge[m].source, merge[m].target} \subseteq entangled
  BY <1>1 DEF AccountsStand
<1>7. /\ \A g \in Goods : owner'[g] = owner[g]
      /\ \A v \in Visits : visit'[v] = visit[v]
      /\ \A m \in Merges : merge'[m] = merge[m]
      /\ entangled' = entangled /\ opening' = opening
  OBVIOUS
<1>8. \A u, w : u = w /\ Alive(u)' => Alive(w)'
  BY DEF Alive
<1>10. \A u \in DOMAIN user' : opening'[u] > 0 => Alive(u)' \/ u \in entangled'
  BY <1>1, <1>2 DEF AccountsStand, Settled
<1>9. OwnersAreAlive'
  BY <1>3, <1>4, <1>7, <1>8 DEF OwnersAreAlive
<1>. QED
  BY <1>5, <1>6, <1>7, <1>8, <1>9, <1>10 DEF AccountsStand, Settled

LEMMA StandStep == AccountShape /\ AccountsStand /\ [AccountsNext]_accountVars => AccountsStand'
<1>. SUFFICES ASSUME AccountShape, AccountsStand, [AccountsNext]_accountVars PROVE AccountsStand'
  OBVIOUS
<1>0. /\ AccountsTypeOK /\ MaxAccounts \in Nat
      /\ \A g \in Goods : owner[g] # 0 => Settled(owner[g])
      /\ \A u \in DOMAIN user : carts[u] # 0 => Settled(u)
      /\ \A v \in Visits : visit[v] # 0 => Settled(visit[v])
      /\ \A u \in DOMAIN user : opening[u] > 0 => Settled(u)
      /\ \A m \in Merges : merge[m].source # 0 =>
            \/ Alive(merge[m].source) /\ Alive(merge[m].target)
            \/ {merge[m].source, merge[m].target} \subseteq entangled
  BY AccountsAssumption DEF AccountShape, AccountsStand, OwnersAreAlive, Settled
<1>. DEFINE Same == user' = user /\ entangled' = entangled
\* Requests leave the rows of users alone.
<1>1. ASSUME Same PROVE \A u : Settled(u) => Settled(u)'
  BY <1>1 DEF Settled, Alive
<1>2. ASSUME NEW ph \in Phones, NEW u \in DOMAIN user, SetPhone(u, ph) PROVE AccountsStand'
  <2>1. /\ user' = [user EXCEPT ![u].phone = ph]
        /\ UNCHANGED << owner, carts, opening, visit, merge, entangled >>
    BY <1>2 DEF SetPhone, cartVars
  <2>2. DOMAIN user' = DOMAIN user /\ \A w \in DOMAIN user : user'[w].into = user[w].into
    BY <2>1
  <2>. QED
    BY <2>1, <2>2, StandSame
<1>3. ASSUME NEW row \in UserRow, row.into = 0, NewUser(row) PROVE AccountsStand'
  <2>1. /\ user' = Append(user, row) /\ user \in Seq(UserRow)
        /\ UNCHANGED << owner, carts, opening, visit, merge, entangled >>
    BY <1>0, <1>3 DEF NewUser, AccountsTypeOK, cartVars
  <2>2. /\ \A w \in DOMAIN user : w \in DOMAIN user' /\ user'[w].into = user[w].into
        /\ \A w \in DOMAIN user' \ DOMAIN user : user'[w].into = 0
    BY <1>3, <2>1
  <2>. QED
    BY <2>1, <2>2, StandSame
<1>4. ASSUME NEW ph \in Phones, WhatsAppUser(ph) PROVE AccountsStand'
  <2>1. [phone |-> ph, email |-> Nothing, into |-> 0] \in UserRow
    BY <1>0 DEF UserRow
  <2>. QED
    BY <1>3, <1>4, <2>1 DEF WhatsAppUser
<1>5. ASSUME NEW e \in Emails, GoogleUser(e) PROVE AccountsStand'
  <2>1. [phone |-> Nothing, email |-> e, into |-> 0] \in UserRow
    BY <1>0 DEF UserRow
  <2>. QED
    BY <1>3, <1>5, <2>1 DEF GoogleUser
<1>6. ASSUME Same, \A g \in Goods : owner'[g] # 0 => Settled(owner'[g]),
             \A u \in DOMAIN user : carts'[u] # 0 => Settled(u),
             \A u \in DOMAIN user : opening'[u] > 0 => Settled(u),
             \A v \in Visits : visit'[v] # 0 => Settled(visit'[v]),
             \A m \in Merges : merge'[m].source # 0 =>
                \/ Alive(merge'[m].source) /\ Alive(merge'[m].target)
                \/ {merge'[m].source, merge'[m].target} \subseteq entangled
      PROVE  AccountsStand'
  BY <1>6 DEF AccountsStand, OwnersAreAlive, Settled, Alive
<1>7. ASSUME NEW v \in Visits, NEW u \in DOMAIN user, BeginVisit(v, u) PROVE AccountsStand'
  <2>1. Settled(u)
    BY <1>7 DEF BeginVisit, Settled
  <2>2. \A w \in Visits : visit'[w] = visit[w] \/ visit'[w] = u
    BY <1>0, <1>7 DEF BeginVisit, AccountsTypeOK
  <2>3. \A w \in Visits : visit'[w] # 0 => Settled(visit'[w])
    BY <1>0, <2>1, <2>2
  <2>. QED
    BY <1>0, <1>6, <1>7, <2>3 DEF BeginVisit, cartVars
<1>8. ASSUME NEW v \in Visits, EndVisit(v)
      PROVE  /\ Settled(visit[v]) /\ visit[v] \in Ids
             /\ \A w \in Visits : visit'[w] # 0 => Settled(visit'[w])
  <2>1. \A w \in Visits : visit'[w] = visit[w] \/ visit'[w] = 0
    BY <1>0, <1>8 DEF EndVisit, AccountsTypeOK
  <2>2. Settled(visit[v]) /\ visit[v] \in Ids
    BY <1>0, <1>8 DEF EndVisit, AccountsTypeOK, Ids
  <2>3. \A w \in Visits : visit'[w] # 0 => Settled(visit'[w])
    BY <1>0, <2>1
  <2>. QED
    BY <2>2, <2>3
<1>9. ASSUME NEW v \in Visits, NEW g \in Goods, Acquire(v, g) PROVE AccountsStand'
  <2>1. EndVisit(v) /\ owner' = [owner EXCEPT ![g] = visit[v]]
        /\ UNCHANGED << user, carts, opening, merge, entangled >>
    BY <1>9 DEF Acquire, cartVars
  <2>2. \A h \in Goods : owner'[h] = owner[h] \/ owner'[h] = visit[v]
    BY <1>0, <2>1 DEF AccountsTypeOK
  <2>3. \A h \in Goods : owner'[h] # 0 => Settled(owner'[h])
    BY <1>0, <1>8, <2>1, <2>2
  <2>. QED
    BY <1>0, <1>6, <1>8, <2>1, <2>3
<1>10. ASSUME NEW v \in Visits, EndVisit(v),
              UNCHANGED << user, owner, carts, opening, merge, entangled >>
       PROVE  AccountsStand'
  BY <1>0, <1>6, <1>8, <1>10
<1>11. ASSUME NEW v \in Visits, NEW x \in Liked, AddWish(v, x) \/ RemoveWish(v, x)
       PROVE  AccountsStand'
  BY <1>10, <1>11 DEF AddWish, RemoveWish, cartVars
<1>110. ASSUME NEW v \in Visits, FindCart(v) PROVE AccountsStand'
  BY <1>10, <1>110 DEF FindCart, cartVars
<1>111. ASSUME NEW v \in Visits, FindNoCart(v) PROVE AccountsStand'
  <2>1. EndVisit(v) /\ opening' = [opening EXCEPT ![visit[v]] = @ + 1]
        /\ UNCHANGED << user, owner, carts, merge, entangled >>
    BY <1>111 DEF FindNoCart
  <2>2. \A u \in DOMAIN user : opening'[u] # opening[u] => u = visit[v]
    BY <1>0, <2>1 DEF AccountsTypeOK, AccountShape, Ids
  <2>3. \A u \in DOMAIN user : opening'[u] > 0 => Settled(u)
    BY <1>0, <1>8, <2>1, <2>2
  <2>. QED
    BY <1>0, <1>6, <1>8, <2>1, <2>3
<1>12. ASSUME NEW v \in DOMAIN user, OpenCart(v) PROVE AccountsStand'
  <2>1. /\ opening[v] > 0 /\ carts' = [carts EXCEPT ![v] = @ + 1]
        /\ opening' = [opening EXCEPT ![v] = @ - 1]
        /\ UNCHANGED << user, owner, visit, merge, entangled >>
    BY <1>12 DEF OpenCart
  <2>2. Settled(v)
    BY <1>0, <2>1
  <2>3. \A u \in DOMAIN user : u # v => carts'[u] = carts[u] /\ opening'[u] = opening[u]
    BY <1>0, <2>1 DEF AccountsTypeOK, AccountShape, Ids
  <2>4. \A u \in DOMAIN user : (carts'[u] # 0 => Settled(u)) /\ (opening'[u] > 0 => Settled(u))
    BY <1>0, <2>2, <2>3
  <2>. QED
    BY <1>0, <1>6, <2>1, <2>4
<1>13. ASSUME NEW m \in Merges, NEW s \in DOMAIN user, NEW t \in DOMAIN user, BeginMerge(m, s, t)
       PROVE  AccountsStand'
  <2>1. /\ Alive(s) /\ Alive(t) /\ UNCHANGED << user, owner, carts, opening, visit, entangled >>
    BY <1>13 DEF BeginMerge, cartVars
  <2>2. \A n \in Merges : merge'[n] = merge[n] \/ (merge'[n].source = s /\ merge'[n].target = t)
    BY <1>0, <1>13 DEF BeginMerge, AccountsTypeOK
  <2>. QED
    BY <1>0, <1>6, <2>1, <2>2
<1>14. ASSUME NEW m \in Merges, DropMerge(m) PROVE AccountsStand'
  <2>1. UNCHANGED << user, owner, carts, opening, visit, entangled >>
    BY <1>14 DEF DropMerge, cartVars
  <2>2. \A n \in Merges : merge'[n] = merge[n] \/ merge'[n].source = 0
    BY <1>0, <1>14 DEF DropMerge, NoMerge, AccountsTypeOK
  <2>. QED
    BY <1>0, <1>6, <2>1, <2>2
<1>15. ASSUME NEW m \in Merges, FinishMerge(m) PROVE AccountsStand'
  <2>0. PICK s, t : s = merge[m].source /\ t = merge[m].target
    OBVIOUS
  <2>. DEFINE Lives(u) == u \in DOMAIN user' /\ user'[u].into = 0
              Stands(u) == Lives(u) \/ u \in entangled'
  <2>1. /\ s \in 1 .. Len(user) /\ t \in 1 .. Len(user) /\ s # t
        /\ DOMAIN user' = DOMAIN user /\ DOMAIN user = 1 .. Len(user)
        /\ \A u \in DOMAIN user : user'[u].into = IF u = s THEN t ELSE user[u].into
        /\ merge'[m] = NoMerge /\ \A n \in Merges \ {m} : merge'[n] = merge[n]
        /\ entangled' = entangled \cup Meets(m)
    BY <1>15, <2>0, MergeWrites
  <2>2. /\ \A n \in Merges \ {m} :
              merge[n].source # 0 /\ s \in {merge[n].source, merge[n].target}
                 => {merge[n].source, merge[n].target} \subseteq Meets(m)
        /\ \A v \in Visits : visit[v] = s => s \in Meets(m)
        /\ opening[s] > 0 => s \in Meets(m)
    BY <2>0, <2>1, MeetsWho
  <2>3. owner' = MovedGoods(merge[m]) /\ carts' = MergedCarts(merge[m]) /\ visit' = visit
        /\ opening' = opening
    BY <1>15 DEF FinishMerge
  <2>4. /\ \A g \in Goods : owner'[g] = IF owner[g] = s THEN t ELSE owner[g]
        /\ \A u \in DOMAIN user : carts'[u] # 0 => u = t \/ (u # s /\ carts[u] # 0)
    BY <1>0, <2>0, <2>1, <2>3 DEF MovedGoods, MergedCarts, Ids, AccountsTypeOK, AccountShape
  <2>5. (Alive(s) /\ Alive(t)) \/ {s, t} \subseteq entangled
    BY <1>0, <2>0, <2>1
  <2>6. \A u : Settled(u) /\ u # s => Stands(u)
    BY <2>1 DEF Settled, Alive
  <2>7. Stands(t)
    BY <2>1, <2>5 DEF Alive
  <2>. HIDE DEF Stands
  <2>8. \A g \in Goods : owner'[g] # 0 => Stands(owner'[g])
    BY <1>0, <2>4, <2>6, <2>7
  <2>9. \A u \in DOMAIN user' : carts'[u] # 0 => Stands(u)
    BY <1>0, <2>1, <2>4, <2>6, <2>7
  <2>10. \A v \in Visits : visit[v] # 0 => Stands(visit[v])
    <3>1. \A v \in Visits : visit[v] = s => visit[v] \in entangled'
      BY <2>1, <2>2
    <3>. QED
      BY <1>0, <2>6, <3>1 DEF Stands
  <2>11. \A n \in Merges : merge'[n].source # 0 =>
            \/ Lives(merge'[n].source) /\ Lives(merge'[n].target)
            \/ {merge'[n].source, merge'[n].target} \subseteq entangled'
    <3>1. merge'[m].source = 0
      BY <2>1 DEF NoMerge
    <3>2. ASSUME NEW n \in Merges \ {m}, merge[n].source # 0
          PROVE  \/ Lives(merge[n].source) /\ Lives(merge[n].target)
                 \/ {merge[n].source, merge[n].target} \subseteq entangled'
      <4>1. CASE s \in {merge[n].source, merge[n].target}
        BY <2>1, <2>2, <3>2, <4>1
      <4>2. CASE s \notin {merge[n].source, merge[n].target}
        BY <1>0, <2>1, <3>2, <4>2 DEF Alive
      <4>. QED
        BY <4>1, <4>2
    <3>. HIDE DEF Lives
    <3>. QED
      BY <2>1, <3>1, <3>2
  <2>12. \A u \in DOMAIN user' : opening[u] > 0 => Stands(u)
    <3>1. opening[s] > 0 => Stands(s)
      BY <2>1, <2>2 DEF Stands
    <3>. QED
      BY <1>0, <2>1, <2>6, <3>1
  <2>. QED
    BY <2>3, <2>8, <2>9, <2>10, <2>11, <2>12 DEF AccountsStand, OwnersAreAlive, Settled, Alive, Stands
<1>16. CASE UNCHANGED accountVars
  BY <1>0, <1>6, <1>16 DEF accountVars, cartVars
<1>. QED
  BY <1>2, <1>4, <1>5, <1>7, <1>9, <1>11, <1>110, <1>111, <1>12, <1>13, <1>14, <1>15, <1>16 DEF AccountsNext

\* A second cart is opened only where carts are already known to race.
LEMMA CartsStep == AccountShape /\ CartsKnown /\ [AccountsNext]_accountVars => CartsKnown'
<1>. SUFFICES ASSUME AccountShape, CartsKnown, [AccountsNext]_accountVars PROVE CartsKnown'
  OBVIOUS
<1>0. /\ carts \in [Ids -> Nat] /\ opening \in [Ids -> Nat]
      /\ \A u \in Ids : carts[u] > 1 \/ (carts[u] > 0 /\ opening[u] > 0)
                          => u \in entangled \cup rushed
  BY DEF AccountShape, AccountsTypeOK, CartsKnown
<1>1. ASSUME UNCHANGED << carts, opening, rushed, entangled >> PROVE CartsKnown'
  BY <1>0, <1>1 DEF CartsKnown
<1>2. ASSUME NEW v \in Visits, FindNoCart(v) PROVE CartsKnown'
  <2>1. /\ carts[visit[v]] = 0 /\ opening' = [opening EXCEPT ![visit[v]] = @ + 1]
        /\ UNCHANGED << carts, rushed, entangled >>
    BY <1>2 DEF FindNoCart
  <2>2. \A u \in Ids : carts[u] > 0 => opening'[u] = opening[u]
    BY <1>0, <2>1
  <2>. QED
    BY <1>0, <2>1, <2>2 DEF CartsKnown
<1>3. ASSUME NEW v \in DOMAIN user, OpenCart(v) PROVE CartsKnown'
  <2>1. /\ opening[v] > 0 /\ carts' = [carts EXCEPT ![v] = @ + 1]
        /\ opening' = [opening EXCEPT ![v] = @ - 1]
        /\ rushed' = rushed \cup (IF opening[v] > 1 THEN {v} ELSE {})
        /\ UNCHANGED entangled
    BY <1>3 DEF OpenCart
  <2>2. \A u \in Ids : u # v => carts'[u] = carts[u] /\ opening'[u] = opening[u]
    BY <1>0, <2>1
  <2>3. ASSUME NEW u \in Ids, carts'[u] > 1 \/ (carts'[u] > 0 /\ opening'[u] > 0)
        PROVE  u \in entangled' \cup rushed'
    <3>1. CASE u # v
      BY <1>0, <2>1, <2>2, <2>3, <3>1
    <3>2. CASE u = v /\ carts[v] > 0
      BY <1>0, <2>1, <3>2
    <3>3. CASE u = v /\ carts[v] = 0
      BY <1>0, <2>1, <2>3, <3>3
    <3>. QED
      BY <1>0, <3>1, <3>2, <3>3
  <2>. QED
    BY <2>3 DEF CartsKnown
<1>4. ASSUME NEW m \in Merges, FinishMerge(m) PROVE CartsKnown'
  <2>0. PICK s, t : s = merge[m].source /\ t = merge[m].target
    OBVIOUS
  <2>1. /\ carts' = [carts EXCEPT ![t] = IF carts[s] + carts[t] > 0 THEN 1 ELSE 0, ![s] = 0]
        /\ entangled \subseteq entangled' /\ UNCHANGED opening
        /\ rushed' = rushed \cup (IF opening[t] > 0 THEN {t} ELSE {})
    BY <1>4, <2>0 DEF FinishMerge, MergedCarts
  <2>2. \A u \in Ids : carts'[u] = IF u = s THEN 0
                                      ELSE IF u = t THEN (IF carts[s] + carts[t] > 0 THEN 1 ELSE 0)
                                      ELSE carts[u]
    BY <1>0, <2>1
  <2>3. ASSUME NEW u \in Ids, carts'[u] > 1 \/ (carts'[u] > 0 /\ opening[u] > 0)
        PROVE  u \in entangled' \cup rushed'
    <3>1. CASE u # s /\ u # t
      BY <1>0, <2>1, <2>2, <2>3, <3>1
    <3>2. CASE u = s
      BY <2>2, <2>3, <3>2
    <3>3. CASE u = t /\ u # s
      <4>1. carts'[u] \in {0, 1}
        BY <2>2, <3>3
      <4>. QED
        BY <2>1, <2>3, <3>3, <4>1
    <3>. QED
      BY <3>1, <3>2, <3>3
  <2>. QED
    BY <2>1, <2>3 DEF CartsKnown
<1>5. ASSUME NEW row, NewUser(row) PROVE CartsKnown'
  BY <1>1, <1>5 DEF NewUser, cartVars
<1>6. ASSUME NEW ph, NEW u, SetPhone(u, ph) PROVE CartsKnown'
  BY <1>1, <1>6 DEF SetPhone, cartVars
<1>7. ASSUME NEW v, NEW u, BeginVisit(v, u) PROVE CartsKnown'
  BY <1>1, <1>7 DEF BeginVisit, cartVars
<1>8. ASSUME NEW v, NEW g, Acquire(v, g) PROVE CartsKnown'
  BY <1>1, <1>8 DEF Acquire, cartVars
<1>9. ASSUME NEW v, NEW x, AddWish(v, x) \/ RemoveWish(v, x) PROVE CartsKnown'
  BY <1>1, <1>9 DEF AddWish, RemoveWish, cartVars
<1>10. ASSUME NEW v, FindCart(v) PROVE CartsKnown'
  BY <1>1, <1>10 DEF FindCart, cartVars
<1>11. ASSUME NEW m, NEW s, NEW t, BeginMerge(m, s, t) PROVE CartsKnown'
  BY <1>1, <1>11 DEF BeginMerge, cartVars
<1>12. ASSUME NEW m, DropMerge(m) PROVE CartsKnown'
  BY <1>1, <1>12 DEF DropMerge, cartVars
<1>13. CASE UNCHANGED accountVars
  BY <1>1, <1>13 DEF accountVars
<1>. QED
  BY <1>2, <1>3, <1>4, <1>5, <1>6, <1>7, <1>8, <1>9, <1>10, <1>11, <1>12, <1>13
     DEF AccountsNext, WhatsAppUser, GoogleUser

-----------------------------------------------------------------------------

LEMMA SurvivorNow ==
    AccountShape => /\ Into(user) \in [Ids -> 0 .. MaxAccounts]
                    /\ Follows(Survivor, Into(user))
<1>. SUFFICES ASSUME AccountShape
              PROVE  Into(user) \in [Ids -> 0 .. MaxAccounts] /\ Follows(Survivor, Into(user))
  OBVIOUS
<1>1. \A u \in DOMAIN user : user[u].into \in 0 .. MaxAccounts
  BY AccountsAssumption DEF AccountShape
<1>2. Into(user) \in [Ids -> 0 .. MaxAccounts]
  BY <1>1, AccountsAssumption DEF Into
<1>. QED
  BY <1>2, SurvivorIsThat, SurvivorFollows

LEMMA SurvivorNext ==
    AccountShape' => /\ Into(user') \in [Ids -> 0 .. MaxAccounts]
                     /\ Follows(Survivor', Into(user'))
<1>. SUFFICES ASSUME AccountShape'
              PROVE  Into(user') \in [Ids -> 0 .. MaxAccounts] /\ Follows(Survivor', Into(user'))
  OBVIOUS
<1>1. \A u \in DOMAIN user' : user'[u].into \in 0 .. MaxAccounts
  BY AccountsAssumption DEF AccountShape
<1>2. Into(user') \in [Ids -> 0 .. MaxAccounts]
  BY <1>1, AccountsAssumption DEF Into
<1>3. Survivor' = SurvivorIn(user')
  BY DEF Survivor, SurvivorIn
<1>. QED
  BY <1>2, <1>3, SurvivorFollows

LEMMA DeadFinite ==
    ASSUME AccountShape
    PROVE  IsFiniteSet(Dead) /\ Cardinality(Dead) \in 0 .. MaxAccounts
<1>1. user \in Seq(UserRow) /\ Len(user) \in Nat /\ DOMAIN user = 1 .. Len(user)
  BY LenProperties DEF AccountShape, AccountsTypeOK
<1>2. IsFiniteSet(1 .. Len(user)) /\ Cardinality(1 .. Len(user)) = Len(user)
  BY <1>1, FS_Interval
<1>3. Dead \subseteq 1 .. Len(user)
  BY <1>1 DEF Dead
<1>4. IsFiniteSet(Dead) /\ Cardinality(Dead) <= Len(user) /\ Cardinality(Dead) \in Nat
  BY <1>2, <1>3, FS_Subset, FS_CardinalityType
<1>. QED
  BY <1>1, <1>4, AccountsAssumption DEF AccountShape

\* A live account has its own place.
LEMMA StaysPut ==
    ASSUME NEW f, NEW next \in [Ids -> 0 .. MaxAccounts], Follows(f, next),
           NEW u \in Ids, next[u] = 0
    PROVE  \A n \in 0 .. MaxAccounts : f[n][u] = u
<1>. SUFFICES ASSUME NEW n \in 0 .. MaxAccounts PROVE f[n][u] = u
  OBVIOUS
<1>1. MaxAccounts \in Nat
  BY AccountsAssumption
<1>2. CASE n = 0
  BY <1>2 DEF Follows
<1>3. CASE n # 0
  <2>1. n \in 1 .. MaxAccounts
    BY <1>1, <1>3
  <2>. QED
    BY <2>1 DEF Follows
<1>. QED
  BY <1>2, <1>3

\* Steps of which nobody's place depends.
LEMMA WaysSame ==
    ASSUME AccountShape, AccountShape', Into(user') = Into(user), DOMAIN user \subseteq DOMAIN user'
    PROVE  /\ WaysEnd => WaysEnd'
           /\ \A u \in Ids : Survivor'[MaxAccounts][u] = Survivor[MaxAccounts][u]
<1>. DEFINE f == Survivor
            g == Survivor'
            next == Into(user)
            n == Cardinality(Dead)
<1>1. next \in [Ids -> 0 .. MaxAccounts] /\ Follows(f, next) /\ Follows(g, next)
  BY SurvivorNow, SurvivorNext
<1>2. /\ MaxAccounts \in Nat /\ DOMAIN user = 1 .. Len(user) /\ DOMAIN user' = 1 .. Len(user')
      /\ DOMAIN user \subseteq Ids /\ DOMAIN user' \subseteq Ids
  BY AccountsAssumption, LenProperties DEF AccountShape, AccountsTypeOK, Ids
<1>3. /\ \A u \in Ids : u \in DOMAIN user /\ user[u].into # 0 <=> next[u] # 0
      /\ \A u \in Ids : u \in DOMAIN user' /\ user'[u].into # 0 <=> Into(user')[u] # 0
  BY DEF Into
<1>4. Dead' = Dead
  BY <1>2, <1>3 DEF Dead
<1>5. n \in 0 .. MaxAccounts
  BY DeadFinite
<1>. HIDE DEF f, g, next, n
<1>6. \A k \in 0 .. MaxAccounts : \A u \in Ids : f[k][u] = g[k][u]
  BY ONLY <1>1, FollowsOne
<1>7. ASSUME WaysEnd, NEW u \in DOMAIN user' PROVE Alive(Survivor[Cardinality(Dead)][u])'
  <2>. DEFINE w == f[n][u]
  <2>1. w \in Ids /\ u \in Ids
    BY <1>1, <1>2, <1>5 DEF Follows
  <2>2. next[w] = 0 /\ w \in DOMAIN user'
    <3>1. CASE u \in DOMAIN user
      <4>1. Alive(w)
        BY <1>7, <3>1 DEF WaysEnd, f, n
      <4>2. next[w] = 0 /\ w \in DOMAIN user
        BY <1>3, <2>1, <4>1 DEF Alive
      <4>3. Into(user')[w] = 0
        BY <4>2 DEF next
      <4>. QED
        BY <4>2
    <3>2. CASE u \notin DOMAIN user
      <4>1. next[u] = 0
        BY <1>3, <2>1, <3>2
      <4>2. w = u
        BY <1>1, <1>5, <2>1, <4>1, StaysPut
      <4>. QED
        BY <4>1, <4>2
    <3>. QED
      BY <3>1, <3>2
  <2>3. g[n][u] = w
    BY <1>5, <1>6, <2>1
  <2>4. user'[w].into = 0
    BY <1>3, <2>1, <2>2 DEF next
  <2>5. Survivor'[Cardinality(Dead)'][u] = w
    BY <1>4, <2>3 DEF g, n
  <2>. QED
    BY <2>2, <2>4, <2>5 DEF Alive
<1>8. \A u \in Ids : Survivor'[MaxAccounts][u] = Survivor[MaxAccounts][u]
  BY <1>2, <1>6 DEF f, g
<1>9. WaysEnd => WaysEnd'
  BY <1>7 DEF WaysEnd
<1>. QED
  BY <1>8, <1>9

\* A merge nothing met: whoever led to its source now leads to its target.
LEMMA WaysMerge ==
    ASSUME AccountShape, AccountShape', AccountsStand, WaysEnd, entangled = {},
           NEW m \in Merges, FinishMerge(m)
    PROVE  /\ WaysEnd'
           /\ \A u \in 1 .. Len(user) :
                 Survivor'[MaxAccounts][u] = IF Survivor[MaxAccounts][u] = merge[m].source
                                             THEN merge[m].target
                                             ELSE Survivor[MaxAccounts][u]
<1>0. PICK f, g, next, n, s, t :
          /\ f = Survivor /\ g = Survivor' /\ next = Into(user) /\ n = Cardinality(Dead)
          /\ s = merge[m].source /\ t = merge[m].target
  OBVIOUS
<1>1. /\ s \in 1 .. Len(user) /\ t \in 1 .. Len(user) /\ s # t
      /\ DOMAIN user' = DOMAIN user /\ DOMAIN user = 1 .. Len(user) /\ Len(user') = Len(user)
      /\ \A u \in DOMAIN user : user'[u].into = IF u = s THEN t ELSE user[u].into
  BY <1>0, MergeWrites
<1>2. MaxAccounts \in Nat /\ Len(user) \in Nat /\ 1 .. Len(user) \subseteq Ids
  BY AccountsAssumption, LenProperties DEF AccountShape, AccountsTypeOK, Ids
<1>3. Alive(s) /\ Alive(t)
  BY <1>0, <1>1 DEF AccountsStand
<1>4. next \in [Ids -> 0 .. MaxAccounts] /\ Follows(f, next)
  BY <1>0, SurvivorNow
<1>5. \A u \in 1 .. Len(user) : next[u] = user[u].into
  BY <1>0, <1>1, <1>2 DEF Into
<1>6. next[s] = 0 /\ next[t] = 0
  BY <1>1, <1>3, <1>5 DEF Alive
<1>. DEFINE after == [next EXCEPT ![s] = t]
<1>7. Into(user') = after
  <2>1. ASSUME NEW u \in Ids PROVE Into(user')[u] = after[u]
    BY <1>0, <1>1, <1>2, <1>4, <1>5, <2>1 DEF Into
  <2>2. Into(user') = [u \in Ids |-> Into(user')[u]] /\ after = [u \in Ids |-> after[u]]
    BY <1>4 DEF Into
  <2>. HIDE DEF after
  <2>. QED
    BY <2>1, <2>2
<1>8. after \in [Ids -> 0 .. MaxAccounts] /\ Follows(g, after)
  BY <1>0, <1>7, SurvivorNext
<1>9. IsFiniteSet(Dead) /\ n \in 0 .. MaxAccounts
  BY <1>0, DeadFinite
<1>10. Dead' = Dead \cup {s} /\ s \notin Dead /\ t \notin Dead
  BY <1>1, <1>3 DEF Dead, Alive
<1>11. Cardinality(Dead') = n + 1 /\ n + 1 <= Len(user) /\ n + 1 \in 0 .. MaxAccounts
       /\ n \in 0 .. MaxAccounts - 1
  <2>1. Cardinality(Dead') = n + 1
    BY <1>0, <1>9, <1>10, FS_AddElement
  <2>2. Dead' \subseteq 1 .. Len(user)
    BY <1>1 DEF Dead
  <2>3. Cardinality(Dead') <= Len(user)
    <3>1. Cardinality(1 .. Len(user)) = Len(user) /\ IsFiniteSet(1 .. Len(user))
      BY <1>2, FS_Interval
    <3>. QED
      BY <2>2, <3>1, FS_Subset
  <2>4. Len(user) <= MaxAccounts
    BY DEF AccountShape
  <2>. QED
    BY <1>2, <1>9, <2>1, <2>3, <2>4
<1>. DEFINE Moved(u) == IF u = s THEN t ELSE u
<1>12. ASSUME NEW u \in 1 .. Len(user)
       PROVE  /\ f[n][u] \in 1 .. Len(user) /\ next[f[n][u]] = 0
              /\ g[n + 1][u] = Moved(f[n][u])
  <2>1. Alive(f[n][u])
    BY <1>0, <1>1 DEF WaysEnd
  <2>2. f[n][u] \in 1 .. Len(user) /\ next[f[n][u]] = 0
    BY <1>1, <1>5, <2>1 DEF Alive
  <2>3. /\ next \in [Ids -> 0 .. MaxAccounts] /\ Follows(f, next) /\ Follows(g, after)
        /\ after[s] = t /\ \A w \in Ids \ {s} : after[w] = next[w]
        /\ after \in [Ids -> 0 .. MaxAccounts] /\ s \in Ids /\ t \in Ids /\ s # t /\ next[s] = 0 /\ next[t] = 0
        /\ u \in Ids /\ n \in 0 .. MaxAccounts - 1
    BY <1>1, <1>2, <1>4, <1>6, <1>8, <1>11
  <2>4. \A k \in 0 .. MaxAccounts - 1 : \A w \in Ids :
            next[f[k][w]] = 0 => g[k + 1][w] = IF f[k][w] = s THEN t ELSE f[k][w]
    <3>. HIDE DEF after
    <3>. QED
      BY ONLY <2>3, MergeRedirects
  <2>. QED
    BY <2>2, <2>3, <2>4
<1>13. ASSUME NEW u \in 1 .. Len(user)
       PROVE  /\ Moved(f[n][u]) \in 1 .. Len(user) /\ after[Moved(f[n][u])] = 0
              /\ user'[Moved(f[n][u])].into = 0
  <2>1. Moved(f[n][u]) \in 1 .. Len(user) /\ Moved(f[n][u]) # s /\ next[Moved(f[n][u])] = 0
    BY <1>1, <1>6, <1>12
  <2>2. \A w \in 1 .. Len(user) : w # s => after[w] = next[w]
    BY <1>2, <1>4
  <2>. HIDE DEF Moved, after
  <2>. QED
    BY <1>1, <1>5, <2>1, <2>2
<1>14. WaysEnd'
  <2>. SUFFICES ASSUME NEW u \in 1 .. Len(user) PROVE Alive(Survivor[Cardinality(Dead)][u])'
    BY <1>1 DEF WaysEnd
  <2>1. Survivor'[Cardinality(Dead')][u] = Moved(f[n][u])
    BY <1>0, <1>11, <1>12
  <2>. HIDE DEF Moved
  <2>. QED
    BY <1>1, <1>13, <2>1 DEF Alive
<1>15. ASSUME NEW u \in 1 .. Len(user) PROVE g[MaxAccounts][u] = Moved(f[MaxAccounts][u])
  <2>0. u \in Ids /\ n \in 0 .. MaxAccounts /\ n + 1 \in 0 .. MaxAccounts
        /\ MaxAccounts \in n .. MaxAccounts /\ MaxAccounts \in n + 1 .. MaxAccounts
    BY <1>2, <1>9, <1>11
  <2>1. f[MaxAccounts][u] = f[n][u]
    <3>1. next[f[n][u]] = 0
      BY <1>12
    <3>. QED
      BY ONLY <1>4, <2>0, <3>1, EndsThere
  <2>2. g[MaxAccounts][u] = g[n + 1][u]
    <3>1. after[g[n + 1][u]] = 0
      BY <1>12, <1>13
    <3>. HIDE DEF after
    <3>. QED
      BY ONLY <1>8, <2>0, <3>1, EndsThere
  <2>. QED
    BY <1>12, <2>1, <2>2
<1>. QED
  BY <1>0, <1>14, <1>15

LEMMA WaysStep ==
    AccountInv /\ AccountShape' /\ [AccountsNext]_accountVars
        => (entangled' = {} => WaysEnd' /\ WishesSurvive')
<1>. SUFFICES ASSUME AccountInv, AccountShape', [AccountsNext]_accountVars, entangled' = {}
              PROVE  WaysEnd' /\ WishesSurvive'
  OBVIOUS
<1>. DEFINE Lists(heir, S) == {<< heir[w[1]], w[2] >> : w \in S}
            heirs == [u \in Ids |-> Survivor[MaxAccounts][u]]
<1>0. AccountShape /\ AccountsStand /\ AccountsTypeOK
  BY DEF AccountInv, AccountShape
<1>1. ASSUME entangled = {}
      PROVE  /\ WaysEnd /\ Lists(Survivor[MaxAccounts], wanted) = wishes
             /\ \A v \in Visits : visit[v] # 0 => Alive(visit[v])
  BY <1>1 DEF AccountInv, AccountsStand, Settled, WishesSurvive, Heir
<1>2. /\ wanted \subseteq Ids \X Liked /\ wanted' \subseteq Ids \X Liked
      /\ \A w \in wanted : w[1] \in Ids /\ w[1] \in 1 .. Len(user)
      /\ \A w \in wanted' : w[1] \in Ids
  BY DEF AccountInv, AccountShape, AccountsTypeOK
<1>3. ASSUME Lists(Survivor'[MaxAccounts], wanted') = wishes' PROVE WishesSurvive'
  BY <1>3 DEF WishesSurvive, Heir
<1>. HIDE DEF Lists
\* Steps that move nobody.
<1>4. ASSUME entangled = {}, Into(user') = Into(user), DOMAIN user \subseteq DOMAIN user',
             Lists(Survivor[MaxAccounts], wanted') = wishes'
      PROVE  WaysEnd' /\ WishesSurvive'
  <2>1. WaysEnd' /\ \A u \in Ids : Survivor'[MaxAccounts][u] = Survivor[MaxAccounts][u]
    BY <1>0, <1>1, <1>4, WaysSame
  <2>2. Lists(Survivor'[MaxAccounts], wanted') = Lists(Survivor[MaxAccounts], wanted')
    BY <1>2, <2>1 DEF Lists
  <2>. QED
    BY <1>3, <1>4, <2>1, <2>2
<1>5. ASSUME UNCHANGED << user, wishes, wanted, entangled >>
      PROVE  WaysEnd' /\ WishesSurvive'
  BY <1>1, <1>4, <1>5
<1>6. ASSUME NEW row \in UserRow, row.into = 0, NewUser(row) PROVE WaysEnd' /\ WishesSurvive'
  <2>1. user' = Append(user, row) /\ UNCHANGED << wishes, wanted, entangled >>
    BY <1>6 DEF NewUser
  <2>2. DOMAIN user \subseteq DOMAIN user' /\ \A u \in DOMAIN user' : IF u \in DOMAIN user
            THEN user'[u] = user[u] ELSE user'[u].into = 0
    BY <1>0, <1>6, <2>1 DEF AccountsTypeOK
  <2>3. Into(user') = Into(user)
    BY <2>2 DEF Into
  <2>. QED
    BY <1>1, <1>4, <2>1, <2>2, <2>3
<1>7. ASSUME NEW ph \in Phones, WhatsAppUser(ph) PROVE WaysEnd' /\ WishesSurvive'
  <2>1. [phone |-> ph, email |-> Nothing, into |-> 0] \in UserRow
    BY AccountsAssumption DEF UserRow
  <2>. QED
    BY <1>6, <1>7, <2>1 DEF WhatsAppUser
<1>8. ASSUME NEW e \in Emails, GoogleUser(e) PROVE WaysEnd' /\ WishesSurvive'
  <2>1. [phone |-> Nothing, email |-> e, into |-> 0] \in UserRow
    BY AccountsAssumption DEF UserRow
  <2>. QED
    BY <1>6, <1>8, <2>1 DEF GoogleUser
<1>9. ASSUME NEW ph \in Phones, NEW u \in DOMAIN user, SetPhone(u, ph)
      PROVE  WaysEnd' /\ WishesSurvive'
  <2>1. user' = [user EXCEPT ![u].phone = ph] /\ UNCHANGED << wishes, wanted, entangled >>
    BY <1>9 DEF SetPhone
  <2>2. DOMAIN user' = DOMAIN user /\ \A w \in DOMAIN user : user'[w].into = user[w].into
    BY <2>1
  <2>3. Into(user') = Into(user)
    BY <2>2 DEF Into
  <2>. QED
    BY <1>1, <1>4, <2>1, <2>2, <2>3
<1>10. ASSUME NEW v \in Visits, EndVisit(v), entangled = {}
       PROVE  visit[v] \in Ids /\ Survivor[MaxAccounts][visit[v]] = visit[v]
  <2>1. visit[v] \in Ids /\ Alive(visit[v])
    BY <1>0, <1>1, <1>10 DEF EndVisit, AccountsTypeOK, Ids
  <2>2. Into(user)[visit[v]] = 0
    BY <2>1 DEF Into, Alive
  <2>3. MaxAccounts \in 0 .. MaxAccounts
    BY AccountsAssumption
  <2>4. Into(user) \in [Ids -> 0 .. MaxAccounts] /\ Follows(Survivor, Into(user))
    BY <1>0, SurvivorNow
  <2>. QED
    BY <2>1, <2>2, <2>3, <2>4, StaysPut
<1>11. ASSUME NEW v \in Visits, NEW x \in Liked, AddWish(v, x) PROVE WaysEnd' /\ WishesSurvive'
  <2>1. /\ EndVisit(v) /\ wishes' = wishes \cup {<< visit[v], x >>}
        /\ wanted' = wanted \cup {<< visit[v], x >>} /\ UNCHANGED << user, entangled >>
    BY <1>11 DEF AddWish
  <2>2. Lists(Survivor[MaxAccounts], wanted')
          = Lists(Survivor[MaxAccounts], wanted) \cup {<< visit[v], x >>}
    BY <1>10, <2>1 DEF Lists
  <2>. QED
    BY <1>1, <1>4, <2>1, <2>2
<1>12. ASSUME NEW v \in Visits, NEW x \in Liked, RemoveWish(v, x) PROVE WaysEnd' /\ WishesSurvive'
  <2>1. /\ EndVisit(v) /\ wishes' = wishes \ {<< visit[v], x >>}
        /\ wanted' = {w \in wanted : Survivor[MaxAccounts][w[1]] # visit[v] \/ w[2] # x}
        /\ UNCHANGED << user, entangled >>
    BY <1>12 DEF RemoveWish, Heir
  <2>2. Lists(Survivor[MaxAccounts], wanted')
          = Lists(Survivor[MaxAccounts], wanted) \ {<< visit[v], x >>}
    BY <2>1 DEF Lists
  <2>. QED
    BY <1>1, <1>4, <2>1, <2>2
<1>13. ASSUME NEW m \in Merges, FinishMerge(m) PROVE WaysEnd' /\ WishesSurvive'
  <2>1. entangled = {}
    BY <1>13 DEF FinishMerge
  <2>2. /\ WaysEnd'
        /\ \A u \in 1 .. Len(user) :
              Survivor'[MaxAccounts][u] = IF Survivor[MaxAccounts][u] = merge[m].source
                                          THEN merge[m].target
                                          ELSE Survivor[MaxAccounts][u]
    BY <1>0, <1>1, <1>13, <2>1, WaysMerge
  <2>3. wishes' = MergedWishes(merge[m]) /\ wanted' = wanted
    BY <1>13 DEF FinishMerge
  <2>4. \A w \in wanted : Survivor'[MaxAccounts][w[1]]
            = IF Survivor[MaxAccounts][w[1]] = merge[m].source THEN merge[m].target
              ELSE Survivor[MaxAccounts][w[1]]
    BY <1>2, <2>2
  <2>5. Lists(Survivor'[MaxAccounts], wanted)
          = {<< IF w[1] = merge[m].source THEN merge[m].target ELSE w[1], w[2] >> :
                w \in Lists(Survivor[MaxAccounts], wanted)}
    <3>1. PICK before, next, S, s, t :
              /\ before = Survivor[MaxAccounts] /\ next = Survivor'[MaxAccounts] /\ S = wanted
              /\ s = merge[m].source /\ t = merge[m].target
      OBVIOUS
    <3>2. \A w \in S : next[w[1]] = IF before[w[1]] = s THEN t ELSE before[w[1]]
      BY <2>4, <3>1
    <3>3. Lists(next, S) = {<< IF w[1] = s THEN t ELSE w[1], w[2] >> : w \in Lists(before, S)}
      <4>. DEFINE Was(w) == << before[w[1]], w[2] >>
                  Is(w) == << next[w[1]], w[2] >>
                  Moved(w) == << IF w[1] = s THEN t ELSE w[1], w[2] >>
      <4>1. \A w \in S : Moved(Was(w)) = Is(w)
        BY <3>2
      <4>. HIDE DEF Was, Is, Moved
      <4>2. {Is(w) : w \in S} = {Moved(w) : w \in {Was(v) : v \in S}}
        BY ONLY <4>1
      <4>. QED
        BY <4>2 DEF Was, Is, Moved, Lists
    <3>. QED
      BY <3>1, <3>3
  <2>6. Lists(Survivor'[MaxAccounts], wanted') = wishes'
    BY <1>1, <2>1, <2>3, <2>5 DEF MergedWishes
  <2>. QED
    BY <1>3, <2>2, <2>6
<1>14. ASSUME NEW v \in Visits, NEW u \in DOMAIN user, BeginVisit(v, u) PROVE WaysEnd' /\ WishesSurvive'
  BY <1>5, <1>14 DEF BeginVisit
<1>15. ASSUME NEW v \in Visits, NEW g \in Goods, Acquire(v, g) PROVE WaysEnd' /\ WishesSurvive'
  BY <1>5, <1>15 DEF Acquire
<1>16. ASSUME NEW v \in Visits, FindCart(v) \/ FindNoCart(v) PROVE WaysEnd' /\ WishesSurvive'
  BY <1>5, <1>16 DEF FindCart, FindNoCart
<1>20. ASSUME NEW u \in DOMAIN user, OpenCart(u) PROVE WaysEnd' /\ WishesSurvive'
  BY <1>5, <1>20 DEF OpenCart
<1>17. ASSUME NEW m \in Merges, NEW s \in DOMAIN user, NEW t \in DOMAIN user, BeginMerge(m, s, t)
       PROVE  WaysEnd' /\ WishesSurvive'
  BY <1>5, <1>17 DEF BeginMerge
<1>18. ASSUME NEW m \in Merges, DropMerge(m) PROVE WaysEnd' /\ WishesSurvive'
  BY <1>5, <1>18 DEF DropMerge
<1>19. CASE UNCHANGED accountVars
  BY <1>5, <1>19 DEF accountVars
<1>. QED
  BY <1>7, <1>8, <1>9, <1>11, <1>12, <1>13, <1>14, <1>15, <1>16, <1>17, <1>18, <1>19, <1>20
     DEF AccountsNext

\* Accounts as the program keeps them: nobody is absorbed by an account that is not
\* there, a merge under way joins two different accounts, and whoever a request or a
\* merge under way refers to is alive or known to be entangled.
THEOREM AccountInvariant == AccountsSpec => []AccountInv
<1>1. AccountInv /\ [AccountsNext]_accountVars => AccountInv'
  BY ShapeStep, StandStep, CartsStep, WaysStep DEF AccountInv
<1>. QED
  BY ShapeInit, <1>1, PTL DEF AccountsSpec

\* services/account_merge.py: the orders, addresses, conversations and reviews of an
\* account, its cart and its wishlist are found with the account that has taken its
\* place, however many merges led there and however many rows, shoppers and admins
\* there are, as long as no merge met a request of the account it absorbs or another
\* merge of the two; and nobody has two active carts but by a request that opened one
\* while another request, or a merge, did.
THEOREM NothingLost == AccountsSpec => []MergeLosesNothing
<1>1. AccountInv => MergeLosesNothing
  <2>. SUFFICES ASSUME AccountInv PROVE MergeLosesNothing
    OBVIOUS
  <2>1. OneActiveCart
    BY DEF AccountInv, CartsKnown, OneActiveCart
  <2>. QED
    BY <2>1 DEF AccountInv, AccountsStand, MergeLosesNothing, WishesSurvive
<1>. QED
  BY <1>1, AccountInvariant, PTL

\* Accounts, what they own and the merges under way.
THEOREM AccountsTyped == AccountsSpec => []AccountsTypeOK
<1>1. AccountInv => AccountsTypeOK
  BY DEF AccountInv, AccountShape
<1>. QED
  BY <1>1, AccountInvariant, PTL

-----------------------------------------------------------------------------
(* The composition.                                                        *)

\* A step of the composition is a step of one component and of no other.
LEMMA OneAtATime ==
    ASSUME [Next]_vars
    PROVE  /\ [RefundsNext]_refundVars
           /\ [SessionsNext]_sessionVars
           /\ [AccountsNext]_accountVars
           /\ [AddressesNext]_addressVars
           /\ [BreakerNext]_breakerVars
           /\ [MemoryNext]_memoryVars
           /\ [NudgesNext]_nudgeVars
           /\ [OrderMailNext]_mailVars
           /\ [PricingNext]_pricingVars
           /\ [ShippingNext]_shippingVars
           /\ [StorefrontNext]_shopVars
           /\ [CatalogSyncNext]_syncVars
           /\ [NoticesNext]_noticeVars
           /\ [AssistantNext]_assistantVars
<1>1. CASE UNCHANGED vars
  BY <1>1 DEF vars
<1>2. CASE Next
  BY <1>2 DEF Next
<1>. QED
  BY <1>1, <1>2

\* Every behaviour of the composition is one of each component, so what is proved of
\* a component holds in the composition, which run backoffice checks.
THEOREM EachComponent ==
    Spec => /\ RefundsSpec
            /\ SessionsSpec
            /\ AccountsSpec
            /\ AddressesSpec
            /\ BreakerSpec
            /\ MemorySpec
            /\ NudgesSpec
            /\ OrderMailSpec
            /\ PricingSpec
            /\ ShippingSpec
            /\ StorefrontSpec
            /\ CatalogSyncSpec
            /\ NoticesSpec
            /\ AssistantSpec
<1>1. Init => /\ RefundsInit
              /\ SessionsInit
              /\ AccountsInit
              /\ AddressesInit
              /\ BreakerInit
              /\ MemoryInit
              /\ NudgesInit
              /\ OrderMailInit
              /\ PricingInit
              /\ ShippingInit
              /\ StorefrontInit
              /\ CatalogSyncInit
              /\ NoticesInit
              /\ AssistantInit
  BY DEF Init
<1>2. [Next]_vars => /\ [RefundsNext]_refundVars
                     /\ [SessionsNext]_sessionVars
                     /\ [AccountsNext]_accountVars
                     /\ [AddressesNext]_addressVars
                     /\ [BreakerNext]_breakerVars
                     /\ [MemoryNext]_memoryVars
                     /\ [NudgesNext]_nudgeVars
                     /\ [OrderMailNext]_mailVars
                     /\ [PricingNext]_pricingVars
                     /\ [ShippingNext]_shippingVars
                     /\ [StorefrontNext]_shopVars
                     /\ [CatalogSyncNext]_syncVars
                     /\ [NoticesNext]_noticeVars
                     /\ [AssistantNext]_assistantVars
  BY OneAtATime
<1>. QED
  BY <1>1, <1>2, PTL DEF Spec, RefundsSpec, SessionsSpec, AccountsSpec, AddressesSpec, BreakerSpec, MemorySpec, NudgesSpec, OrderMailSpec, PricingSpec, ShippingSpec, StorefrontSpec, CatalogSyncSpec, NoticesSpec, AssistantSpec

\* Every component's state is well typed, in every behaviour of the composition.
THEOREM TypesHold == Spec => []TypesOK
<1>1. /\ RefundsSpec => []RefundsTypeOK
      /\ SessionsSpec => []SessionsTypeOK
      /\ AccountsSpec => []AccountsTypeOK
      /\ AddressesSpec => []AddressesTypeOK
      /\ BreakerSpec => []BreakerTypeOK
      /\ MemorySpec => []MemoryTypeOK
      /\ NudgesSpec => []NudgesTypeOK
      /\ OrderMailSpec => []OrderMailTypeOK
      /\ PricingSpec => []PricingTypeOK
      /\ ShippingSpec => []ShippingTypeOK
      /\ StorefrontSpec => []StorefrontTypeOK
      /\ CatalogSyncSpec => []CatalogSyncTypeOK
      /\ NoticesSpec => []NoticesTypeOK
      /\ AssistantSpec => []AssistantTypeOK
  BY RefundsTyped, SessionsTyped, AccountsTyped, AddressesTyped, BreakerTyped, MemoryTyped, NudgesTyped, OrderMailTyped, PricingTyped, ShippingTyped, StorefrontTyped, CatalogSyncTyped, NoticesTyped, AssistantTyped
<1>2. /\ RefundsTypeOK
      /\ SessionsTypeOK
      /\ AccountsTypeOK
      /\ AddressesTypeOK
      /\ BreakerTypeOK
      /\ MemoryTypeOK
      /\ NudgesTypeOK
      /\ OrderMailTypeOK
      /\ PricingTypeOK
      /\ ShippingTypeOK
      /\ StorefrontTypeOK
      /\ CatalogSyncTypeOK
      /\ NoticesTypeOK
      /\ AssistantTypeOK
      => TypesOK
  BY DEF TypesOK
<1>. QED
  BY <1>1, <1>2, EachComponent, PTL
=============================================================================
