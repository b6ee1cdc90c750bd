--------------------------- MODULE RefreshTokens ---------------------------
(***************************************************************************)
(* The sessions of one user: refresh tokens and their rotation, logout and *)
(* "log out everywhere".  A browser keeps its token in one cookie that all *)
(* its tabs share, and beside it the device cookie; each request carries   *)
(* what the two held when it left.  Tokens are numbered in the order of    *)
(* their rows, and a device by the first token it was given.  Accounts are *)
(* never deactivated in this code, so the user_suspended branch is out.    *)
(***************************************************************************)
EXTENDS Integers, FiniteSets

CONSTANTS
    MaxTokens,     \* RefreshToken rows (a model bound)
    Browsers,      \* the browsers of the user
    MaxRefreshes,  \* refresh requests in progress at once (a model bound)
    MaxMishaps     \* answers lost, locks expired, cookies dropped (a model bound)

ASSUME RefreshAssumption ==
    {MaxTokens, MaxRefreshes, MaxMishaps} \subseteq Nat /\ IsFiniteSet(Browsers)

VARIABLES
    token,     \* the RefreshToken rows: unused, live, revoked
    deviceId,  \* RefreshToken.deviceId
    inflight,  \* the tokens whose Redis lock is held
    jar,       \* the token in each browser's cookie
    did,       \* the device in its chopnow_did cookie
    rcall,     \* the refresh requests
    ended,     \* the tokens whose session was ended, their successors included
    slid,      \* those of them that were being replaced at that moment
    shared,    \* the tokens that two requests carried at once
    lost,      \* the tokens whose successor never reached the browser
    expired,   \* the tokens whose lock expired under its holder
    dropped,   \* the browsers that dropped their device cookie
    forked,    \* the tokens that were replaced although no longer live
    reported,  \* the tokens that were reported as reused
    mismatch   \* the tokens that were reported as presented by another device

tokenRows == <<token, deviceId, inflight>>
cookies == <<jar, did>>
endings == <<ended, slid>>
mishaps == <<shared, lost, expired, dropped>>
outcomes == <<forked, reported, mismatch>>
sessionGhosts == <<endings, mishaps, outcomes>>
refreshVars == <<tokenRows, cookies, rcall, sessionGhosts>>

Tokens == 1..MaxTokens
RefreshCalls == 1..MaxRefreshes
NoToken == 0
NoDevice == 0

RefreshStep == {"idle", "guard", "match", "rotate", "revoke", "unlock", "reply"}

RefreshTypeOK ==
    /\ token \in [Tokens -> {"unused", "live", "revoked"}]
    /\ deviceId \in [Tokens -> Tokens \cup {NoDevice}]
    /\ inflight \subseteq Tokens
    /\ jar \in [Browsers -> Tokens \cup {NoToken}]
    /\ did \in [Browsers -> Tokens \cup {NoDevice}]
    /\ rcall \in [RefreshCalls ->
                    [at : RefreshStep, b : Browsers \cup {"none"}, old : Tokens \cup {NoToken},
                     new : Tokens \cup {NoToken}, did : Tokens \cup {NoDevice}]]
    /\ \A S \in {ended, slid, shared, lost, expired, forked, reported, mismatch} : S \subseteq Tokens
    /\ dropped \subseteq Browsers

NoRefresh == [at |-> "idle", b |-> "none", old |-> NoToken, new |-> NoToken,
              did |-> NoDevice]

RefreshInit ==
    /\ token = [t \in Tokens |-> "unused"]
    /\ deviceId = [t \in Tokens |-> NoDevice]
    /\ inflight = {}
    /\ jar = [b \in Browsers |-> NoToken]
    /\ did = [b \in Browsers |-> NoDevice]
    /\ rcall = [c \in RefreshCalls |-> NoRefresh]
    /\ ended = {} /\ slid = {} /\ shared = {} /\ lost = {} /\ expired = {}
    /\ dropped = {} /\ forked = {} /\ reported = {} /\ mismatch = {}

-----------------------------------------------------------------------------
Free(c) == rcall[c] = NoRefresh /\ \A d \in 1..(c - 1) : rcall[d] # NoRefresh
Proceeds(c, step) == rcall' = [rcall EXCEPT ![c].at = step]
Answered(c) == rcall' = [rcall EXCEPT ![c] = NoRefresh]
NextToken(t) == token[t] = "unused" /\ \A u \in 1..(t - 1) : token[u] # "unused"

Live == {t \in Tokens : token[t] = "live"}
RevokeLive == token' = [t \in Tokens |-> IF t \in Live THEN "revoked" ELSE token[t]]

MishapLeft == Cardinality(lost) + Cardinality(expired) + Cardinality(dropped) < MaxMishaps
Carrying(t) == {c \in RefreshCalls : rcall[c] # NoRefresh /\ rcall[c].old = t}

(* The sessions of the tokens in S end: so do those of the successors that *)
(* have not reached their browser.                                         *)
Ends(S) ==
    LET onTheirWay == {c \in RefreshCalls : rcall[c].old \in S
                                             /\ rcall[c].at \in {"rotate", "unlock", "reply"}}
        both == {rcall[c].old : c \in onTheirWay} \cup {rcall[c].new : c \in onTheirWay}
    IN /\ ended' = ended \cup S \cup (both \ {NoToken})
       /\ slid' = slid \cup (both \ {NoToken})

(* Mutant: the device cookie is not looked at. *)
ResolveDevice_Fresh(cookie, t) == t

(* resolveDevice: the device of the cookie, or a new one.  (A cookie left  *)
(* by another user of the browser counts as none.)                         *)
ResolveDevice(cookie, t) == IF cookie = NoDevice THEN t ELSE cookie

(* Mutant: only the token's cookie is set. *)
SetCookies_TokenOnly(b, t, d) == jar' = [jar EXCEPT ![b] = t] /\ UNCHANGED did

(* setRefreshCookie, setDeviceCookie *)
SetCookies(b, t, d) == jar' = [jar EXCEPT ![b] = t] /\ did' = [did EXCEPT ![b] = d]

(* verifyOtp, issueAdminSession: a new token without a predecessor, for a  *)
(* browser whose session is over.                                          *)
SignIn(b) ==
    /\ jar[b] \notin Live
    /\ \E t \in Tokens :
         /\ NextToken(t)
         /\ token' = [token EXCEPT ![t] = "live"]
         /\ deviceId' = [deviceId EXCEPT ![t] = ResolveDevice(did[b], t)]
         /\ SetCookies(b, t, ResolveDevice(did[b], t))
    /\ UNCHANGED <<inflight, rcall, sessionGhosts>>

(* The user, or the browser, deletes the device cookie and keeps the token. *)
CookieDropped(b) ==
    /\ did[b] # NoDevice /\ MishapLeft
    /\ did' = [did EXCEPT ![b] = NoDevice]
    /\ dropped' = dropped \cup {b}
    /\ UNCHANGED <<tokenRows, jar, rcall, endings, shared, lost, expired, outcomes>>

(* readDeviceMeta and the refresh strategy: what a request carries. *)
Carries(b) == [at |-> "guard", b |-> b, old |-> jar[b], new |-> NoToken, did |-> did[b]]

(* A tab finds its access token expired. *)
SendRefresh(c, b) ==
    /\ Free(c)
    /\ jar[b] # NoToken
    /\ rcall' = [rcall EXCEPT ![c] = Carries(b)]
    /\ shared' = IF Carrying(jar[b]) # {} THEN shared \cup {jar[b]} ELSE shared
    /\ UNCHANGED <<tokenRows, cookies, endings, lost, expired, dropped, outcomes>>

(* Mutant: the per-token lock is left out. *)
RefreshLock_None(c) ==
    /\ rcall[c].at = "guard"
    /\ Proceeds(c, "match")
    /\ UNCHANGED <<tokenRows, cookies, sessionGhosts>>

(* setNX on refresh:inflight:<token>; another holder means                 *)
(* refresh_in_flight and nothing done.                                     *)
RefreshLock(c) ==
    LET t == rcall[c].old IN
    /\ rcall[c].at = "guard"
    /\ IF t \in inflight THEN Answered(c) /\ UNCHANGED inflight
                         ELSE Proceeds(c, "match") /\ inflight' = inflight \cup {t}
    /\ UNCHANGED <<token, deviceId, cookies, sessionGhosts>>

(* refresh_device_mismatch: a live token with another device's cookie. *)
OtherDevice(t, cookie) == cookie # NoDevice /\ cookie # deviceId[t]

(* The row that the token matches, revoked ones included. *)
RefreshMatch(c) ==
    LET t == rcall[c].old IN
    /\ rcall[c].at = "match"
    /\ Proceeds(c, IF token[t] = "live" /\ ~OtherDevice(t, rcall[c].did) THEN "rotate" ELSE "revoke")
    /\ mismatch' = IF token[t] = "live" /\ OtherDevice(t, rcall[c].did)
                   THEN mismatch \cup {t} ELSE mismatch
    /\ UNCHANGED <<tokenRows, cookies, endings, mishaps, forked, reported>>

(* refresh_reuse_detected or refresh_device_mismatch: every live token of  *)
(* the user is revoked.                                                    *)
ReuseDetected(c) ==
    /\ rcall[c].at = "revoke"
    /\ RevokeLive
    /\ Ends(Live)
    /\ Proceeds(c, "unlock")
    /\ reported' = reported \cup ({rcall[c].old} \ mismatch)
    /\ UNCHANGED <<deviceId, inflight, cookies, mishaps, forked, mismatch>>

(* Mutant: a rotation revokes the tokens of the other browsers too. *)
SignTokens_EveryDevice(c) ==
    LET t == rcall[c].old IN
    /\ rcall[c].at = "rotate"
    /\ \E n \in Tokens :
         /\ NextToken(n)
         /\ token' = [u \in Tokens |-> IF u = n THEN "live"
                                       ELSE IF u \in Live THEN "revoked" ELSE token[u]]
         /\ deviceId' = [deviceId EXCEPT ![n] = ResolveDevice(rcall[c].did, n)]
         /\ rcall' = [rcall EXCEPT ![c].at = "unlock", ![c].new = n]
    /\ UNCHANGED <<inflight, cookies, endings, mishaps, outcomes>>

(* resolveDevice and signTokens: one transaction inserts the new row and   *)
(* revokes the old one by its id.                                          *)
SignTokens(c) ==
    LET t == rcall[c].old IN
    /\ rcall[c].at = "rotate"
    /\ \E n \in Tokens :
         /\ NextToken(n)
         /\ token' = [token EXCEPT ![n] = "live", ![t] = "revoked"]
         /\ deviceId' = [deviceId EXCEPT ![n] = ResolveDevice(rcall[c].did, n)]
         /\ rcall' = [rcall EXCEPT ![c].at = "unlock", ![c].new = n]
         /\ ended' = IF t \in ended THEN ended \cup {n} ELSE ended
         /\ slid' = IF t \in slid THEN slid \cup {n} ELSE slid
    /\ forked' = IF token[t] = "live" THEN forked ELSE forked \cup {t}
    /\ UNCHANGED <<inflight, cookies, mishaps, reported, mismatch>>

(* The finally block; del, whoever holds the key by now. *)
RefreshUnlock(c) ==
    /\ rcall[c].at = "unlock"
    /\ inflight' = inflight \ {rcall[c].old}
    /\ IF rcall[c].new = NoToken THEN Answered(c) ELSE Proceeds(c, "reply")
    /\ UNCHANGED <<token, deviceId, cookies, sessionGhosts>>

(* The answer sets the cookies, or is lost on the way. *)
RefreshReply(c) ==
    LET b == rcall[c].b IN
    /\ rcall[c].at = "reply"
    /\ \/ SetCookies(b, rcall[c].new, deviceId[rcall[c].new]) /\ UNCHANGED lost
       \/ MishapLeft /\ lost' = lost \cup {rcall[c].old} /\ UNCHANGED cookies
    /\ Answered(c)
    /\ UNCHANGED <<tokenRows, endings, shared, expired, dropped, outcomes>>

(* After REFRESH_INFLIGHT_LOCK_SECONDS. *)
RefreshLockExpires(t) ==
    /\ t \in inflight /\ MishapLeft
    /\ inflight' = inflight \ {t}
    /\ expired' = expired \cup {t}
    /\ UNCHANGED <<token, deviceId, cookies, rcall, endings, shared, lost, dropped, outcomes>>

-----------------------------------------------------------------------------
(* Mutant: a label of its own for a session that was logged out. *)
Logout_Label(b) ==
    LET t == jar[b] IN
    /\ t # NoToken
    /\ token' = [token EXCEPT ![t] = "logged_out"]
    /\ jar' = [jar EXCEPT ![b] = NoToken]
    /\ Ends({t})
    /\ UNCHANGED <<deviceId, inflight, did, rcall, mishaps, outcomes>>

(* Revokes the row of this browser's token and clears the cookie. *)
Logout(b) ==
    LET t == jar[b] IN
    /\ t # NoToken
    /\ token' = [token EXCEPT ![t] = "revoked"]
    /\ jar' = [jar EXCEPT ![b] = NoToken]
    /\ Ends({t})
    /\ UNCHANGED <<deviceId, inflight, did, rcall, mishaps, outcomes>>

(* Mutant: only the session of the calling browser is revoked. *)
RevokeAllSessions_Own(b) ==
    /\ jar[b] # NoToken
    /\ token' = [token EXCEPT ![jar[b]] = "revoked"]
    /\ jar' = [jar EXCEPT ![b] = NoToken]
    /\ Ends(Live)
    /\ UNCHANGED <<deviceId, inflight, did, rcall, mishaps, outcomes>>

(* revokeAllSessions; the other browsers keep a cookie that is worth       *)
(* nothing, and their next refresh is reported as reuse.                   *)
RevokeAllSessions(b) ==
    /\ jar[b] # NoToken
    /\ RevokeLive
    /\ jar' = [jar EXCEPT ![b] = NoToken]
    /\ Ends(Live)
    /\ UNCHANGED <<deviceId, inflight, did, rcall, mishaps, outcomes>>

RefreshNext ==
    \/ \E b \in Browsers : SignIn(b) \/ CookieDropped(b) \/ Logout(b) \/ RevokeAllSessions(b)
    \/ \E c \in RefreshCalls :
         \/ \E b \in Browsers : SendRefresh(c, b)
         \/ RefreshLock(c) \/ RefreshMatch(c) \/ ReuseDetected(c)
         \/ SignTokens(c) \/ RefreshUnlock(c) \/ RefreshReply(c)
    \/ \E t \in Tokens : RefreshLockExpires(t)

RefreshSpec == RefreshInit /\ [][RefreshNext]_refreshVars

-----------------------------------------------------------------------------
(* Reuse is reported, and every session of the user ended, only for a      *)
(* token that two requests carried at once, whose successor was lost on    *)
(* the way, or whose session was ended elsewhere.                          *)
NoFalseAlarm == reported \subseteq shared \cup lost \cup ended

(* A token gets one successor, unless its lock expired under its holder or *)
(* its session ended while it was being replaced.                          *)
OneSuccessor == forked \subseteq expired \cup slid

(* A session that was ended stays ended: neither its token nor one that    *)
(* replaces it is live, unless the replacement was on its way.             *)
EndedStaysEnded == ended \cap Live \subseteq slid

(* "A confirmed compromise signal": a user's own browsers never present a  *)
(* token with the cookie of another device, whatever is lost or dropped.   *)
MismatchIsForeign == mismatch = {}

(* A browser stays one device, through every rotation, lost answer and     *)
(* sign-in, as long as it keeps its device cookie: the token it holds      *)
(* names the device of that cookie, and if no browser ever dropped one,    *)
(* the user's devices are no more than the browsers.                       *)
DevicesAreBrowsers ==
    /\ \A b \in Browsers \ dropped : jar[b] # NoToken => deviceId[jar[b]] = did[b]
    /\ dropped = {} => Cardinality({deviceId[t] : t \in Tokens} \ {NoDevice})
                          <= Cardinality(Browsers)

(* A user's sessions: none ended without a cause, none doubled, none back, *)
(* and each from a device of its own.                                      *)
SessionsSafe ==
    NoFalseAlarm /\ OneSuccessor /\ EndedStaysEnded /\ MismatchIsForeign /\ DevicesAreBrowsers
=============================================================================
