----------------------------- MODULE HttpClient -----------------------------
(***************************************************************************)
(* The HTTP client (lib/client-api/src/http.rs, notify.rs, native): the    *)
(* token of the signed-in user, and the calls that use and replace it.     *)
(* Every request to the server first checks that the token does not expire *)
(* within a Buffer; if it does, the caller queues a oneshot sender, and    *)
(* refreshes the token itself unless it finds is_refreshing_token set, in  *)
(* which case it waits for the answer of the caller that refreshes.        *)
(* Signing in, signing out and updating the user overlap with that.        *)
(*                                                                         *)
(* GoTrue, the service that issues tokens, is external.                    *)
(***************************************************************************)
EXTENDS Integers, FiniteSets

CONSTANTS
  Callers,    \* tasks that call the client, one call after the other
  Users,
  Buffer,     \* before a token expires (30 s in the code)
  Lifetime,   \* of a token that GoTrue issues
  Retries,    \* of a refresh after a network error (4 in the code)
  MaxTime,    \* bound on the clock
  MaxTokens,  \* bound on the tokens that GoTrue issues
  MaxDrops,   \* bound on the calls whose future is dropped at an await
  NoToken

ASSUME HttpAssumption ==
  /\ {Buffer, Lifetime, Retries, MaxTime, MaxTokens, MaxDrops} \subseteq Nat
  /\ Buffer <= Lifetime /\ MaxTokens >= 1    \* the first is the one restored
  /\ NoToken \notin Callers \cup Users
  /\ NoToken \notin [owner : Users, user : Users, expires_at : Nat]

Token == [owner : Users, user : Users, expires_at : Nat]
OptToken == Token \cup {NoToken}

VARIABLES
  token,                 \* ClientToken
  is_refreshing_token,
  refresh_ret_txs,       \* the callers whose oneshot sender is queued
  call,                  \* the call that each caller is in
  now, issued, drops     \* the clock, the number of tokens and of drops

httpVars == <<token, is_refreshing_token, refresh_ret_txs, call, now, issued, drops>>
refreshVars == <<is_refreshing_token, refresh_ret_txs>>
world == <<now, issued, drops>>

(* Where a call stands: after the check of the token it is sent, or it     *)
(* joins the queue, looks at the flag, and then waits or claims it and     *)
(* refreshes, asks GoTrue, hands out the result and drops the flag.        *)
Refreshing == {"claiming", "refreshing", "asking", "handing", "clearing"}
Joined == {"joined", "waiting"} \cup Refreshing
Steps == {"idle", "compressing", "checking", "joining", "sent", "signing", "leaving",
          "updating"} \cup Joined

Call ==
  [step : Steps, found : OptToken,            \* the token found about to expire
   token : OptToken,                          \* the one it asks or sends with
   answer : OptToken,                         \* the one GoTrue issued, on its way
   attempt : 0 .. Retries, result : {"none", "ok", "err"},   \* of the refresh
   told : {"none", "ok", "err"}]              \* what its receiver got

Idle == [step |-> "idle", found |-> NoToken, token |-> NoToken, answer |-> NoToken, attempt |-> 0,
         result |-> "none", told |-> "none"]

(* The application restores the token that it saved, if it saved one.      *)
restore_token(u) ==
  [owner |-> u, user |-> u, expires_at |-> Lifetime]

HttpInit ==
  /\ token \in {NoToken} \cup {restore_token(u) : u \in Users}
  /\ is_refreshing_token = FALSE /\ refresh_ret_txs = {}
  /\ call = [c \in Callers |-> Idle]
  /\ now = 0 /\ issued = 1 /\ drops = 0

At(c, step) == call[c].step = step
Goto(c, step) == call' = [call EXCEPT ![c].step = step]
Return(c) == call' = [call EXCEPT ![c] = Idle]

-----------------------------------------------------------------------------
(* ClientToken.                                                            *)

(* A token that expires earlier than the one there is, is ignored.         *)
Set(new) ==
  token' = IF token # NoToken /\ token.expires_at > new.expires_at THEN token ELSE new

-----------------------------------------------------------------------------
(* GoTrue.                                                                 *)
New(u) == [owner |-> u, user |-> u, expires_at |-> now + Lifetime]

Issue(c, u) ==
  /\ issued < MaxTokens /\ issued' = issued + 1
  /\ call' = [call EXCEPT ![c].answer = New(u)]

-----------------------------------------------------------------------------
(* Signing in and out.                                                     *)

(* sign_in_password, sign_in_with_url and sign_up: the token is there, and *)
(* is verified with the server before it is set.                           *)
sign_in(c, u) ==
  /\ At(c, "idle") /\ issued < MaxTokens
  /\ issued' = issued + 1
  /\ call' = [call EXCEPT ![c].step = "signing", ![c].answer = New(u)]
  /\ UNCHANGED <<token, refreshVars, now, drops>>

SignedIn(c) ==
  /\ At(c, "signing") /\ Set(call[c].answer) /\ Return(c)
  /\ UNCHANGED <<refreshVars, world>>

(* Not verified, or signed up without being authenticated.                 *)
NotSignedIn(c) ==
  /\ At(c, "signing") /\ Return(c)
  /\ UNCHANGED <<token, refreshVars, world>>

sign_out(c) ==
  /\ At(c, "idle") /\ token # NoToken
  /\ Goto(c, "leaving")
  /\ UNCHANGED <<token, refreshVars, world>>

(* The logout of GoTrue answers; on an error the token stays.              *)
SignedOut(c) ==
  /\ At(c, "leaving")
  /\ token' \in {NoToken, token}
  /\ Return(c)
  /\ UNCHANGED <<refreshVars, world>>

(* update_user: the user that GoTrue answers with goes into the token there*)
(* is by then, and the call goes on as a request to the server.            *)
update_user(c) ==
  /\ At(c, "idle") /\ token # NoToken
  /\ call' = [call EXCEPT ![c].step = "updating", ![c].token = token]
  /\ UNCHANGED <<token, refreshVars, world>>

Updated(c) ==
  /\ At(c, "updating")
  /\ \/ /\ call' = [call EXCEPT ![c].step = "checking", ![c].token = NoToken]
        /\ token' = IF token = NoToken THEN NoToken
                    ELSE [token EXCEPT !.user = call[c].token.owner]
     \/ Return(c) /\ UNCHANGED token
  /\ UNCHANGED <<refreshVars, world>>

-----------------------------------------------------------------------------
(* A request to the server.                                                *)

(* http_client_with_auth, or ws_connect_info, takes the access token.      *)
access_token(c) ==
  IF token = NoToken THEN Return(c)
  ELSE call' = [call EXCEPT ![c].step = "sent", ![c].token = token]

(* ts + 30 > expires_at.                                                   *)
Expiring(t) == now + Buffer > t.expires_at

refresh_if_expired(c) ==
  /\ call[c].step \in {"idle", "checking"}
  /\ IF token # NoToken /\ Expiring(token)
       THEN call' = [call EXCEPT ![c].step = "joining", ![c].found = token]
       ELSE access_token(c)
  /\ UNCHANGED <<token, refreshVars, world>>

(* create_collab, create_collab_list and post_realtime_msg compress what   *)
(* they send, in tasks of their own, before the token is checked.          *)
create_collab_list(c) ==
  /\ At(c, "idle") /\ Goto(c, "compressing")
  /\ UNCHANGED <<token, refreshVars, world>>

Compressed(c) ==
  /\ At(c, "compressing")
  /\ Goto(c, "checking") \/ Return(c)
  /\ UNCHANGED <<token, refreshVars, world>>

(* The requests of an administrator go to GoTrue with the token as it is.  *)
admin_request(c) ==
  /\ At(c, "idle") /\ access_token(c)
  /\ UNCHANGED <<token, refreshVars, world>>

Respond(c) ==
  /\ At(c, "sent") /\ Return(c)
  /\ UNCHANGED <<token, refreshVars, world>>

-----------------------------------------------------------------------------
(* refresh_token.                                                          *)
Join(c) ==
  /\ At(c, "joining") /\ Goto(c, "joined")
  /\ refresh_ret_txs' = refresh_ret_txs \cup {c}
  /\ UNCHANGED <<token, is_refreshing_token, world>>

Load(c) ==
  /\ At(c, "joined")
  /\ Goto(c, IF is_refreshing_token THEN "waiting" ELSE "claiming")
  /\ UNCHANGED <<token, refreshVars, world>>

Store(c) ==
  /\ At(c, "claiming") /\ Goto(c, "refreshing")
  /\ is_refreshing_token' = TRUE
  /\ UNCHANGED <<token, refresh_ret_txs, world>>

Result(c, r) == call' = [call EXCEPT ![c].step = "handing", ![c].result = r,
                                     ![c].token = NoToken, ![c].answer = NoToken]

(* RefreshTokenAction::run takes the refresh token of the token there is.  *)
RunAction(c) ==
  /\ At(c, "refreshing")
  /\ IF token = NoToken THEN Result(c, "err")
     ELSE call' = [call EXCEPT ![c].step = "asking", ![c].token = token]
  /\ UNCHANGED <<token, refreshVars, world>>

IssueRefresh(c) ==
  /\ At(c, "asking") /\ call[c].answer = NoToken
  /\ Issue(c, call[c].token.owner)
  /\ UNCHANGED <<token, refreshVars, now, drops>>

Refreshed(c) ==
  /\ At(c, "asking") /\ call[c].answer # NoToken
  /\ Set(call[c].answer) /\ Result(c, "ok")
  /\ UNCHANGED <<refreshVars, world>>

(* A network error, before or after GoTrue issued a token, is tried again. *)
NetworkError(c) ==
  /\ At(c, "asking")
  /\ IF call[c].attempt < Retries
       THEN call' = [call EXCEPT ![c].step = "refreshing", ![c].token = NoToken,
                                 ![c].answer = NoToken, ![c].attempt = @ + 1]
       ELSE Result(c, "err")
  /\ UNCHANGED <<token, refreshVars, world>>

(* What GoTrue refuses is an OAuthError, never UserUnAuthorized: the token *)
(* is not unset.                                                           *)
Refused(c) ==
  /\ At(c, "asking") /\ call[c].answer = NoToken
  /\ Result(c, "err")
  /\ UNCHANGED <<token, refreshVars, world>>

(* Mutant of HandOut: everybody is told Ok.                                *)
HandOutOk(c) ==
  /\ At(c, "handing")
  /\ call' = [d \in Callers |->
       LET told == IF d \in refresh_ret_txs THEN [call[d] EXCEPT !.told = "ok"] ELSE call[d]
       IN  IF d = c THEN [told EXCEPT !.step = "clearing", !.result = "none"] ELSE told]
  /\ refresh_ret_txs' = {}
  /\ UNCHANGED <<token, is_refreshing_token, world>>

(* The queue is taken, and those in it that still wait are told.           *)
HandOut(c) ==
  /\ At(c, "handing")
  /\ call' = [d \in Callers |->
       LET told == IF d \in refresh_ret_txs THEN [call[d] EXCEPT !.told = call[c].result]
                                            ELSE call[d]
       IN  IF d = c THEN [told EXCEPT !.step = "clearing", !.result = "none"] ELSE told]
  /\ refresh_ret_txs' = {}
  /\ UNCHANGED <<token, is_refreshing_token, world>>

Cleared(c) ==
  /\ At(c, "clearing") /\ Goto(c, "waiting")
  /\ is_refreshing_token' = FALSE
  /\ UNCHANGED <<token, refresh_ret_txs, world>>

Answered(c) ==
  /\ At(c, "waiting") /\ call[c].told # "none"
  /\ IF call[c].told = "ok" THEN access_token(c) ELSE Return(c)
  /\ UNCHANGED <<token, refreshVars, world>>

(* Mutant of Timeout: there is none.                                       *)
TimeoutNever(c) == FALSE /\ UNCHANGED httpVars

(* Who waits too long is not told any more.                                *)
Timeout(c) ==
  /\ At(c, "waiting") /\ call[c].told = "none"
  /\ Return(c)
  /\ refresh_ret_txs' = refresh_ret_txs \ {c}
  /\ UNCHANGED <<token, is_refreshing_token, world>>

(* The future of a call is dropped at an await; the flag it set stays (in  *)
(* the other calls that is what an error does).                            *)
Drop(c) ==
  /\ call[c].step \in {"asking", "waiting"}
  /\ drops < MaxDrops /\ drops' = drops + 1
  /\ Return(c)
  /\ refresh_ret_txs' = refresh_ret_txs \ {c}
  /\ UNCHANGED <<token, is_refreshing_token, now, issued>>

-----------------------------------------------------------------------------
(* A token lives for far longer than a request or the hand-out takes, so   *)
(* the clock does not outrun an answer that is on its way.                 *)
ClockTick ==
  /\ now < MaxTime /\ now' = now + 1
  /\ \A c \in Callers :
       /\ call[c].step \notin {"handing", "clearing"}
       /\ call[c].answer # NoToken => now + 1 + Buffer <= call[c].answer.expires_at
  /\ UNCHANGED <<token, refreshVars, call, issued, drops>>

Sign(c) ==
  \/ \E u \in Users : sign_in(c, u)
  \/ SignedIn(c) \/ NotSignedIn(c) \/ sign_out(c) \/ SignedOut(c)
  \/ update_user(c) \/ Updated(c)
Requests(c) ==
  \/ refresh_if_expired(c) \/ admin_request(c) \/ create_collab_list(c) \/ Compressed(c)
  \/ Respond(c)

(* What a refreshing or waiting caller does, whatever GoTrue answers.      *)
GoTrueAnswers(c) == Refreshed(c) \/ NetworkError(c) \/ Refused(c)
Refresh(c) ==
  Join(c) \/ Load(c) \/ Store(c) \/ RunAction(c) \/ GoTrueAnswers(c) \/ HandOut(c) \/ Cleared(c)

HttpNext ==
  \/ ClockTick
  \/ \E c \in Callers : \/ Sign(c) \/ Requests(c) \/ Refresh(c) \/ IssueRefresh(c)
                        \/ Answered(c) \/ Timeout(c) \/ Drop(c)

HttpSpec == HttpInit /\ [][HttpNext]_httpVars

(* The tasks run, GoTrue answers or the request fails, and 60 s pass.      *)
HttpFairSpec ==
  /\ HttpSpec
  /\ \A c \in Callers : WF_httpVars(Refresh(c)) /\ WF_httpVars(Answered(c) \/ Timeout(c))

-----------------------------------------------------------------------------
(* The values the variables take.                                          *)
HttpTypeOK ==
  /\ token \in OptToken
  /\ is_refreshing_token \in BOOLEAN
  /\ refresh_ret_txs \subseteq {c \in Callers : call[c].step \in Joined}
  /\ call \in [Callers -> Call]
  /\ now \in 0 .. MaxTime /\ issued \in 0 .. MaxTokens /\ drops \in 0 .. MaxDrops

(* A request whose caller found the token about to expire is sent with one *)
(* that expires later, however refreshes overlap, fail for some callers    *)
(* and succeed for others, and users sign out and in meanwhile:            *)
(* refresh_token gives Ok to no caller whose token was not replaced.       *)
SentFresh ==
  \A c \in Callers :
    LET k == call[c]
    IN  At(c, "sent") /\ k.found # NoToken =>
          k.token.expires_at > k.found.expires_at

(* Who waits for a refresh goes on or gives up in the end, even one that   *)
(* queued its sender after the queue was taken and saw the flag before it  *)
(* was dropped, and one whose refresher was dropped with the flag set.     *)
WaitersLeave == \A c \in Callers : call[c].step \in Joined ~> call[c].step \notin Joined
=============================================================================
