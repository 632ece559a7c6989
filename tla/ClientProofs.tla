---------------------------- MODULE ClientProofs ----------------------------
(***************************************************************************)
(* Theorems about the two ways in which a client (lib/client-api) talks to *)
(* the cloud.                                                              *)
(*                                                                         *)
(* HttpClient, for any callers, users, lifetimes and limits with Buffer <= *)
(* Lifetime: its type invariant, and that no request is sent with the      *)
(* token that its caller found about to expire.                            *)
(*                                                                         *)
(* WSClient, for any constants: its type invariant, and that at most one   *)
(* connection has a sender, and at most one a pinger, that nobody told to  *)
(* stop.                                                                   *)
(***************************************************************************)
EXTENDS HttpClient, WSClient, FiniteSetTheorems, SequenceTheorems, WellFoundedInduction,
        TLAPS

(* The steps in which a caller has not looked for an old token.            *)
Unchecked == {"idle", "compressing", "checking", "signing", "leaving", "updating"}

(* What a call has in each of its steps.                                   *)
Stepwise(c) ==
  /\ call[c].step \in {"asking", "updating", "sent"} => call[c].token # NoToken
  /\ call[c].step = "signing" => call[c].answer # NoToken
  /\ call[c].step \in Unchecked => call[c].found = NoToken
  /\ call[c].told # "none" =>
       call[c].step \in Joined \cup {"sent"} /\ c \notin refresh_ret_txs

(* A token that was about to expire still is, an answer that is on its way *)
(* or handed out is not, and who was told Ok has a later token.            *)
Young(t) == t # NoToken => t.expires_at >= now + Buffer
Later(t, f) == t # NoToken /\ f # NoToken => t.expires_at > f.expires_at
Dated(c) ==
  /\ call[c].found # NoToken => call[c].found.expires_at < now + Buffer
  /\ Young(call[c].answer)
  /\ call[c].step = "handing" /\ call[c].result = "ok" => Young(token)
  /\ call[c].told = "ok" => Later(token, call[c].found)
  /\ call[c].step = "sent" => Later(call[c].token, call[c].found)

HttpInv == HttpTypeOK /\ \A c \in Callers : Stepwise(c) /\ Dated(c)

-----------------------------------------------------------------------------
(* What is assumed of the constants.                                       *)
LEMMA Numbers ==
  /\ Buffer \in Nat /\ Lifetime \in Nat /\ Buffer <= Lifetime /\ Retries \in Nat
  /\ MaxTime \in Nat /\ MaxTokens \in Nat \ {0} /\ MaxDrops \in Nat
  /\ NoToken \notin Token
BY HttpAssumption DEF Token

(* The fields of a call, and how a step changes some of them.              *)
LEMMA CallFields ==
  ASSUME NEW k \in Call
  PROVE  /\ k.step \in Steps /\ k.found \in OptToken /\ k.token \in OptToken
         /\ k.answer \in OptToken /\ k.attempt \in 0 .. Retries
         /\ k.result \in {"none", "ok", "err"} /\ k.told \in {"none", "ok", "err"}
BY DEF Call

(* A caller that is idle again is a call.                                  *)
LEMMA IdleIsCall == Idle \in Call
BY Numbers DEF Idle, Call, Steps, OptToken

(* The date of a token.                                                    *)
LEMMA TokenFields ==
  ASSUME NEW t \in OptToken, t # NoToken
  PROVE  t \in Token /\ t.owner \in Users /\ t.user \in Users /\ t.expires_at \in Nat
BY DEF OptToken, Token

(* What GoTrue issues does not expire soon.                                *)
LEMMA NewToken ==
  ASSUME HttpTypeOK, NEW u \in Users
  PROVE  /\ New(u) \in Token /\ New(u) \in OptToken /\ New(u) # NoToken
         /\ New(u).expires_at >= now + Buffer
<1>1. now \in Nat
  BY Numbers DEF HttpTypeOK
<1>2. now + Lifetime \in Nat /\ now + Lifetime >= now + Buffer
  BY <1>1, Numbers
<1>3. QED
  BY <1>2, Numbers DEF New, Token, OptToken

-----------------------------------------------------------------------------
(* What a step of one caller leaves of the others.                         *)

(* The token is kept, unset, or replaced by one that expires no earlier or *)
(* not soon.                                                               *)
Renews ==
  /\ token' \in OptToken
  /\ token' # NoToken => \/ token # NoToken /\ token'.expires_at >= token.expires_at
                      \/ token'.expires_at >= now + Buffer

(* ClientToken::set renews the token.                                      *)
LEMMA SetRenews ==
  ASSUME HttpTypeOK, NEW t \in Token, Young(t), Set(t)
  PROVE  Renews /\ (token' # NoToken => token'.expires_at >= now + Buffer)
<1>1. t # NoToken /\ t.expires_at \in Nat /\ t.expires_at >= now + Buffer /\ t \in OptToken
  BY Numbers, TokenFields DEF Young, OptToken
<1>2. now \in Nat /\ token \in OptToken
  BY Numbers DEF HttpTypeOK
<1>3. CASE token # NoToken /\ token.expires_at > t.expires_at
  <2>1. token' = token /\ token.expires_at \in Nat
    BY <1>2, <1>3, TokenFields DEF Set
  <2>2. QED
    BY <1>1, <1>2, <1>3, <2>1, Numbers DEF Renews
<1>4. CASE ~(token # NoToken /\ token.expires_at > t.expires_at)
  <2>1. token' = t
    BY <1>4 DEF Set
  <2>2. QED
    BY <1>1, <2>1 DEF Renews
<1>5. QED
  BY <1>3, <1>4

(* To leave the token renews it.                                           *)
LEMMA KeepRenews ==
  ASSUME HttpTypeOK, token' = token
  PROVE  Renews
<1>1. token \in OptToken
  BY DEF HttpTypeOK
<1>2. token # NoToken => token.expires_at \in Nat
  BY <1>1, TokenFields
<1>3. QED
  BY <1>1, <1>2 DEF Renews

(* While a result is handed out, or who was told has not gone on, a        *)
(* renewed token will do.                                                  *)
LEMMA RenewedWillDo ==
  ASSUME HttpTypeOK, Renews, NEW f \in OptToken, f # NoToken => f.expires_at < now + Buffer
  PROVE  /\ Young(token) => (token' # NoToken => token'.expires_at >= now + Buffer)
         /\ Later(token, f) => Later(token', f)
<1>1. now \in Nat /\ token \in OptToken
  BY Numbers DEF HttpTypeOK
<1>2. /\ f # NoToken => f.expires_at \in Nat
      /\ token # NoToken => token.expires_at \in Nat
      /\ token' # NoToken => token'.expires_at \in Nat
  BY <1>1, TokenFields DEF Renews
<1>3. QED
  BY <1>1, <1>2, Numbers DEF Renews, Young, Later

(* A step of c changes nothing of the other callers.                       *)
Others(c) ==
  \A d \in Callers \ {c} :
    call'[d] = call[d] /\ (d \in refresh_ret_txs' => d \in refresh_ret_txs)

(* What was true of them stays so.                                         *)
LEMMA OthersKept ==
  ASSUME HttpInv, Renews, NEW c \in Callers, Others(c), now' = now, NEW d \in Callers \ {c}
  PROVE  Stepwise(d)' /\ Dated(d)'
<1>1. call'[d] = call[d] /\ (d \in refresh_ret_txs' => d \in refresh_ret_txs)
  BY DEF Others
<1>2. HttpTypeOK /\ Stepwise(d) /\ Dated(d) /\ call[d] \in Call
  BY DEF HttpInv, HttpTypeOK
<1>3. call[d].found \in OptToken
  BY <1>2, CallFields
<1>4. /\ Young(token) => (token' # NoToken => token'.expires_at >= now + Buffer)
      /\ Later(token, call[d].found) => Later(token', call[d].found)
  BY <1>2, <1>3, RenewedWillDo DEF Dated
<1>5. Stepwise(d)'
  BY <1>1, <1>2 DEF Stepwise
<1>6. Dated(d)'
  BY <1>1, <1>2, <1>4 DEF Dated, Young, Later
<1>7. QED
  BY <1>5, <1>6

(* The rest of the state that a step of c may change.                      *)
Frame(c) ==
  /\ now' = now /\ issued' \in 0 .. MaxTokens /\ drops' \in 0 .. MaxDrops
  /\ is_refreshing_token' \in BOOLEAN
  /\ refresh_ret_txs' \in {refresh_ret_txs, refresh_ret_txs \cup {c}, refresh_ret_txs \ {c}}

(* A step in which c gets to k keeps the invariant if it does so for c.    *)
LEMMA CallerSteps ==
  ASSUME HttpInv, Renews, NEW c \in Callers, Frame(c),
         NEW k \in Call, call' = [call EXCEPT ![c] = k],
         c \in refresh_ret_txs' => k.step \in Joined,
         call'[c] = k => Stepwise(c)' /\ Dated(c)'
  PROVE  HttpInv'
<1>0. HttpTypeOK /\ call \in [Callers -> Call]
  BY DEF HttpInv, HttpTypeOK
<1>1. /\ call' \in [Callers -> Call] /\ call'[c] = k
      /\ \A d \in Callers \ {c} : call'[d] = call[d]
  BY <1>0
<1>2. Others(c)
  BY <1>1 DEF Others, Frame
<1>3. \A d \in Callers : Stepwise(d)' /\ Dated(d)'
  BY <1>1, <1>2, OthersKept DEF Frame
<1>4. refresh_ret_txs' \subseteq {d \in Callers : call'[d].step \in Joined}
  BY <1>0, <1>1 DEF HttpTypeOK, Frame
<1>5. token' \in OptToken /\ now' \in 0 .. MaxTime
  BY <1>0 DEF HttpTypeOK, Frame, Renews
<1>6. HttpTypeOK'
  BY <1>1, <1>4, <1>5 DEF HttpTypeOK, Frame
<1>7. QED
  BY <1>3, <1>6 DEF HttpInv

(* A call returns.                                                         *)
LEMMA Returns ==
  ASSUME HttpInv, Renews, NEW c \in Callers, Frame(c), Return(c), c \notin refresh_ret_txs'
  PROVE  HttpInv'
<1>1. PICK k \in Call : k = Idle
  BY IdleIsCall
<1>2. call' = [call EXCEPT ![c] = k]
  BY <1>1 DEF Return
<1>3. /\ k.step = "idle" /\ k.found = NoToken /\ k.answer = NoToken /\ k.told = "none"
  BY <1>1 DEF Idle
<1>4. call'[c] = k => Stepwise(c)' /\ Dated(c)'
  BY <1>3 DEF Stepwise, Dated, Young, Later, Unchecked
<1>5. QED
  BY <1>2, <1>4, CallerSteps

(* A call goes on, to a step in which it has nothing new.                  *)
LEMMA Goes ==
  ASSUME HttpInv, token' = token, NEW c \in Callers, Frame(c), NEW s \in Steps, Goto(c, s),
         s \notin {"asking", "updating", "signing", "handing", "sent"},
         s \in Unchecked => call[c].found = NoToken,
         call[c].told # "none" => s \in Joined /\ c \notin refresh_ret_txs',
         c \in refresh_ret_txs' => s \in Joined
  PROVE  HttpInv'
<1>0. HttpTypeOK /\ call[c] \in Call /\ Dated(c)
  BY DEF HttpInv, HttpTypeOK
<1>1. PICK k : k = [call[c] EXCEPT !.step = s]
  OBVIOUS
<1>2. k \in Call
  BY <1>0, <1>1 DEF Call
<1>3. /\ k.step = s /\ k.found = call[c].found /\ k.answer = call[c].answer
      /\ k.told = call[c].told
  BY <1>0, <1>1 DEF Call
<1>4. call' = [call EXCEPT ![c] = k]
  BY <1>1 DEF Goto
<1>5. ASSUME call'[c] = k PROVE Stepwise(c)' /\ Dated(c)'
  <2>1. Stepwise(c)'
    BY <1>3, <1>5 DEF Stepwise
  <2>2. Dated(c)'
    BY <1>0, <1>3, <1>5 DEF Dated, Young, Later, Frame
  <2>3. QED
    BY <2>1, <2>2
<1>6. QED
  BY <1>0, <1>2, <1>3, <1>4, <1>5, CallerSteps, KeepRenews

(* A call takes the access token, if it found no old one or was told Ok.   *)
LEMMA Accesses ==
  ASSUME HttpInv, token' = token, NEW c \in Callers, Frame(c), access_token(c),
         c \notin refresh_ret_txs', call[c].found = NoToken \/ call[c].told = "ok"
  PROVE  HttpInv'
<1>0. HttpTypeOK /\ call[c] \in Call /\ Dated(c) /\ Renews /\ token \in OptToken
  BY KeepRenews DEF HttpInv, HttpTypeOK
<1>1. CASE token = NoToken
  BY <1>0, <1>1, Returns DEF access_token
<1>2. CASE token # NoToken
  <2>1. PICK k : k = [call[c] EXCEPT !.step = "sent", !.token = token]
    OBVIOUS
  <2>2. k \in Call
    BY <1>0, <2>1 DEF Call, Steps
  <2>3. /\ k.step = "sent" /\ k.token = token /\ k.found = call[c].found
        /\ k.answer = call[c].answer /\ k.told = call[c].told
    BY <1>0, <2>1 DEF Call
  <2>4. call' = [call EXCEPT ![c] = k]
    BY <1>2, <2>1 DEF access_token
  <2>5. ASSUME call'[c] = k PROVE Stepwise(c)' /\ Dated(c)'
    <3>1. Stepwise(c)'
      BY <1>2, <2>3, <2>5 DEF Stepwise, Unchecked
    <3>2. Later(token, call[c].found)
      BY <1>0 DEF Dated, Later
    <3>3. Dated(c)'
      BY <1>0, <2>3, <2>5, <3>2 DEF Dated, Young, Later, Frame
    <3>4. QED
      BY <3>1, <3>3
  <2>6. QED
    BY <1>0, <2>2, <2>4, <2>5, CallerSteps
<1>3. QED
  BY <1>1, <1>2

(* A refresh has a result.                                                 *)
LEMMA Results ==
  ASSUME HttpInv, Renews, NEW c \in Callers, Frame(c), refresh_ret_txs' = refresh_ret_txs,
         NEW r \in {"ok", "err"}, Result(c, r), call[c].step \in Joined,
         r = "ok" => (token' # NoToken => token'.expires_at >= now + Buffer)
  PROVE  HttpInv'
<1>0. HttpTypeOK /\ call[c] \in Call /\ Stepwise(c) /\ Dated(c)
  BY DEF HttpInv, HttpTypeOK
<1>1. PICK k : k = [call[c] EXCEPT !.step = "handing", !.result = r, !.token = NoToken,
                                   !.answer = NoToken]
  OBVIOUS
<1>2. k \in Call
  BY <1>0, <1>1 DEF Call, Steps, Joined, Refreshing, OptToken
<1>3. /\ k.step = "handing" /\ k.result = r /\ k.answer = NoToken /\ k.found = call[c].found
      /\ k.told = call[c].told
  BY <1>0, <1>1 DEF Call
<1>4. call' = [call EXCEPT ![c] = k]
  BY <1>1 DEF Result
<1>5. ASSUME call'[c] = k PROVE Stepwise(c)' /\ Dated(c)'
  <2>1. Stepwise(c)'
    BY <1>0, <1>3, <1>5 DEF Stepwise, Unchecked, Joined, Refreshing
  <2>2. Later(token, call[c].found) => Later(token', call[c].found)
    BY <1>0, CallFields, RenewedWillDo DEF Dated
  <2>3. Dated(c)'
    BY <1>0, <1>3, <1>5, <2>2 DEF Dated, Young, Later, Frame
  <2>4. QED
    BY <2>1, <2>3
<1>6. k.step \in Joined
  BY <1>3 DEF Joined, Refreshing
<1>7. QED
  BY <1>2, <1>4, <1>5, <1>6, CallerSteps

-----------------------------------------------------------------------------
(* The actions.                                                            *)

(* Signing in and out, and updating the user.                              *)
LEMMA SignStep == ASSUME HttpInv, NEW c \in Callers, Sign(c) PROVE HttpInv'
<1>0. /\ HttpTypeOK /\ call[c] \in Call /\ Stepwise(c) /\ Dated(c)
      /\ issued \in 0 .. MaxTokens /\ drops \in 0 .. MaxDrops /\ token \in OptToken
      /\ is_refreshing_token \in BOOLEAN
  BY DEF HttpInv, HttpTypeOK
<1>1. call[c].step \in Unchecked => c \notin refresh_ret_txs /\ call[c].told = "none"
  BY <1>0, Numbers DEF HttpTypeOK, Stepwise, Joined, Refreshing, Unchecked
<1>2. UNCHANGED <<refreshVars, world>> => Frame(c)
  BY <1>0 DEF refreshVars, world, Frame
<1>3. ASSUME NEW u \in Users, sign_in(c, u) PROVE HttpInv'
  <2>1. PICK k : k = [call[c] EXCEPT !.step = "signing", !.answer = New(u)]
    OBVIOUS
  <2>2. k \in Call
    BY <1>0, <2>1, NewToken DEF Call, Steps
  <2>3. /\ k.step = "signing" /\ k.answer = New(u) /\ k.found = call[c].found
        /\ k.told = call[c].told
    BY <1>0, <2>1 DEF Call
  <2>4. call' = [call EXCEPT ![c] = k]
    BY <1>3, <2>1 DEF sign_in
  <2>5. Frame(c)
    BY <1>0, <1>3, Numbers DEF sign_in, refreshVars, Frame
  <2>6. ASSUME call'[c] = k PROVE Stepwise(c)' /\ Dated(c)'
    <3>1. At(c, "idle") /\ call[c].found = NoToken /\ call[c].told = "none"
      BY <1>0, <1>1, <1>3 DEF sign_in, At, Stepwise, Unchecked
    <3>2. Stepwise(c)'
      BY <1>0, <2>3, <2>6, <3>1, NewToken DEF Stepwise
    <3>3. k.answer.expires_at >= now + Buffer
      BY <1>0, <2>3, NewToken
    <3>4. Dated(c)'
      BY <2>3, <2>5, <2>6, <3>1, <3>3 DEF Dated, Young, Later, Frame
    <3>5. QED
      BY <3>2, <3>4
  <2>7. token' = token /\ c \notin refresh_ret_txs'
    BY <1>1, <1>3 DEF sign_in, At, refreshVars, Unchecked
  <2>8. QED
    BY <1>0, <2>2, <2>4, <2>5, <2>6, <2>7, CallerSteps, KeepRenews
<1>4. CASE SignedIn(c)
  <2>1. call[c].answer \in Token /\ Young(call[c].answer)
    BY <1>0, <1>4, CallFields, TokenFields DEF SignedIn, At, Stepwise, Dated
  <2>2. Renews
    BY <1>0, <1>4, <2>1, SetRenews DEF SignedIn
  <2>3. Frame(c) /\ Return(c) /\ c \notin refresh_ret_txs'
    BY <1>1, <1>2, <1>4 DEF SignedIn, At, refreshVars, Unchecked
  <2>4. QED
    BY <2>2, <2>3, Returns
<1>5. CASE NotSignedIn(c)
  <2>1. Frame(c) /\ Return(c) /\ c \notin refresh_ret_txs' /\ token' = token
    BY <1>1, <1>2, <1>5 DEF NotSignedIn, At, refreshVars, Unchecked
  <2>2. QED
    BY <1>0, <2>1, Returns, KeepRenews
<1>6. CASE sign_out(c)
  <2>1. Frame(c) /\ Goto(c, "leaving") /\ c \notin refresh_ret_txs' /\ token' = token
    BY <1>1, <1>2, <1>6 DEF sign_out, At, refreshVars, Unchecked
  <2>2. call[c].found = NoToken /\ call[c].told = "none"
    BY <1>0, <1>1, <1>6 DEF sign_out, At, Stepwise, Unchecked
  <2>3. "leaving" \in Steps
    BY DEF Steps
  <2>4. QED
    BY <2>1, <2>2, <2>3, Goes
<1>7. CASE SignedOut(c)
  <2>1. Frame(c) /\ Return(c) /\ c \notin refresh_ret_txs' /\ token' \in {NoToken, token}
    BY <1>1, <1>2, <1>7 DEF SignedOut, At, refreshVars, Unchecked
  <2>2. Renews
    BY <1>0, <2>1, KeepRenews DEF Renews, OptToken
  <2>3. QED
    BY <2>1, <2>2, Returns
<1>8. CASE update_user(c)
  <2>1. PICK k : k = [call[c] EXCEPT !.step = "updating", !.token = token]
    OBVIOUS
  <2>2. k \in Call
    BY <1>0, <2>1 DEF Call, Steps
  <2>3. /\ k.step = "updating" /\ k.token = token /\ k.found = call[c].found
        /\ k.told = call[c].told /\ k.answer = call[c].answer
    BY <1>0, <2>1 DEF Call
  <2>4. call' = [call EXCEPT ![c] = k]
    BY <1>8, <2>1 DEF update_user
  <2>5. Frame(c) /\ token # NoToken /\ c \notin refresh_ret_txs' /\ token' = token
    BY <1>1, <1>2, <1>8 DEF update_user, At, refreshVars, Unchecked
  <2>6. call[c].found = NoToken /\ call[c].told = "none"
    BY <1>0, <1>1, <1>8 DEF update_user, At, Stepwise, Unchecked
  <2>7. ASSUME call'[c] = k PROVE Stepwise(c)' /\ Dated(c)'
    <3>1. Stepwise(c)'
      BY <2>3, <2>5, <2>6, <2>7 DEF Stepwise
    <3>2. Dated(c)'
      BY <1>0, <2>3, <2>5, <2>6, <2>7 DEF Dated, Young, Later, Frame
    <3>3. QED
      BY <3>1, <3>2
  <2>8. QED
    BY <1>0, <2>2, <2>4, <2>5, <2>7, CallerSteps, KeepRenews
<1>9. CASE Updated(c)
  <2>1. Frame(c) /\ c \notin refresh_ret_txs' /\ At(c, "updating")
    BY <1>1, <1>2, <1>9 DEF Updated, At, refreshVars, Unchecked
  <2>2. call[c].found = NoToken /\ call[c].told = "none" /\ call[c].token # NoToken
    BY <1>0, <1>1, <2>1 DEF At, Stepwise, Unchecked
  <2>3. CASE Return(c) /\ token' = token
    BY <1>0, <2>1, <2>3, Returns, KeepRenews
  <2>4. CASE /\ call' = [call EXCEPT ![c].step = "checking", ![c].token = NoToken]
             /\ token' = IF token = NoToken THEN NoToken
                         ELSE [token EXCEPT !.user = call[c].token.owner]
    <3>1. PICK k : k = [call[c] EXCEPT !.step = "checking", !.token = NoToken]
      OBVIOUS
    <3>2. k \in Call
      BY <1>0, <3>1 DEF Call, Steps, OptToken
    <3>3. /\ k.step = "checking" /\ k.found = call[c].found
          /\ k.told = call[c].told /\ k.answer = call[c].answer
      BY <1>0, <3>1 DEF Call
    <3>4. call' = [call EXCEPT ![c] = k]
      BY <2>4, <3>1
    <3>5. Renews
      <4>1. call[c].token.owner \in Users
        BY <1>0, <2>2, CallFields, TokenFields
      <4>2. CASE token = NoToken
        BY <2>4, <4>2 DEF Renews, OptToken
      <4>3. CASE token # NoToken
        <5>1. token \in Token /\ token.expires_at \in Nat
          BY <1>0, <4>3, TokenFields
        <5>2. token' \in Token /\ token'.expires_at = token.expires_at
          BY <2>4, <4>1, <4>3, <5>1 DEF Token
        <5>3. QED
          BY <4>3, <5>1, <5>2 DEF Renews, OptToken
      <4>4. QED
        BY <4>2, <4>3
    <3>6. ASSUME call'[c] = k PROVE Stepwise(c)' /\ Dated(c)'
      <4>1. Stepwise(c)'
        BY <2>2, <3>3, <3>6 DEF Stepwise
      <4>2. Dated(c)'
        BY <1>0, <2>1, <2>2, <3>3, <3>6 DEF Dated, Young, Later, Frame
      <4>3. QED
        BY <4>1, <4>2
    <3>7. QED
      BY <2>1, <3>2, <3>4, <3>5, <3>6, CallerSteps
  <2>5. QED
    BY <1>9, <2>3, <2>4 DEF Updated
<1>10. QED
  BY <1>3, <1>4, <1>5, <1>6, <1>7, <1>8, <1>9 DEF Sign

(* The requests to the server.                                             *)
LEMMA RequestStep == ASSUME HttpInv, NEW c \in Callers, Requests(c) PROVE HttpInv'
<1>0. /\ HttpTypeOK /\ call[c] \in Call /\ Stepwise(c) /\ Dated(c)
      /\ issued \in 0 .. MaxTokens /\ drops \in 0 .. MaxDrops /\ token \in OptToken
      /\ is_refreshing_token \in BOOLEAN
  BY DEF HttpInv, HttpTypeOK
<1>1. call[c].step \in Unchecked =>
        c \notin refresh_ret_txs /\ call[c].told = "none" /\ call[c].found = NoToken
  BY <1>0 DEF HttpTypeOK, Stepwise, Joined, Refreshing, Unchecked
<1>2. UNCHANGED <<refreshVars, world>> => Frame(c)
  BY <1>0 DEF refreshVars, world, Frame
<1>3. CASE refresh_if_expired(c)
  <2>1. Frame(c) /\ token' = token /\ c \notin refresh_ret_txs' /\ call[c].found = NoToken
        /\ call[c].told = "none"
    BY <1>1, <1>2, <1>3 DEF refresh_if_expired, refreshVars, Unchecked
  <2>2. CASE token # NoToken /\ Expiring(token)
    <3>1. PICK k : k = [call[c] EXCEPT !.step = "joining", !.found = token]
      OBVIOUS
    <3>2. k \in Call
      BY <1>0, <3>1 DEF Call, Steps
    <3>3. /\ k.step = "joining" /\ k.found = token
          /\ k.told = call[c].told /\ k.answer = call[c].answer
      BY <1>0, <3>1 DEF Call
    <3>4. call' = [call EXCEPT ![c] = k]
      BY <1>3, <2>2, <3>1 DEF refresh_if_expired
    <3>5. token.expires_at < now + Buffer
      <4>1. token.expires_at \in Nat /\ now \in Nat
        BY <1>0, <2>2, TokenFields, Numbers DEF HttpTypeOK
      <4>2. QED
        BY <2>2, <4>1, Numbers DEF Expiring
    <3>6. ASSUME call'[c] = k PROVE Stepwise(c)' /\ Dated(c)'
      <4>1. Stepwise(c)'
        BY <2>1, <3>3, <3>6 DEF Stepwise, Unchecked
      <4>2. Dated(c)'
        BY <1>0, <2>1, <3>3, <3>5, <3>6 DEF Dated, Young, Later, Frame
      <4>3. QED
        BY <4>1, <4>2
    <3>7. QED
      BY <1>0, <2>1, <3>2, <3>4, <3>6, CallerSteps, KeepRenews
  <2>3. CASE ~(token # NoToken /\ Expiring(token))
    BY <1>3, <2>1, <2>3, Accesses DEF refresh_if_expired
  <2>4. QED
    BY <2>2, <2>3
<1>4. CASE admin_request(c)
  <2>1. Frame(c) /\ token' = token /\ c \notin refresh_ret_txs' /\ call[c].found = NoToken
    BY <1>1, <1>2, <1>4 DEF admin_request, At, refreshVars, Unchecked
  <2>2. QED
    BY <1>4, <2>1, Accesses DEF admin_request
<1>5. ASSUME create_collab_list(c) \/ (Compressed(c) /\ ~Return(c)) PROVE HttpInv'
  <2>1. PICK s \in {"compressing", "checking"} : Goto(c, s)
    BY <1>5 DEF create_collab_list, Compressed
  <2>2. /\ Frame(c) /\ token' = token /\ c \notin refresh_ret_txs' /\ call[c].found = NoToken
        /\ call[c].told = "none"
    BY <1>1, <1>2, <1>5 DEF create_collab_list, Compressed, At, refreshVars, Unchecked
  <2>3. s \in Steps
    BY DEF Steps
  <2>4. QED
    BY <2>1, <2>2, <2>3, Goes
<1>6. ASSUME Respond(c) \/ (Compressed(c) /\ Return(c)) PROVE HttpInv'
  <2>1. c \notin refresh_ret_txs
    BY <1>0, <1>6 DEF HttpTypeOK, Respond, Compressed, At, Joined, Refreshing
  <2>2. Frame(c) /\ token' = token /\ c \notin refresh_ret_txs' /\ Return(c)
    BY <1>2, <1>6, <2>1 DEF Respond, Compressed, refreshVars
  <2>3. QED
    BY <1>0, <2>2, Returns, KeepRenews
<1>7. QED
  BY <1>3, <1>4, <1>5, <1>6 DEF Requests

(* A caller refreshes the token, or waits for who does.                    *)
LEMMA RefreshStep ==
  ASSUME HttpInv, NEW c \in Callers, (Refresh(c) /\ ~HandOut(c)) \/ IssueRefresh(c)
  PROVE  HttpInv'
<1>0. /\ HttpTypeOK /\ call[c] \in Call /\ Stepwise(c) /\ Dated(c)
      /\ issued \in 0 .. MaxTokens /\ drops \in 0 .. MaxDrops /\ token \in OptToken
      /\ is_refreshing_token \in BOOLEAN
  BY DEF HttpInv, HttpTypeOK
<1>1. \A s \in Joined : s \in Steps /\ s \notin Unchecked \cup {"signing", "sent", "joining"}
  BY DEF Joined, Refreshing, Steps, Unchecked
<1>2. UNCHANGED <<refreshVars, world>> => Frame(c)
  BY <1>0 DEF refreshVars, world, Frame
<1>3. {"joined", "waiting", "claiming", "refreshing", "asking", "clearing"} \subseteq Joined
  BY DEF Joined, Refreshing
<1>4. ASSUME Join(c) \/ Load(c) \/ Store(c) \/ Cleared(c) PROVE HttpInv'
  <2>1. PICK s \in {"joined", "waiting", "claiming", "refreshing"} : Goto(c, s)
    BY <1>4 DEF Join, Load, Store, Cleared
  <2>2. Frame(c) /\ token' = token
    BY <1>0, <1>4 DEF Join, Load, Store, Cleared, Frame, world, refreshVars
  <2>3. call[c].told # "none" => c \notin refresh_ret_txs'
    BY <1>0, <1>4 DEF Join, Load, Store, Cleared, Stepwise, At, Joined, Refreshing, refreshVars
  <2>4. s \in Joined /\ s \in Steps /\ s \notin Unchecked
    BY <1>1, <1>3
  <2>5. QED
    BY <2>1, <2>2, <2>3, <2>4, Goes DEF Unchecked
<1>5. CASE RunAction(c)
  <2>1. Frame(c) /\ token' = token /\ refresh_ret_txs' = refresh_ret_txs
    BY <1>2, <1>5 DEF RunAction, refreshVars
  <2>2. call[c].step = "refreshing" /\ call[c].step \in Joined
    BY <1>3, <1>5 DEF RunAction, At
  <2>3. CASE token = NoToken
    BY <1>0, <1>5, <2>1, <2>2, <2>3, Results, KeepRenews DEF RunAction
  <2>4. CASE token # NoToken
    <3>1. PICK k : k = [call[c] EXCEPT !.step = "asking", !.token = token]
      OBVIOUS
    <3>2. k \in Call
      BY <1>0, <3>1 DEF Call, Steps, Joined, Refreshing
    <3>3. /\ k.step = "asking" /\ k.found = call[c].found /\ k.token = token
          /\ k.told = call[c].told /\ k.answer = call[c].answer
      BY <1>0, <3>1 DEF Call
    <3>4. call' = [call EXCEPT ![c] = k]
      BY <1>5, <2>4, <3>1 DEF RunAction
    <3>5. ASSUME call'[c] = k PROVE Stepwise(c)' /\ Dated(c)'
      <4>1. Stepwise(c)'
        BY <1>0, <1>1, <1>3, <2>1, <2>2, <2>4, <3>3, <3>5 DEF Stepwise, Unchecked
      <4>2. Dated(c)'
        BY <1>0, <2>1, <3>3, <3>5 DEF Dated, Young, Later, Frame
      <4>3. QED
        BY <4>1, <4>2
    <3>6. QED
      BY <1>0, <1>3, <2>1, <3>2, <3>3, <3>4, <3>5, CallerSteps, KeepRenews
  <2>5. QED
    BY <2>3, <2>4
<1>6. CASE IssueRefresh(c)
  <2>1. call[c].step = "asking" /\ call[c].step \in Joined
    BY <1>3, <1>6 DEF IssueRefresh, At
  <2>2. call[c].token.owner \in Users
    BY <1>0, <2>1, CallFields, TokenFields DEF Stepwise
  <2>3. PICK u \in Users : u = call[c].token.owner
    BY <2>2
  <2>4. PICK k : k = [call[c] EXCEPT !.answer = New(u)]
    OBVIOUS
  <2>5. k \in Call
    BY <1>0, <2>4, NewToken DEF Call
  <2>6. /\ k.step = call[c].step /\ k.found = call[c].found /\ k.token = call[c].token
        /\ k.told = call[c].told /\ k.answer = New(u)
    BY <1>0, <2>4 DEF Call
  <2>7. call' = [call EXCEPT ![c] = k]
    BY <1>6, <2>3, <2>4 DEF IssueRefresh, Issue
  <2>8. Frame(c) /\ token' = token /\ refresh_ret_txs' = refresh_ret_txs
    BY <1>0, <1>6, Numbers DEF IssueRefresh, Issue, refreshVars, Frame
  <2>9. ASSUME call'[c] = k PROVE Stepwise(c)' /\ Dated(c)'
    <3>1. Stepwise(c)'
      BY <1>0, <2>1, <2>6, <2>8, <2>9 DEF Stepwise
    <3>2. k.answer.expires_at >= now + Buffer
      BY <1>0, <2>6, NewToken
    <3>3. Dated(c)'
      BY <1>0, <2>1, <2>6, <2>8, <2>9, <3>2 DEF Dated, Young, Later, Frame
    <3>4. QED
      BY <3>1, <3>3
  <2>10. QED
    BY <1>0, <2>1, <2>5, <2>6, <2>7, <2>8, <2>9, CallerSteps, KeepRenews
<1>7. CASE Refreshed(c)
  <2>1. call[c].step = "asking" /\ call[c].step \in Joined
    BY <1>3, <1>7 DEF Refreshed, At
  <2>2. call[c].answer \in Token /\ Young(call[c].answer)
    BY <1>0, <1>7, CallFields, TokenFields DEF Refreshed, Dated
  <2>3. Renews /\ (token' # NoToken => token'.expires_at >= now + Buffer)
    BY <1>0, <1>7, <2>2, SetRenews DEF Refreshed
  <2>4. Frame(c) /\ refresh_ret_txs' = refresh_ret_txs /\ Result(c, "ok")
    BY <1>2, <1>7 DEF Refreshed, refreshVars
  <2>5. QED
    BY <2>1, <2>3, <2>4, Results
<1>8. ASSUME NetworkError(c) \/ Refused(c) PROVE HttpInv'
  <2>1. call[c].step = "asking" /\ call[c].step \in Joined
    BY <1>3, <1>8 DEF NetworkError, Refused, At
  <2>2. Frame(c) /\ refresh_ret_txs' = refresh_ret_txs /\ token' = token
    BY <1>2, <1>8 DEF NetworkError, Refused, refreshVars
  <2>3. CASE Result(c, "err")
    BY <1>0, <2>1, <2>2, <2>3, Results, KeepRenews
  <2>4. CASE ~Result(c, "err")
    <3>1. PICK k : k = [call[c] EXCEPT !.step = "refreshing", !.token = NoToken,
                                       !.answer = NoToken, !.attempt = @ + 1]
      OBVIOUS
    <3>2. call' = [call EXCEPT ![c] = k] /\ call[c].attempt < Retries
      BY <1>8, <2>4, <3>1 DEF NetworkError, Refused
    <3>3. call[c].attempt + 1 \in 0 .. Retries
      BY <1>0, <3>2, Numbers, CallFields
    <3>4. k \in Call
      BY <1>0, <3>1, <3>3 DEF Call, Steps, Joined, Refreshing, OptToken
    <3>5. /\ k.step = "refreshing" /\ k.found = call[c].found
          /\ k.told = call[c].told /\ k.answer = NoToken
      BY <1>0, <3>1 DEF Call
    <3>6. ASSUME call'[c] = k PROVE Stepwise(c)' /\ Dated(c)'
      <4>1. Stepwise(c)'
        BY <1>0, <1>3, <2>1, <2>2, <3>5, <3>6 DEF Stepwise, Unchecked
      <4>2. Dated(c)'
        BY <1>0, <2>2, <3>5, <3>6 DEF Dated, Young, Later, Frame
      <4>3. QED
        BY <4>1, <4>2
    <3>7. QED
      BY <1>0, <1>3, <2>2, <3>2, <3>4, <3>5, <3>6, CallerSteps, KeepRenews
  <2>5. QED
    BY <2>3, <2>4
<1>9. QED
  BY <1>4, <1>5, <1>6, <1>7, <1>8 DEF Refresh, GoTrueAnswers, HandOut, Join, Load, Store,
     Cleared, RunAction, At

(* Who waits is told, waits too long, or is dropped.                       *)
LEMMA LeaveStep ==
  ASSUME HttpInv, NEW c \in Callers, Answered(c) \/ Timeout(c) \/ Drop(c)
  PROVE  HttpInv'
<1>0. /\ HttpTypeOK /\ call[c] \in Call /\ Stepwise(c) /\ (token' = token => Renews)
      /\ issued \in 0 .. MaxTokens /\ drops \in 0 .. MaxDrops
      /\ is_refreshing_token \in BOOLEAN
  BY KeepRenews DEF HttpInv, HttpTypeOK
<1>1. Frame(c) /\ token' = token
  BY <1>0, Numbers DEF Answered, Timeout, Drop, refreshVars, world, Frame
<1>2. c \notin refresh_ret_txs'
  BY <1>0 DEF Answered, Timeout, Drop, Stepwise, refreshVars
<1>3. CASE Answered(c) /\ call[c].told = "ok"
  BY <1>1, <1>2, <1>3, Accesses DEF Answered
<1>4. CASE Return(c)
  BY <1>0, <1>1, <1>2, <1>4, Returns
<1>5. QED
  BY <1>3, <1>4 DEF Answered, Timeout, Drop

(* The callers in the queue are told, Ok only if the token was replaced    *)
(* after the one they found.                                               *)
LEMMA HandOutStep == ASSUME HttpInv, NEW c \in Callers, HandOut(c) PROVE HttpInv'
<1>0. /\ HttpTypeOK /\ call \in [Callers -> Call]
      /\ \A d \in Callers : call[d] \in Call /\ Stepwise(d) /\ Dated(d)
  BY DEF HttpInv, HttpTypeOK
<1>1. PICK r : r = call[c].result
  OBVIOUS
<1>2. /\ call[c].step = "handing" /\ r \in {"none", "ok", "err"}
      /\ r = "ok" => Young(token)
      /\ refresh_ret_txs' = {} /\ UNCHANGED <<token, is_refreshing_token, world>>
  BY <1>0, <1>1, CallFields DEF HandOut, At, Dated
<1>3. {"handing", "clearing"} \subseteq Joined /\ "clearing" \in Steps
      /\ \A s \in Joined : s \notin Unchecked \cup {"sent"}
  BY DEF Joined, Refreshing, Steps, Unchecked
<1>4. ASSUME NEW d \in Callers
      PROVE  /\ call'[d] \in Call
             /\ call'[d].step \in IF d = c THEN {"clearing"} ELSE {call[d].step}
             /\ call'[d].found = call[d].found /\ call'[d].token = call[d].token
             /\ call'[d].answer = call[d].answer
             /\ d # c => call'[d].result = call[d].result
             /\ call'[d].told = IF d \in refresh_ret_txs THEN r ELSE call[d].told
  <2>1. PICK k : k = IF d \in refresh_ret_txs THEN [call[d] EXCEPT !.told = r] ELSE call[d]
    OBVIOUS
  <2>2. /\ k \in Call /\ k.step = call[d].step /\ k.found = call[d].found
        /\ k.token = call[d].token /\ k.answer = call[d].answer /\ k.result = call[d].result
        /\ k.told = IF d \in refresh_ret_txs THEN r ELSE call[d].told
    BY <1>0, <1>2, <2>1 DEF Call
  <2>3. call'[d] = IF d = c THEN [k EXCEPT !.step = "clearing", !.result = "none"] ELSE k
    BY <1>1, <2>1 DEF HandOut
  <2>4. CASE d = c
    BY <1>3, <2>2, <2>3, <2>4 DEF Call
  <2>5. CASE d # c
    BY <2>2, <2>3, <2>5
  <2>6. QED
    BY <2>4, <2>5
<1>5. call' \in [Callers -> Call]
  <2>1. call' = [d \in Callers |-> call'[d]]
    BY DEF HandOut
  <2>2. QED
    BY <1>4, <2>1
<1>6. HttpTypeOK'
  BY <1>0, <1>2, <1>5 DEF HttpTypeOK, world
<1>7. ASSUME NEW d \in Callers PROVE Stepwise(d)' /\ Dated(d)'
  <2>1. d \in refresh_ret_txs => call[d].step \in Joined
    BY <1>0 DEF HttpTypeOK
  <2>2. Stepwise(d)'
    BY <1>0, <1>2, <1>3, <1>4, <2>1 DEF Stepwise, Unchecked
  <2>3. Young(token) => Later(token, call[d].found)
    <3>1. now \in Nat /\ token \in OptToken /\ call[d].found \in OptToken
      BY <1>0, Numbers, CallFields DEF HttpTypeOK
    <3>2. /\ token # NoToken => token.expires_at \in Nat
          /\ call[d].found # NoToken => call[d].found.expires_at \in Nat
      BY <3>1, TokenFields
    <3>3. QED
      BY <1>0, <3>1, <3>2, Numbers DEF Dated, Young, Later
  <2>4. Dated(d)'
    BY <1>0, <1>2, <1>4, <2>3 DEF Dated, Young, Later, world
  <2>5. QED
    BY <2>2, <2>4
<1>8. QED
  BY <1>6, <1>7 DEF HttpInv

(* The clock runs.                                                         *)
LEMMA TickStep == ASSUME HttpInv, ClockTick PROVE HttpInv'
<1>0. HttpTypeOK /\ \A d \in Callers : call[d] \in Call /\ Stepwise(d) /\ Dated(d)
  BY DEF HttpInv, HttpTypeOK
<1>1. /\ UNCHANGED <<token, is_refreshing_token, refresh_ret_txs, call, issued, drops>>
      /\ now \in Nat /\ now' = now + 1 /\ now' \in 0 .. MaxTime
  BY <1>0, Numbers DEF ClockTick, HttpTypeOK, refreshVars
<1>2. HttpTypeOK'
  BY <1>0, <1>1 DEF HttpTypeOK
<1>3. ASSUME NEW d \in Callers PROVE Stepwise(d)' /\ Dated(d)'
  <2>1. Stepwise(d)'
    BY <1>0, <1>1 DEF Stepwise
  <2>2. call[d].step # "handing"
        /\ (call[d].answer # NoToken => now + 1 + Buffer <= call[d].answer.expires_at)
    BY DEF ClockTick
  <2>3. /\ call[d].found # NoToken => call[d].found.expires_at \in Nat
        /\ call[d].answer # NoToken => call[d].answer.expires_at \in Nat
    BY <1>0, CallFields, TokenFields
  <2>4. /\ call[d].found # NoToken => call[d].found.expires_at < now' + Buffer
        /\ call[d].answer # NoToken => call[d].answer.expires_at >= now' + Buffer
    BY <1>0, <1>1, <2>2, <2>3, Numbers DEF Dated
  <2>5. Dated(d)'
    BY <1>0, <1>1, <2>2, <2>4 DEF Dated, Young, Later
  <2>6. QED
    BY <2>1, <2>5
<1>4. QED
  BY <1>2, <1>3 DEF HttpInv

(* Every step keeps the invariant, and it holds in every reachable state.  *)
LEMMA HttpInvHolds == HttpSpec => []HttpInv
<1>1. HttpInit => HttpInv
  <2> SUFFICES ASSUME HttpInit PROVE HttpInv
    OBVIOUS
  <2>1. token \in OptToken
    <3>1. \A u \in Users : restore_token(u) \in Token
      BY Numbers DEF restore_token, Token
    <3>2. QED
      BY <3>1 DEF HttpInit, OptToken
  <2>2. call \in [Callers -> Call] /\ \A c \in Callers : call[c] = Idle
    BY IdleIsCall DEF HttpInit
  <2>3. HttpTypeOK
    <3>1. now \in 0 .. MaxTime /\ issued \in 0 .. MaxTokens /\ drops \in 0 .. MaxDrops
      BY Numbers DEF HttpInit
    <3>2. is_refreshing_token \in BOOLEAN /\ refresh_ret_txs = {}
      BY DEF HttpInit
    <3>3. QED
      BY <2>1, <2>2, <3>1, <3>2 DEF HttpTypeOK
  <2>4. \A c \in Callers : Stepwise(c) /\ Dated(c)
    BY <2>2 DEF Stepwise, Dated, Idle, Young, Later, Unchecked
  <2>5. QED
    BY <2>3, <2>4 DEF HttpInv
<1>2. HttpInv /\ [HttpNext]_httpVars => HttpInv'
  <2> SUFFICES ASSUME HttpInv, [HttpNext]_httpVars PROVE HttpInv'
    OBVIOUS
  <2>1. CASE UNCHANGED httpVars
    BY <2>1 DEF httpVars, HttpInv, HttpTypeOK, Stepwise, Dated, Young, Later
  <2>2. QED
    BY <2>1, SignStep, RequestStep, RefreshStep, HandOutStep, LeaveStep, TickStep DEF HttpNext
<1>3. QED
  BY <1>1, <1>2, PTL DEF HttpSpec

-----------------------------------------------------------------------------
(* Every reachable state is well typed: in particular only callers that    *)
(* refresh or wait have their sender in the queue (refresh_token).         *)
THEOREM HttpTypes == HttpSpec => []HttpTypeOK
<1>1. HttpInv => HttpTypeOK
  BY DEF HttpInv
<1>2. QED
  BY <1>1, HttpInvHolds, PTL

(* No request is sent with the token that its caller found about to        *)
(* expire, or with an older one, whoever refreshed it, whatever failed and *)
(* whoever signed in or out meanwhile (refresh_if_expired, refresh_token). *)
THEOREM NeverSentStale == HttpSpec => []SentFresh
<1>1. HttpInv => SentFresh
  <2> SUFFICES ASSUME HttpInv, NEW c \in Callers, At(c, "sent"), call[c].found # NoToken
               PROVE  call[c].token.expires_at > call[c].found.expires_at
    BY DEF SentFresh
  <2>1. Later(call[c].token, call[c].found)
    BY DEF HttpInv, Dated, At
  <2>2. call[c].token # NoToken
    BY DEF HttpInv, Stepwise, At
  <2>3. QED
    BY <2>1, <2>2 DEF Later
<1>2. QED
  BY <1>1, HttpInvHolds, PTL

(* The answer of a slow refresh or sign-in does not replace a token that    *)
(* lasts longer, and update_user changes the one there is by then: as long  *)
(* as there is a session its token never goes back to an older one          *)
(* (ClientToken::set, RefreshTokenAction::run, update_user).                *)
THEOREM SessionNeverAges ==
  HttpSpec => [][token # NoToken /\ token' # NoToken
                   => token'.expires_at >= token.expires_at]_httpVars
<1>1. ASSUME HttpInv, [HttpNext]_httpVars, token # NoToken, token' # NoToken
      PROVE  token'.expires_at >= token.expires_at
  <2>0. /\ token \in Token /\ token.expires_at \in Nat
        /\ \A c \in Callers : call[c].answer \in OptToken /\ Stepwise(c)
    BY <1>1, TokenFields, CallFields DEF HttpInv, HttpTypeOK, OptToken
  <2>1. CASE token' = token
    BY <2>0, <2>1
  <2>2. ASSUME NEW c \in Callers, Set(call[c].answer), call[c].answer # NoToken
        PROVE  token'.expires_at >= token.expires_at
    <3>1. call[c].answer.expires_at \in Nat
      BY <2>0, <2>2, TokenFields
    <3>2. QED
      BY <1>1, <2>0, <2>2, <3>1 DEF Set
  <2>3. ASSUME NEW c \in Callers, SignedIn(c) PROVE token'.expires_at >= token.expires_at
    BY <2>0, <2>2, <2>3 DEF SignedIn, At, Stepwise
  <2>4. ASSUME NEW c \in Callers, Refreshed(c) PROVE token'.expires_at >= token.expires_at
    BY <2>2, <2>4 DEF Refreshed
  <2>5. ASSUME NEW c \in Callers, Updated(c) PROVE token'.expires_at >= token.expires_at
    <3>1. CASE token' = [token EXCEPT !.user = call[c].token.owner]
      <4>1. token'.expires_at = token.expires_at
        BY <2>0, <3>1 DEF Token
      <4>2. QED
        BY <2>0, <4>1
    <3>2. QED
      BY <1>1, <2>1, <2>5, <3>1 DEF Updated
  <2>6. QED
    BY <1>1, <2>1, <2>3, <2>4, <2>5
    DEF HttpNext, ClockTick, Sign, sign_in, NotSignedIn, sign_out, SignedOut, update_user,
        Requests, refresh_if_expired, admin_request, create_collab_list, Compressed, Respond,
        Refresh, Join, Load, Store, RunAction, GoTrueAnswers, NetworkError, Refused, HandOut,
        Cleared, IssueRefresh, Answered, Timeout, Drop, httpVars
<1>2. QED
  BY <1>1, HttpInvHolds, PTL DEF HttpSpec

-----------------------------------------------------------------------------
(* The websocket client.                                                   *)

(* What a connection is, with batches of S.                                *)
Connection(S) ==
  [phase : {"none", "checked", "connecting", "up", "failed"}, info : Infos \cup {None},
   open : BOOLEAN, sender : Task, recv : Task, ping : Task,
   ping_count : 0 .. retry_connect_per_pings, out : S]
Shaped == conn \in [Conns -> Connection(SUBSET published)]

(* A connection that is up stays it, whatever becomes of its tasks.        *)
StayUp == \A c \in Conns : conn[c].phase = "up" => conn'[c].phase = "up"

(* The sender that nobody told to stop is the one that the client can tell *)
(* to stop, even if connect has still to start it; so is the pinger.       *)
Owned ==
  \A c \in Conns :
    /\ conn[c].sender = "running" => c = stop_ws_msg_loop_tx
    /\ conn[c].phase = "connecting" /\ conn[c].sender = "none" => c = stop_ws_msg_loop_tx
    /\ conn[c].ping = "running" => c = pinger

(* Where a task only ends, and no connection is begun, all stay owned.     *)
LEMMA OwnedQuietly ==
  ASSUME Owned, UNCHANGED <<stop_ws_msg_loop_tx, pinger>>,
         \A c \in Conns :
           /\ conn'[c].sender \in {conn[c].sender, "ended"}
           /\ conn'[c].ping \in {conn[c].ping, "ended"}
           /\ conn'[c].phase = conn[c].phase \/ conn'[c].phase # "connecting"
  PROVE  Owned'
BY DEF Owned

(* A connection that one of its tasks changes.                             *)
LEMMA OneConnection ==
  ASSUME Owned, Shaped, UNCHANGED <<stop_ws_msg_loop_tx, pinger, published>>,
         NEW c \in Conns, NEW k \in Connection(SUBSET published), conn' = [conn EXCEPT ![c] = k],
         k.sender \in {conn[c].sender, "ended"}, k.ping \in {conn[c].ping, "ended"},
         \/ k.phase = conn[c].phase
         \/ conn[c].phase # "up" /\ k.phase # "connecting"
  PROVE  Owned' /\ Shaped' /\ StayUp
<1>1. conn \in [Conns -> Connection(SUBSET published)]
  BY DEF Shaped
<1>2. conn'[c] = k /\ \A d \in Conns \ {c} : conn'[d] = conn[d]
  BY <1>1
<1>3. Owned'
  BY <1>2, OwnedQuietly
<1>4. Shaped'
  BY <1>1 DEF Shaped
<1>5. StayUp
  BY <1>2 DEF StayUp
<1>6. QED
  BY <1>3, <1>4, <1>5

(* Those that a connection is told to stop.                                *)
LEMMA CleanedFacts ==
  ASSUME NEW S, conn \in [Conns -> Connection(S)]
  PROVE  /\ Cleaned \in [Conns -> Connection(S)]
         /\ StopPing(conn) \in [Conns -> Connection(S)]
         /\ StopSender(conn) \in [Conns -> Connection(S)]
         /\ \A c \in Conns :
              /\ StopSender(conn)[c].phase = conn[c].phase
              /\ StopSender(conn)[c].ping = conn[c].ping
              /\ StopSender(conn)[c].sender =
                   IF c = stop_ws_msg_loop_tx THEN Told(conn[c].sender) ELSE conn[c].sender
              /\ Cleaned[c].phase = conn[c].phase
              /\ Cleaned[c].sender =
                   IF c = stop_ws_msg_loop_tx THEN Told(conn[c].sender) ELSE conn[c].sender
              /\ Cleaned[c].ping =
                   IF c = pinger THEN Told(conn[c].ping) ELSE conn[c].ping
              /\ StopPing(conn)[c].phase = conn[c].phase
              /\ StopPing(conn)[c].sender = conn[c].sender
              /\ StopPing(conn)[c].ping =
                   IF c = pinger THEN Told(conn[c].ping) ELSE conn[c].ping
<1>1. \A t : Told(t) \in Task
  BY DEF Told, Task
<1>2. ASSUME NEW cs \in [Conns -> Connection(S)]
      PROVE  /\ StopSender(cs) \in [Conns -> Connection(S)]
             /\ \A c \in Conns :
                  /\ StopSender(cs)[c].phase = cs[c].phase
                  /\ StopSender(cs)[c].sender =
                       IF c = stop_ws_msg_loop_tx THEN Told(cs[c].sender) ELSE cs[c].sender
                  /\ StopSender(cs)[c].ping = cs[c].ping
  <2>1. ASSUME NEW c \in Conns
        PROVE  LET k == [cs[c] EXCEPT !.sender = Told(cs[c].sender)]
               IN  /\ k \in Connection(S) /\ k.phase = cs[c].phase
                   /\ k.sender = Told(cs[c].sender) /\ k.ping = cs[c].ping
    BY <1>1, <1>2 DEF Connection
  <2>2. QED
    BY <1>2, <2>1 DEF StopSender
<1>3. ASSUME NEW cs \in [Conns -> Connection(S)]
      PROVE  /\ StopPing(cs) \in [Conns -> Connection(S)]
             /\ \A c \in Conns :
                  /\ StopPing(cs)[c].phase = cs[c].phase
                  /\ StopPing(cs)[c].sender = cs[c].sender
                  /\ StopPing(cs)[c].ping =
                       IF c = pinger THEN Told(cs[c].ping) ELSE cs[c].ping
  <2>1. ASSUME NEW c \in Conns
        PROVE  LET k == [cs[c] EXCEPT !.ping = Told(cs[c].ping)]
               IN  /\ k \in Connection(S) /\ k.phase = cs[c].phase
                   /\ k.sender = cs[c].sender /\ k.ping = Told(cs[c].ping)
    BY <1>1, <1>3 DEF Connection
  <2>2. QED
    BY <1>3, <2>1 DEF StopPing
<1>4. QED
  BY <1>2, <1>3 DEF Cleaned

(* A set of naturals has a least element.                                  *)
LEMMA LeastNatural ==
  ASSUME NEW T \in SUBSET Nat, T # {}
  PROVE  \E x \in T : \A y \in T : x <= y
<1> DEFINE L == OpToRel(<, Nat)
<1>1. IsWellFoundedOn(L, Nat)
  BY NatLessThanWellFounded
<1>2. \A x, y \in Nat : y < x => <<y, x>> \in L
  BY DEF OpToRel
<1> HIDE DEF L
<1>3. PICK x \in T : \A y \in T : ~(<<y, x>> \in L)
  BY <1>1, WFMin
<1>4. \A y \in T : ~(y < x) /\ y \in Nat /\ x \in Nat
  BY <1>2, <1>3
<1>5. QED
  BY <1>4

(* What next_batch_message takes out of the queue, and what it leaves.     *)
LEMMA BatchType ==
  ASSUME NEW P, NEW s \in Seq(P)
  PROVE  /\ ToSet(next_batch_message(s).batch) \in SUBSET P
         /\ next_batch_message(s).rest \in Seq(P)
<1> DEFINE Ends(i) == i = Len(s) \/ Full(SubSeq(s, 1, i))
           First(i) == Ends(i) /\ \A j \in 0 .. i - 1 : ~Full(SubSeq(s, 1, j))
           T == {i \in 0 .. Len(s) : Ends(i)}
<1>1. Len(s) \in T /\ T \in SUBSET Nat
  OBVIOUS
<1>2. PICK x \in T : \A y \in T : x <= y
  <2> HIDE DEF T
  <2>1. QED
    BY <1>1, LeastNatural
<1>3. x \in 0 .. Len(s) /\ First(x)
  <2>1. ASSUME NEW j \in 0 .. x - 1 PROVE ~Ends(j)
    BY <1>1, <1>2, <2>1
  <2>2. QED
    BY <1>2, <2>1
<1>4. PICK k \in 0 .. Len(s) : k = CHOOSE i \in 0 .. Len(s) : First(i)
  <2> HIDE DEF First
  <2>1. QED
    BY <1>3
<1>5. next_batch_message(s) = [batch |-> SubSeq(s, 1, k), rest |-> SubSeq(s, k + 1, Len(s))]
  BY <1>4 DEF next_batch_message
<1>6. SubSeq(s, 1, k) \in Seq(P) /\ SubSeq(s, k + 1, Len(s)) \in Seq(P)
  BY SubSeqProperties
<1>7. QED
  BY <1>5, <1>6 DEF ToSet

(* Connecting and disconnecting replaces what it stops.                    *)
LEMMA ConnectingOwned ==
  ASSUME Owned, Shaped,
         \/ \E c \in Conns : StartConnecting(c) \/ ConnectSucceeds(c)
         \/ disconnect \/ Disconnected
  PROVE  Owned' /\ Shaped' /\ StayUp
<1>0. UNCHANGED published
  BY DEF StartConnecting, ConnectSucceeds, disconnect, Disconnected, Clear, messages
<1>1. PICK S : S = SUBSET published /\ conn \in [Conns -> Connection(S)]
  BY DEF Shaped
<1>2. /\ Cleaned \in [Conns -> Connection(S)]
      /\ StopPing(conn) \in [Conns -> Connection(S)]
      /\ StopSender(conn) \in [Conns -> Connection(S)]
      /\ \A c \in Conns :
           /\ StopSender(conn)[c].phase = conn[c].phase
           /\ StopSender(conn)[c].ping = conn[c].ping
           /\ StopSender(conn)[c].sender =
                IF c = stop_ws_msg_loop_tx THEN Told(conn[c].sender) ELSE conn[c].sender
           /\ Cleaned[c].phase = conn[c].phase
           /\ Cleaned[c].sender =
                IF c = stop_ws_msg_loop_tx THEN Told(conn[c].sender) ELSE conn[c].sender
           /\ Cleaned[c].ping = IF c = pinger THEN Told(conn[c].ping) ELSE conn[c].ping
           /\ StopPing(conn)[c].phase = conn[c].phase
           /\ StopPing(conn)[c].sender = conn[c].sender
           /\ StopPing(conn)[c].ping =
                IF c = pinger THEN Told(conn[c].ping) ELSE conn[c].ping
  BY <1>1, CleanedFacts
<1>3. \A t : Told(t) \notin {"none", "running"}
  BY DEF Told
<1>4. ASSUME NEW c \in Conns, StartConnecting(c) PROVE Owned' /\ Shaped' /\ StayUp
  <2>1. PICK D \in [Conns -> Connection(S)] : D = Cleaned
    BY <1>2
  <2>2. PICK k : k = [D[c] EXCEPT !.phase = "connecting"]
    OBVIOUS
  <2>3. k \in Connection(S) /\ k.sender = D[c].sender /\ k.ping = D[c].ping
    BY <2>2 DEF Connection
  <2>4. conn' = [D EXCEPT ![c] = k]
    BY <1>4, <2>1, <2>2 DEF StartConnecting
  <2>5. /\ conn' \in [Conns -> Connection(S)] /\ conn'[c] = k
        /\ \A d \in Conns \ {c} : conn'[d] = D[d]
    BY <2>3, <2>4
  <2>6. stop_ws_msg_loop_tx' = c /\ pinger' = pinger
    BY <1>4 DEF StartConnecting
  <2>7. \A d \in Conns : D[d].ping # "running" /\ D[d].sender # "running"
                            /\ ~(D[d].phase = "connecting" /\ D[d].sender = "none")
    BY <1>2, <1>3, <2>1 DEF Owned
  <2>8. Owned'
    BY <2>3, <2>5, <2>6, <2>7 DEF Owned
  <2>9. StayUp
    BY <1>2, <1>4, <2>1, <2>5 DEF StayUp, StartConnecting
  <2>10. QED
    BY <1>0, <1>1, <2>5, <2>8, <2>9 DEF Shaped
<1>5. ASSUME NEW c \in Conns, ConnectSucceeds(c) PROVE Owned' /\ Shaped' /\ StayUp
  <2>1. PICK D \in [Conns -> Connection(S)] : D = StopPing(conn)
    BY <1>2
  <2>0. PICK p \in {"running", "ended"} :
          conn' = [D EXCEPT ![c].phase = "up", ![c].open = TRUE,
                            ![c].sender = IF @ = "none" THEN "running" ELSE @,
                            ![c].recv = "running", ![c].ping = p]
    BY <1>5, <2>1 DEF ConnectSucceeds
  <2>2. PICK k : k = [D[c] EXCEPT !.phase = "up", !.open = TRUE,
                                  !.sender = IF @ = "none" THEN "running" ELSE @,
                                  !.recv = "running", !.ping = p]
    OBVIOUS
  <2>3. /\ k \in Connection(S) /\ k.phase = "up"
        /\ k.sender = IF D[c].sender = "none" THEN "running" ELSE D[c].sender
    <3>1. PICK t \in Task : t = IF D[c].sender = "none" THEN "running" ELSE D[c].sender
      BY DEF Connection, Task
    <3>2. k = [D[c] EXCEPT !.phase = "up", !.open = TRUE, !.sender = t, !.recv = "running",
                           !.ping = p]
      BY <2>2, <3>1
    <3>3. k \in Connection(S)
      BY <3>2 DEF Connection, Task
    <3>4. k.phase = "up" /\ k.sender = t
      BY <3>2 DEF Connection
    <3>5. QED
      BY <3>1, <3>3, <3>4
  <2>4. conn' = [D EXCEPT ![c] = k]
    BY <2>0, <2>2
  <2>5. /\ conn' \in [Conns -> Connection(S)] /\ conn'[c] = k
        /\ \A d \in Conns \ {c} : conn'[d] = D[d]
    BY <2>3, <2>4
  <2>6. stop_ws_msg_loop_tx' = stop_ws_msg_loop_tx /\ pinger' = c
        /\ conn[c].phase = "connecting"
    BY <1>5 DEF ConnectSucceeds
  <2>7. /\ \A d \in Conns : D[d].ping # "running"
        /\ \A d \in Conns : D[d].phase = conn[d].phase /\ D[d].sender = conn[d].sender
    BY <1>2, <1>3, <2>1 DEF Owned
  <2>8. Owned'
    BY <2>3, <2>5, <2>6, <2>7 DEF Owned
  <2>9. StayUp
    BY <2>3, <2>5, <2>7 DEF StayUp
  <2>10. QED
    BY <1>0, <1>1, <2>5, <2>8, <2>9 DEF Shaped
<1>6. CASE disconnect
  <2>1. PICK D \in [Conns -> Connection(S)] : D = StopSender(conn)
    BY <1>2
  <2>2. conn' = D /\ pinger' = pinger
    BY <1>6, <2>1 DEF disconnect
  <2>3. /\ \A d \in Conns : D[d].sender # "running"
                            /\ ~(D[d].phase = "connecting" /\ D[d].sender = "none")
        /\ \A d \in Conns : D[d].phase = conn[d].phase /\ D[d].ping = conn[d].ping
    BY <1>2, <1>3, <2>1 DEF Owned
  <2>4. Owned'
    BY <2>2, <2>3 DEF Owned
  <2>5. StayUp
    BY <2>2, <2>3 DEF StayUp
  <2>6. QED
    BY <1>0, <1>1, <2>2, <2>4, <2>5 DEF Shaped
<1>7. CASE Disconnected
  <2>0. PICK closed : conn' = [c \in Conns |->
                                 [StopPing(conn)[c] EXCEPT !.open = @ /\ c \notin closed]]
    BY ONLY <1>7 DEF Disconnected
  <2>1. PICK D \in [Conns -> Connection(S)] : D = StopPing(conn)
    BY <1>2
  <2>2. conn' = [c \in Conns |-> [D[c] EXCEPT !.open = @ /\ c \notin closed]]
    BY ONLY <2>0, <2>1
  <2>3. ASSUME NEW c \in Conns
        PROVE  /\ conn'[c] \in Connection(S) /\ conn'[c].phase = D[c].phase
               /\ conn'[c].sender = D[c].sender /\ conn'[c].ping = D[c].ping
    <3>1. PICK k : k = [D[c] EXCEPT !.open = @ /\ c \notin closed]
      OBVIOUS
    <3>2. conn'[c] = k
      BY <2>2, <3>1
    <3>3. k \in Connection(S)
      BY <3>1 DEF Connection
    <3>4. k.phase = D[c].phase /\ k.sender = D[c].sender /\ k.ping = D[c].ping
      BY <3>1 DEF Connection
    <3>5. QED
      BY <3>2, <3>3, <3>4
  <2>4. conn' \in [Conns -> Connection(S)]
    BY <2>2, <2>3
  <2>5. /\ \A d \in Conns : D[d].ping # "running"
        /\ \A d \in Conns : D[d].phase = conn[d].phase /\ D[d].sender = conn[d].sender
        /\ stop_ws_msg_loop_tx' = stop_ws_msg_loop_tx
    <3>1. \A d \in Conns : D[d].ping # "running"
      BY ONLY <1>2, <1>3, <2>1, Owned DEF Owned
    <3>2. stop_ws_msg_loop_tx' = stop_ws_msg_loop_tx
      BY ONLY <1>7 DEF Disconnected, handles
    <3>3. QED
      BY <1>2, <2>1, <3>1, <3>2
  <2>6. Owned'
    BY <2>3, <2>5 DEF Owned
  <2>7. StayUp
    BY <1>2, <2>1, <2>3 DEF StayUp
  <2>8. QED
    BY <1>0, <1>1, <2>4, <2>6, <2>7 DEF Shaped
<1>8. QED
  BY <1>4, <1>5, <1>6, <1>7

(* What a task does to its connection takes nobody's place.                *)
LEMMA TaskOwned ==
  ASSUME Owned, Shaped, queue \in Seq(published), NEW c \in Conns,
         \/ \E info \in Infos : connect(c, info)
         \/ \E authError \in BOOLEAN : ConnectFails(c, authError)
         \/ Faults(c) \/ PingTask(c) \/ SendTask(c) \/ Tick(c)
  PROVE  Owned' /\ Shaped' /\ StayUp
<1>0. UNCHANGED <<stop_ws_msg_loop_tx, pinger, published>>
  BY DEF connect, ConnectFails, Faults, RecvEnds, PongUnread, Breaks,
     SendFails, PingTask, PingTick, Pong, PingStops, SendTask, SenderStops,
     SendBatch, Tick, handles, messages, send_message, Sent, NotSent, SenderEnds
<1>1. PICK S : S = SUBSET published /\ conn \in [Conns -> Connection(S)]
                                    /\ conn[c] \in Connection(S)
  BY DEF Shaped
<1>2. CASE UNCHANGED conn
  BY <1>0, <1>2 DEF Owned, Shaped, StayUp
<1>3. ASSUME NEW k \in Connection(S), conn' = [conn EXCEPT ![c] = k],
             k.sender \in {conn[c].sender, "ended"}, k.ping \in {conn[c].ping, "ended"},
             \/ k.phase = conn[c].phase
             \/ conn[c].phase # "up" /\ k.phase # "connecting"
      PROVE  Owned' /\ Shaped' /\ StayUp
  BY <1>0, <1>1, <1>3, OneConnection
<1>4. ASSUME NEW info \in Infos, connect(c, info) PROVE Owned' /\ Shaped' /\ StayUp
  <2>1. PICK k : k = [conn[c] EXCEPT !.phase = "checked", !.info = info]
    OBVIOUS
  <2>2. k \in Connection(S)
    BY <1>1, <2>1 DEF Connection
  <2>3. k.sender = conn[c].sender /\ k.ping = conn[c].ping /\ k.phase = "checked"
        /\ conn[c].phase = "none"
    BY <1>1, <1>4, <2>1 DEF Connection, connect
  <2>4. conn' = [conn EXCEPT ![c] = k]
    BY <1>4, <2>1 DEF connect
  <2>5. QED
    BY <1>3, <2>2, <2>3, <2>4
<1>5. ASSUME NEW authError, ConnectFails(c, authError) PROVE Owned' /\ Shaped' /\ StayUp
  <2>1. PICK k : k = [conn[c] EXCEPT !.phase = "failed"]
    OBVIOUS
  <2>2. k \in Connection(S)
    BY <1>1, <2>1 DEF Connection
  <2>3. k.sender = conn[c].sender /\ k.ping = conn[c].ping /\ k.phase = "failed"
        /\ conn[c].phase = "connecting"
    BY <1>1, <1>5, <2>1 DEF Connection, ConnectFails
  <2>4. conn' = [conn EXCEPT ![c] = k]
    BY <1>5, <2>1 DEF ConnectFails
  <2>5. QED
    BY <1>3, <2>2, <2>3, <2>4
<1>6. CASE PingEnds(c)
  <2>1. PICK k : k = [conn[c] EXCEPT !.ping = "ended", !.ping_count = 0]
    OBVIOUS
  <2>2. k \in Connection(S)
    <3>1. 0 \in 0 .. retry_connect_per_pings
      BY WSAssumption
    <3>2. QED
      BY <1>1, <2>1, <3>1 DEF Connection, Task
  <2>3. k.sender = conn[c].sender /\ k.ping = "ended" /\ k.phase = conn[c].phase
    BY <1>1, <2>1 DEF Connection
  <2>4. conn' = [conn EXCEPT ![c] = k]
    BY <1>6, <2>1 DEF PingEnds
  <2>5. QED
    BY <1>3, <2>2, <2>3, <2>4
<1>7. ASSUME NEW n \in 0 .. retry_connect_per_pings, conn' = [conn EXCEPT ![c].ping_count = n] PROVE Owned' /\ Shaped' /\ StayUp
  <2>1. PICK k : k = [conn[c] EXCEPT !.ping_count = n]
    OBVIOUS
  <2>2. k \in Connection(S)
    BY <1>1, <2>1 DEF Connection
  <2>3. k.sender = conn[c].sender /\ k.ping = conn[c].ping /\ k.phase = conn[c].phase
    BY <1>1, <2>1 DEF Connection
  <2>4. conn' = [conn EXCEPT ![c] = k]
    BY <1>7, <2>1
  <2>5. QED
    BY <1>3, <2>2, <2>3, <2>4
<1>8. CASE RecvEnded(c)
  <2>1. PICK k : k = [conn[c] EXCEPT !.recv = "ended", !.open = @ /\ conn[c].sender # "ended"]
    OBVIOUS
  <2>2. k \in Connection(S)
    BY <1>1, <2>1 DEF Connection, Task
  <2>3. k.sender = conn[c].sender /\ k.ping = conn[c].ping /\ k.phase = conn[c].phase
    BY <1>1, <2>1 DEF Connection
  <2>4. conn' = [conn EXCEPT ![c] = k]
    BY <1>8, <2>1 DEF RecvEnded
  <2>5. QED
    BY <1>3, <2>2, <2>3, <2>4
<1>9. CASE Breaks(c)
  <2>1. PICK k : k = [conn[c] EXCEPT !.open = FALSE]
    OBVIOUS
  <2>2. k \in Connection(S)
    BY <1>1, <2>1 DEF Connection
  <2>3. k.sender = conn[c].sender /\ k.ping = conn[c].ping /\ k.phase = conn[c].phase
    BY <1>1, <2>1 DEF Connection
  <2>4. conn' = [conn EXCEPT ![c] = k]
    BY <1>9, <2>1 DEF Breaks
  <2>5. QED
    BY <1>3, <2>2, <2>3, <2>4
<1>10. CASE SenderEnds(c)
  <2>1. PICK k : k = [conn[c] EXCEPT !.sender = "ended", !.out = {},
                                     !.open = @ /\ conn[c].recv # "ended"]
    OBVIOUS
  <2>2. k \in Connection(S)
    BY <1>1, <2>1 DEF Connection, Task
  <2>3. k.sender = "ended" /\ k.ping = conn[c].ping /\ k.phase = conn[c].phase
    BY <1>1, <2>1 DEF Connection
  <2>4. conn' = [conn EXCEPT ![c] = k]
    BY <1>10, <2>1 DEF SenderEnds
  <2>5. QED
    BY <1>3, <2>2, <2>3, <2>4
<1>11. ASSUME NEW B \in SUBSET published, conn' = [conn EXCEPT ![c].out = B] PROVE Owned' /\ Shaped' /\ StayUp
  <2>1. PICK k : k = [conn[c] EXCEPT !.out = B]
    OBVIOUS
  <2>2. k \in Connection(S)
    BY <1>1, <2>1 DEF Connection
  <2>3. k.sender = conn[c].sender /\ k.ping = conn[c].ping /\ k.phase = conn[c].phase
    BY <1>1, <2>1 DEF Connection
  <2>4. conn' = [conn EXCEPT ![c] = k]
    BY <1>11, <2>1
  <2>5. QED
    BY <1>3, <2>2, <2>3, <2>4
<1>12. CASE Faults(c)
  BY <1>8, <1>9, <1>10, <1>12 DEF Faults, RecvEnds, PongUnread, SendFails
<1>13. CASE PingTask(c)
  <2>1. CASE PingTick(c)
    <3>1. PICK n : n = conn[c].ping_count + 1
      OBVIOUS
    <3>2. CountPing(c) => \/ conn' = conn
                          \/ /\ n \in 0 .. retry_connect_per_pings
                             /\ conn' = [conn EXCEPT ![c].ping_count = n]
      BY <1>1, <3>1, WSAssumption DEF CountPing, Connection
    <3>3. QED
      BY <1>2, <1>6, <1>7, <2>1, <3>1, <3>2 DEF PingTick
  <2>2. CASE Pong(c)
    <3>1. 0 \in 0 .. retry_connect_per_pings
      BY WSAssumption
    <3>2. QED
      BY <1>7, <2>2, <3>1 DEF Pong
  <2>3. CASE PingStops(c)
    BY <1>6, <2>3 DEF PingStops
  <2>4. QED
    BY <1>13, <2>1, <2>2, <2>3 DEF PingTask
<1>14. CASE SendTask(c)
  <2>1. CASE SenderEnds(c)
    BY <1>10, <2>1
  <2>2. CASE conn' = [conn EXCEPT ![c].out = {}]
    <3>1. {} \in SUBSET published
      OBVIOUS
    <3>2. QED
      BY <1>11, <2>2, <3>1
  <2>3. QED
    BY <1>14, <2>1, <2>2 DEF SendTask, SenderStops, SendBatch, send_message, Sent, NotSent
<1>15. CASE Tick(c)
  <2>1. PICK batch \in SUBSET published :
          conn' = conn \/ conn' = [conn EXCEPT ![c].out = @ \cup batch]
    BY <1>15, BatchType DEF Tick
  <2>2. conn[c].out \cup batch \in SUBSET published
    BY <1>1 DEF Connection
  <2>3. QED
    BY <1>2, <1>11, <2>1, <2>2
<1>16. QED
  BY <1>4, <1>5, <1>12, <1>13, <1>14, <1>15

(* Each aggregator is of a connection that is up.                          *)
Up == {c \in Conns : conn[c].phase = "up"}

WSInv ==
  /\ TypeOK /\ Owned /\ Shaped
  /\ queue \in Seq(published)
  /\ aggregators <= Cardinality(Up)

(* There are no more connections that are up than there are connections.   *)
LEMMA UpCount ==
  ASSUME StayUp
  PROVE  /\ Cardinality(Up) \in Nat /\ Cardinality(Up') \in Nat
         /\ Cardinality(Up) <= Cardinality(Up') /\ Cardinality(Up') <= MaxConns
         /\ \A c \in Up' \ Up : Cardinality(Up) + 1 <= Cardinality(Up')
<1>1. IsFiniteSet(Conns) /\ Cardinality(Conns) = MaxConns
  BY FS_Interval, WSAssumption DEF Conns
<1>2. Up \subseteq Up' /\ Up' \subseteq Conns
  BY DEF StayUp, Up
<1>3. IsFiniteSet(Up') /\ IsFiniteSet(Up)
  BY <1>1, <1>2, FS_Subset
<1>4. Cardinality(Up) \in Nat /\ Cardinality(Up') \in Nat
  BY <1>3, FS_CardinalityType
<1>5. Cardinality(Up) <= Cardinality(Up') /\ Cardinality(Up') <= MaxConns
  BY <1>1, <1>2, <1>3, FS_Subset
<1>6. ASSUME NEW c \in Up' \ Up PROVE Cardinality(Up) + 1 <= Cardinality(Up')
  <2>1. Cardinality(Up \cup {c}) = Cardinality(Up) + 1
    BY <1>3, <1>6, FS_AddElement
  <2>2. Cardinality(Up \cup {c}) <= Cardinality(Up')
    BY <1>2, <1>3, <1>6, FS_Subset
  <2>3. QED
    BY <2>1, <2>2
<1>7. QED
  BY <1>4, <1>5, <1>6

(* The connections in their types, as the connections of TypeOK.           *)
LEMMA ShapedType ==
  ASSUME Shaped, published \subseteq Messages
  PROVE  conn \in [Conns -> Conn]
<1>1. Connection(SUBSET published) \subseteq Conn
  BY DEF Connection, Conn
<1>2. QED
  BY <1>1 DEF Shaped

(* What is published and queued.                                           *)
LEMMA QueueStep ==
  ASSUME WSInv, [Next]_vars
  PROVE  /\ published \subseteq published' /\ published' \subseteq Messages
         /\ queue' \in Seq(published') /\ sent' \cup lost' \subseteq published'
<1>0. /\ queue \in Seq(published) /\ sent \cup lost \subseteq published
      /\ published \subseteq Messages /\ aggregators \in Nat
      /\ \A c \in Conns : conn[c].out \subseteq published
  BY WSAssumption DEF WSInv, TypeOK, Shaped, Connection
<1>1. CASE UNCHANGED messages
  BY <1>0, <1>1 DEF messages
<1>2. ASSUME Clear
      PROVE  /\ published \subseteq published' /\ published' \subseteq Messages
             /\ queue' \in Seq(published') /\ sent' \cup lost' \subseteq published'
  BY <1>0, <1>2 DEF Clear, ToSet
<1>3. ASSUME NEW m \in Messages, Publish(m)
      PROVE  /\ published \subseteq published' /\ published' \subseteq Messages
             /\ queue' \in Seq(published') /\ sent' \cup lost' \subseteq published'
  <2>1. PICK k \in 0 .. Len(queue) :
          queue' = SubSeq(queue, 1, k) \o [i \in 1 .. aggregators |-> m]
                     \o SubSeq(queue, k + 1, Len(queue))
    BY <1>3 DEF Publish
  <2>2. published' = published \cup {m} /\ sent' = sent /\ lost' = lost
    BY <1>3 DEF Publish
  <2>3. /\ SubSeq(queue, 1, k) \in Seq(published')
        /\ SubSeq(queue, k + 1, Len(queue)) \in Seq(published')
    BY <1>0, <2>2, SubSeqProperties
  <2>4. [i \in 1 .. aggregators |-> m] \in Seq(published')
    BY <1>0, <2>2
  <2>5. SubSeq(queue, 1, k) \o [i \in 1 .. aggregators |-> m] \in Seq(published')
    BY <2>3, <2>4, ConcatProperties
  <2>6. queue' \in Seq(published')
    BY <2>1, <2>3, <2>5, ConcatProperties
  <2>7. QED
    BY <1>0, <2>2, <2>6
<1>4. ASSUME NEW c \in Conns, Tick(c)
      PROVE  /\ published \subseteq published' /\ published' \subseteq Messages
             /\ queue' \in Seq(published') /\ sent' \cup lost' \subseteq published'
  <2>1. /\ ToSet(next_batch_message(queue).batch) \in SUBSET published
        /\ next_batch_message(queue).rest \in Seq(published)
    BY <1>0, BatchType
  <2>2. QED
    BY <1>0, <1>4, <2>1 DEF Tick
<1>5. ASSUME NEW c \in Conns, sent' \cup lost' \subseteq sent \cup lost \cup conn[c].out,
             UNCHANGED <<queue, published>>
      PROVE  /\ published \subseteq published' /\ published' \subseteq Messages
             /\ queue' \in Seq(published') /\ sent' \cup lost' \subseteq published'
  BY <1>0, <1>5
<1>6. CASE UNCHANGED vars
  BY <1>1, <1>6 DEF vars
<1>7. CASE Calls \/ Lags
  BY <1>1, <1>2, <1>3, <1>7 DEF Calls, connect, disconnect, Disconnected, Lags
<1>8. ASSUME NEW c \in Conns, Connecting(c) \/ PingTask(c)
      PROVE  /\ published \subseteq published' /\ published' \subseteq Messages
             /\ queue' \in Seq(published') /\ sent' \cup lost' \subseteq published'
  BY <1>1, <1>2, <1>8 DEF Connecting, StartConnecting, ConnectSucceeds, ConnectFails,
     PingTask, PingTick, Pong, PingStops
<1>9. ASSUME NEW c \in Conns, Faults(c) \/ SendTask(c)
      PROVE  /\ published \subseteq published' /\ published' \subseteq Messages
             /\ queue' \in Seq(published') /\ sent' \cup lost' \subseteq published'
  BY <1>1, <1>5, <1>9 DEF Faults, RecvEnds, PongUnread, Breaks, SendFails, SendTask,
     SenderStops, SendBatch, send_message, Sent, NotSent, SenderEnds
<1>10. QED
  BY <1>4, <1>6, <1>7, <1>8, <1>9 DEF Next

(* The connections, and who is in charge of them.                          *)
LEMMA ConnStep ==
  ASSUME WSInv, [Next]_vars
  PROVE  Owned' /\ Shaped' /\ StayUp
<1>0. Owned /\ Shaped /\ queue \in Seq(published) /\ published \subseteq published'
  BY QueueStep DEF WSInv
<1>1. ASSUME UNCHANGED <<stop_ws_msg_loop_tx, pinger, conn>> PROVE Owned' /\ Shaped' /\ StayUp
  <2>1. Connection(SUBSET published) \subseteq Connection(SUBSET published')
    BY <1>0 DEF Connection
  <2>2. QED
    BY <1>0, <1>1, <2>1 DEF Owned, Shaped, StayUp
<1>2. CASE UNCHANGED vars
  BY <1>1, <1>2 DEF vars, handles
<1>3. CASE Lags \/ \E m \in Messages : Publish(m)
  BY <1>1, <1>3 DEF Lags, Publish, handles
<1>4. QED
  BY <1>0, <1>2, <1>3, ConnectingOwned, TaskOwned DEF Next, Calls, Connecting

(* Of the other variables, those that count.                               *)
LEMMA CountStep ==
  ASSUME WSInv, [Next]_vars
  PROVE  /\ aggregators' \in Nat /\ aggregators' <= Cardinality(Up')
         /\ disconnects' \in 0 .. MaxDisconnects /\ disconnecting' \in 0 .. disconnects'
         /\ faults' \in 0 .. MaxFaults
<1>0. /\ aggregators \in Nat /\ aggregators <= Cardinality(Up)
      /\ disconnects \in 0 .. MaxDisconnects /\ disconnecting \in 0 .. disconnects
      /\ faults \in 0 .. MaxFaults
  BY WSAssumption DEF WSInv, TypeOK
<1>1. /\ Cardinality(Up) \in Nat /\ Cardinality(Up') \in Nat
      /\ Cardinality(Up) <= Cardinality(Up')
      /\ \A c \in Up' \ Up : Cardinality(Up) + 1 <= Cardinality(Up')
  BY ConnStep, UpCount
<1>2. aggregators' \in Nat /\ aggregators' <= Cardinality(Up')
  <2>1. CASE UNCHANGED aggregators
    BY <1>0, <1>1, <2>1
  <2>2. CASE Lags
    BY <1>0, <1>1, <2>2 DEF Lags
  <2>3. ASSUME NEW c \in Conns, ConnectSucceeds(c)
        PROVE  aggregators' \in Nat /\ aggregators' <= Cardinality(Up')
    <3>1. aggregators' = aggregators + 1 /\ conn[c].phase = "connecting"
      BY <2>3 DEF ConnectSucceeds
    <3>2. conn'[c].phase = "up"
      <4>1. /\ conn \in [Conns -> Connection(SUBSET published)]
            /\ conn' \in [Conns -> Connection(SUBSET published')]
        BY ConnStep DEF WSInv, Shaped
      <4>2. PICK D \in [Conns -> Connection(SUBSET published)] : D = StopPing(conn)
        BY <4>1, CleanedFacts
      <4>0. PICK p \in {"running", "ended"} :
              conn' = [D EXCEPT ![c].phase = "up", ![c].open = TRUE,
                                ![c].sender = IF @ = "none" THEN "running" ELSE @,
                                ![c].recv = "running", ![c].ping = p]
        BY <2>3, <4>2 DEF ConnectSucceeds
      <4>3. PICK k : k = [D[c] EXCEPT !.phase = "up", !.open = TRUE,
                                  !.sender = IF @ = "none" THEN "running" ELSE @,
                                  !.recv = "running", !.ping = p]
        OBVIOUS
      <4>4. k.phase = "up"
        BY <4>2, <4>3 DEF Connection
      <4>5. conn' = [D EXCEPT ![c] = k]
        BY <4>0, <4>3
      <4>6. QED
        BY <4>2, <4>4, <4>5
    <3>3. c \in Up' \ Up
      BY <3>1, <3>2 DEF Up
    <3>4. QED
      BY <1>0, <1>1, <3>1, <3>3
  <2>4. QED
    BY <2>1, <2>2, <2>3 DEF Next, Calls, connect, disconnect, Disconnected, Publish, Connecting,
       StartConnecting, ConnectFails, Faults, RecvEnds, PongUnread, Breaks, SendFails,
       PingTask, PingTick, Pong, PingStops, SendTask, SenderStops, SendBatch, Tick, handles,
       vars
<1>3. /\ disconnects' \in 0 .. MaxDisconnects /\ disconnecting' \in 0 .. disconnects'
      /\ faults' \in 0 .. MaxFaults
  <2>1. CASE UNCHANGED counters
    BY <1>0, <2>1 DEF counters
  <2>2. CASE Fault
    BY <1>0, <2>2, WSAssumption DEF Fault
  <2>3. CASE disconnect \/ Disconnected
    BY <1>0, <2>3, WSAssumption DEF disconnect, Disconnected
  <2>4. QED
    BY <2>1, <2>2, <2>3 DEF Next, Calls, connect, Publish, Connecting, StartConnecting,
       ConnectSucceeds, ConnectFails, Faults, RecvEnds, PongUnread, Breaks, SendFails,
       PingTask, PingTick, Pong, PingStops, SendTask, SenderStops, SendBatch, Tick, Lags,
       vars
<1>4. QED
  BY <1>2, <1>3

(* ... and those that name a connection or a state.                        *)
LEMMA HandleStep ==
  ASSUME WSInv, [Next]_vars
  PROVE  /\ state' \in ConnectState /\ current_conn_info' \in Infos \cup {None}
         /\ {stop_ws_msg_loop_tx', pinger', ticker'} \subseteq 0 .. MaxConns
<1>0. /\ state \in ConnectState /\ current_conn_info \in Infos \cup {None}
      /\ {stop_ws_msg_loop_tx, pinger, ticker} \subseteq 0 .. MaxConns
      /\ 0 \in 0 .. MaxConns /\ Conns \subseteq 0 .. MaxConns
      /\ \A c \in Conns : conn[c].info \in Infos \cup {None}
  BY WSAssumption DEF WSInv, TypeOK, Conn, Conns
<1>1. CASE UNCHANGED vars
  BY <1>0, <1>1 DEF vars, shared, handles
<1>2. CASE Calls \/ Lags
  BY <1>0, <1>2 DEF Calls, connect, disconnect, Disconnected, Publish, Lags, shared,
     handles, ConnectState
<1>3. ASSUME NEW c \in Conns, Connecting(c)
      PROVE  /\ state' \in ConnectState /\ current_conn_info' \in Infos \cup {None}
             /\ {stop_ws_msg_loop_tx', pinger', ticker'} \subseteq 0 .. MaxConns
  BY <1>0, <1>3 DEF Connecting, StartConnecting, ConnectSucceeds, ConnectFails, set_sender,
     handles, ConnectState
<1>4. ASSUME NEW c \in Conns, Faults(c) \/ PingTask(c) \/ SendTask(c) \/ Tick(c)
      PROVE  /\ state' \in ConnectState /\ current_conn_info' \in Infos \cup {None}
             /\ {stop_ws_msg_loop_tx', pinger', ticker'} \subseteq 0 .. MaxConns
  BY <1>0, <1>4 DEF Faults, RecvEnds, PongUnread, Breaks, SendFails, PingTask, PingTick,
     CountPing, Pong, PingStops, SendTask, SenderStops, SendBatch, Tick, shared, handles,
     ConnectState
<1>5. QED
  BY <1>1, <1>2, <1>3, <1>4 DEF Next

(* The invariant of the websocket client holds.                            *)
LEMMA WSInvHolds == Spec => []WSInv
<1>1. Init => WSInv
  <2> SUFFICES ASSUME Init PROVE WSInv
    OBVIOUS
  <2>1. NoConn \in Connection(SUBSET published) /\ NoConn.phase = "none"
        /\ NoConn.ping = "none" /\ NoConn.sender = "none"
    <3>1. 0 \in 0 .. retry_connect_per_pings /\ {} \in SUBSET published
      BY WSAssumption
    <3>2. QED
      BY <3>1 DEF NoConn, Connection, Task
  <2>2. /\ conn \in [Conns -> Connection(SUBSET published)]
        /\ \A c \in Conns : conn[c] = NoConn
    BY <2>1 DEF Init
  <2>3. Owned /\ Shaped
    BY <2>1, <2>2 DEF Owned, Shaped
  <2>4. conn \in [Conns -> Conn]
    BY <2>3, ShapedType DEF Init
  <2>5. Up = {}
    BY <2>1, <2>2 DEF Up
  <2>6. aggregators <= Cardinality(Up)
    BY <2>5, FS_EmptySet DEF Init
  <2>7. TypeOK
    BY <2>4, WSAssumption DEF Init, TypeOK, ConnectState
  <2>8. QED
    BY <2>3, <2>6, <2>7 DEF WSInv, Init
<1>2. WSInv /\ [Next]_vars => WSInv'
  <2> SUFFICES ASSUME WSInv, [Next]_vars PROVE WSInv'
    OBVIOUS
  <2>1. Owned' /\ Shaped' /\ StayUp
    BY ConnStep
  <2>2. /\ published' \subseteq Messages
        /\ queue' \in Seq(published') /\ sent' \cup lost' \subseteq published'
    BY QueueStep
  <2>3. /\ aggregators' \in Nat /\ aggregators' <= Cardinality(Up')
        /\ disconnects' \in 0 .. MaxDisconnects /\ disconnecting' \in 0 .. disconnects'
        /\ faults' \in 0 .. MaxFaults
    BY CountStep
  <2>4. aggregators' \in 0 .. MaxConns
    BY <2>1, <2>3, UpCount, WSAssumption
  <2>5. (conn \in [Conns -> Conn])'
    <3>1. Connection(SUBSET published') \subseteq Conn
      BY <2>2 DEF Connection, Conn
    <3>2. QED
      BY <2>1, <3>1 DEF Shaped
  <2>6. queue' \in Seq(Messages)
    BY <2>2
  <2>7. TypeOK'
    BY <2>2, <2>3, <2>4, <2>5, <2>6, HandleStep DEF TypeOK
  <2>8. QED
    BY <2>1, <2>2, <2>3, <2>7 DEF WSInv
<1>3. QED
  BY <1>1, <1>2, PTL DEF Spec

(* The variables of the websocket client keep their types: there are never *)
(* more aggregators than connections, the pings without a pong are counted *)
(* up to the limit, and nothing is sent or lost that was not published     *)
(* (set_sender, next_batch_message, ServerFixIntervalPing::run).           *)
THEOREM WSTypes == Spec => []TypeOK
<1>1. WSInv => TypeOK
  BY DEF WSInv
<1>2. QED
  BY <1>1, WSInvHolds, PTL

(* However calls of connect and disconnect overlap, at most one connection *)
(* has a sender that nobody told to stop, and at most one such a pinger:   *)
(* it is the one that the next clean, or start_ping, tells (connect,       *)
(* start_ping, set_sender).                                                *)
THEOREM OneSenderAndPinger == Spec => []OneOfEach
<1>1. WSInv => OneOfEach
  <2>1. ASSUME Owned, NEW task \in {"sender", "ping"}
        PROVE  Cardinality(Unstopped(task)) <= 1
    <3>1. PICK d : Unstopped(task) \subseteq {d}
      BY <2>1 DEF Owned, Unstopped
    <3>2. /\ IsFiniteSet({d}) /\ Cardinality({d}) = 1
      BY FS_Singleton
    <3>3. Cardinality(Unstopped(task)) <= Cardinality({d})
      BY <3>1, <3>2, FS_Subset
    <3>4. QED
      BY <3>2, <3>3
  <2>2. QED
    BY <2>1 DEF OneOfEach, WSInv
<1>2. QED
  BY <1>1, WSInvHolds, PTL
=============================================================================
