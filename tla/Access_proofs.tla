---------------------------- MODULE Access_proofs ----------------------------
(***************************************************************************)
(* Proofs about who gets in: the grants of OAuth clients (OAuthGrants), for *)
(* any number of requests in flight, codes and tokens, and the groups'      *)
(* owners and invitations (Groups), for any number of groups, users,        *)
(* invitations and requests. The two share no state.                        *)
(*                                                                          *)
(* What makes a token good for one exchange is that the current token of a  *)
(* grant was never exchanged; what makes a replay a replay is that a token  *)
(* of the live generation is either current or was exchanged, and that a    *)
(* request that finds it exchanged is at least the second to present it.    *)
(*                                                                          *)
(* The groups' properties rest on one fact: while the version a request     *)
(* read is still the document's, the members it read are the document's     *)
(* members and the invitations it writes were not used or revoked.          *)
(***************************************************************************)
EXTENDS OAuthGrants, Groups, TLAPS

-----------------------------------------------------------------------------
(* Grants: the inductive invariant. *)

Exchanging == {"prepare", "start"}                   \* requests with a code
Redeeming == {"grant", "rotate", "claim", "replay"}  \* requests with a token
Making == {"start", "claim"}                         \* requests that made a token

\* A code is spent by one request, which leads to one grant at most.
CodesKept ==
    /\ \A i \in CodeIds : codes[i].grants <= 1 /\ (~codes[i].used => codes[i].grants = 0)
    /\ \A c \in OAuthCallers : calls[c].at \in Exchanging =>
          /\ calls[c].client \in ClientIds /\ calls[c].code \in CodeIds
          /\ codes[calls[c].code].used /\ codes[calls[c].code].grants = 0
    /\ \A c, d \in OAuthCallers : calls[c].at \in Exchanging /\ calls[d].at \in Exchanging =>
          c = d \/ calls[c].code # calls[d].code

\* Only a token that was handed out is used; it belongs to a generation that was handed out.
RowsKept ==
    /\ \A t \in TokenIds : t > made => tokens[t] = NoRow
    /\ \A t \in TokenIds : ~tokens[t].held => uses[t] = NoUse
    /\ \A t \in TokenIds : tokens[t].held =>
          /\ tokens[t].client \in ClientIds /\ tokens[t].generation \in TokenIds
          /\ tokens[tokens[t].generation].held
          /\ tokens[tokens[t].generation].client = tokens[t].client

\* A grant's current token is one of its generation that was not exchanged.
GrantsKept ==
    \A k \in ClientIds : grants[k].generation # NoToken =>
        LET t == grants[k].current
        IN  /\ t \in TokenIds /\ tokens[t].held /\ tokens[t].client = k
            /\ tokens[t].generation = grants[k].generation
            /\ uses[t].exchanged = 0

\* A request knows the token it was given and the one it made, which nobody else has.
CallsKept ==
    /\ \A c \in OAuthCallers : calls[c].at \in Redeeming =>
          /\ calls[c].token \in TokenIds /\ tokens[calls[c].token].held
          /\ calls[c].client = tokens[calls[c].token].client
    /\ \A c \in OAuthCallers : calls[c].at \in Making =>
          /\ calls[c].next \in TokenIds /\ calls[c].next <= made /\ ~tokens[calls[c].next].held
          /\ tokens[calls[c].next].client = calls[c].client
          /\ tokens[calls[c].next].generation = IF calls[c].at = "start" THEN calls[c].next
                                                ELSE tokens[calls[c].token].generation
    /\ \A c, d \in OAuthCallers : calls[c].at \in Making /\ calls[d].at \in Making =>
          c = d \/ calls[c].next # calls[d].next

\* Every request with a token was counted when it presented it.
Counted ==
    /\ \A t \in TokenIds : /\ uses[t].exchanged <= 1
                           /\ uses[t].exchanged > 0 => uses[t].answered > 0
                           /\ uses[t].answered > 0 => uses[t].presented > 0
                           /\ uses[t].answered = 2 => uses[t].presented = 2
    /\ \A c \in OAuthCallers : calls[c].at \in Redeeming =>
          /\ uses[calls[c].token].presented > 0
          /\ uses[calls[c].token].answered > 0 => uses[calls[c].token].presented = 2
    /\ \A c, d \in OAuthCallers :
          calls[c].at \in Redeeming /\ calls[d].at \in Redeeming /\ calls[c].token = calls[d].token =>
          c = d \/ uses[calls[c].token].presented = 2

\* The grant of the token's own client is live and of the token's generation.
Good(t) ==
    LET g == grants[tokens[t].client]
    IN  g.generation = tokens[t].generation /\ ~g.revoked

\* A token that is good is current or exchanged; what is replayed was presented twice.
Judged ==
    /\ \A t \in TokenIds : tokens[t].held /\ Good(t) =>
          grants[tokens[t].client].current = t \/ uses[t].exchanged > 0
    /\ \A t \in TokenIds : tokens[t].held /\ Good(t) /\ uses[t].answered > 0 =>
          uses[t].exchanged > 0 /\ uses[t].answered = 1
    /\ \A c \in OAuthCallers : calls[c].at = "replay" /\ Good(calls[c].token) =>
          uses[calls[c].token].presented = 2

OAuthIInv ==
    /\ OAuthTypeOK /\ CodesKept /\ RowsKept /\ GrantsKept /\ CallsKept /\ Counted /\ Judged
    /\ NoFalseAlarm

-----------------------------------------------------------------------------
(* Types: the records one by one. *)

\* Counting to two ends at two.
LEMMA TwiceCounts ==
    \A n \in 0..2 : /\ Twice(n) \in 0..2 /\ Twice(n) # 0 /\ (n = 0 => Twice(n) = 1)
                    /\ (n > 0 => Twice(n) = 2)
BY DEF Twice

\* What may be done to a code keeps it one.
LEMMA CodeTyped ==
    ASSUME NEW r \in Code
    PROVE  /\ [r EXCEPT !.used = TRUE] \in Code
           /\ [r EXCEPT !.grants = Twice(@)] \in Code
           /\ \A k \in 0..MaxClients : [r EXCEPT !.client = k] \in Code
<1>1. [r EXCEPT !.used = TRUE] \in Code
  BY DEF Code
<1>2. [r EXCEPT !.grants = Twice(@)] \in Code
  <2>1. r.grants \in 0..2
    BY DEF Code
  <2>2. Twice(r.grants) \in 0..2
    BY <2>1, TwiceCounts
  <2>. QED BY <2>2 DEF Code
<1>3. ASSUME NEW k \in 0..MaxClients
      PROVE  [r EXCEPT !.client = k] \in Code
  BY DEF Code
<1>. QED BY <1>1, <1>2, <1>3

\* The same for a grant and for the row of a token.
LEMMA GrantTyped ==
    ASSUME NEW g \in Grant, NEW t \in 0..MaxTokens
    PROVE  [g EXCEPT !.current = t] \in Grant
BY DEF Grant

\* Revoking a grant, or not, keeps it one.
LEMMA GrantRevoked ==
    ASSUME NEW g \in Grant, NEW b \in BOOLEAN
    PROVE  [g EXCEPT !.revoked = b] \in Grant
BY DEF Grant

\* A row that is handed out is still a row.
LEMMA RowTyped ==
    ASSUME NEW r \in TokenRow
    PROVE  [r EXCEPT !.held = TRUE] \in TokenRow
BY DEF TokenRow

\* How often a token was used, after one more presentation and after an answer.
Again(u) == [u EXCEPT !.presented = Twice(@)]

\* What a presentation and an answer do to the counts of a token.
LEMMA UseTyped ==
    ASSUME NEW u \in Use, NEW e \in BOOLEAN
    PROVE  /\ Again(u) \in Use /\ Answered(u, e) \in Use
           /\ Again(u).presented = Twice(u.presented)
           /\ Again(u).answered = u.answered /\ Again(u).exchanged = u.exchanged
           /\ Answered(u, e).presented = u.presented
           /\ Answered(u, e).answered = Twice(u.answered)
           /\ Answered(u, e).exchanged = IF e THEN Twice(u.exchanged) ELSE u.exchanged
<1>1. u.presented \in 0..2 /\ u.answered \in 0..2 /\ u.exchanged \in 0..2
  BY DEF Use
<1>2. Twice(u.presented) \in 0..2 /\ Twice(u.answered) \in 0..2 /\ Twice(u.exchanged) \in 0..2
  BY <1>1, TwiceCounts
<1>3. Again(u) \in Use
  BY <1>2 DEF Use, Again
<1>4. (IF e THEN Twice(u.exchanged) ELSE u.exchanged) \in 0..2
  BY <1>1, <1>2
<1>5. Answered(u, e) \in Use
  BY <1>1, <1>2, <1>4 DEF Use, Answered
<1>6. /\ Again(u).presented = Twice(u.presented)
      /\ Again(u).answered = u.answered /\ Again(u).exchanged = u.exchanged
  BY DEF Use, Again
<1>7. /\ Answered(u, e).presented = u.presented
      /\ Answered(u, e).answered = Twice(u.answered)
      /\ Answered(u, e).exchanged = IF e THEN Twice(u.exchanged) ELSE u.exchanged
  BY DEF Use, Answered
<1>. QED BY <1>3, <1>5, <1>6, <1>7

\* And what may be done to a request.
Places == {"idle", "create", "prepare", "start", "grant", "rotate", "claim", "replay"}

\* What the handlers make of a request is one.
LEMMA CallTyped ==
    ASSUME NEW r \in OAuthCall, NEW at \in Places
    PROVE  /\ NoCall \in OAuthCall
           /\ [r EXCEPT !.at = at] \in OAuthCall
           /\ \A t \in 0..MaxTokens : [r EXCEPT !.at = at, !.next = t] \in OAuthCall
           /\ \A k \in 0..MaxClients, i \in 0..MaxCodes :
                 [r EXCEPT !.at = at, !.code = i, !.client = k] \in OAuthCall
           /\ \A k \in 0..MaxClients, t \in 0..MaxTokens :
                 [NoCall EXCEPT !.at = at, !.client = k, !.token = t] \in OAuthCall
<1>. USE DEF Places
<1>1. NoCall \in OAuthCall
  BY OAuthAssumption DEF NoCall, OAuthCall, NoToken
<1>2. [r EXCEPT !.at = at] \in OAuthCall
  BY DEF OAuthCall
<1>3. ASSUME NEW t \in 0..MaxTokens
      PROVE  [r EXCEPT !.at = at, !.next = t] \in OAuthCall
  BY DEF OAuthCall
<1>4. ASSUME NEW k \in 0..MaxClients, NEW i \in 0..MaxCodes
      PROVE  [r EXCEPT !.at = at, !.code = i, !.client = k] \in OAuthCall
  BY DEF OAuthCall
<1>5. ASSUME NEW k \in 0..MaxClients, NEW t \in 0..MaxTokens
      PROVE  [NoCall EXCEPT !.at = at, !.client = k, !.token = t] \in OAuthCall
  BY <1>1 DEF OAuthCall
<1>. QED BY <1>1, <1>2, <1>3, <1>4, <1>5

-----------------------------------------------------------------------------
(* Types: the steps. *)

\* What a request does to itself, to the token it answers for and to the one it makes.
LEMMA CallEffect ==
    ASSUME OAuthTypeOK, NEW c \in OAuthCallers
    PROVE  /\ calls[c] \in OAuthCall
           /\ \A e \in BOOLEAN : calls[c].token \in TokenIds /\ Answer(c, e) =>
                 /\ calls' = [calls EXCEPT ![c] = NoCall]
                 /\ calls' \in [OAuthCallers -> OAuthCall]
                 /\ uses' = [uses EXCEPT ![calls[c].token] = Answered(@, e)]
                 /\ uses' \in [TokenIds -> Use]
<1>1. calls[c] \in OAuthCall
  BY DEF OAuthTypeOK
<1>2. ASSUME NEW e \in BOOLEAN, calls[c].token \in TokenIds, Answer(c, e)
      PROVE  /\ calls' = [calls EXCEPT ![c] = NoCall]
             /\ calls' \in [OAuthCallers -> OAuthCall]
             /\ uses' = [uses EXCEPT ![calls[c].token] = Answered(@, e)]
             /\ uses' \in [TokenIds -> Use]
  <2>1. calls' = [calls EXCEPT ![c] = NoCall] /\ calls' \in [OAuthCallers -> OAuthCall]
    BY <1>1, <1>2, CallTyped DEF Answer, OAuthTypeOK, Places
  <2>2. uses[calls[c].token] \in Use
    BY <1>2 DEF OAuthTypeOK
  <2>3. uses' = [uses EXCEPT ![calls[c].token] = Answered(@, e)]
    BY <1>2 DEF Answer
  <2>4. Answered(uses[calls[c].token], e) \in Use
    BY <2>2, UseTyped
  <2>. QED BY <2>1, <2>3, <2>4 DEF OAuthTypeOK
<1>. QED BY <1>1, <1>2

\* What making a token does.
LEMMA NewTokenEffect ==
    ASSUME OAuthTypeOK, NEW c \in OAuthCallers, NEW g \in 0..MaxTokens, NEW at \in {"start", "claim"},
           NewToken(c, g, at)
    PROVE  /\ made' = made + 1 /\ made' \in TokenIds /\ made' \in 0..MaxTokens
           /\ calls' = [calls EXCEPT ![c] = [@ EXCEPT !.at = at, !.next = made']]
           /\ calls' \in [OAuthCallers -> OAuthCall]
           /\ tokens' = [tokens EXCEPT ![made'] = [client |-> calls[c].client, held |-> FALSE,
                            generation |-> IF g = NoToken THEN made' ELSE g]]
           /\ tokens' \in [TokenIds -> TokenRow]
<1>1. calls[c] \in OAuthCall
  BY DEF OAuthTypeOK
<1>2. made' = made + 1 /\ made' \in TokenIds /\ made' \in 0..MaxTokens
  BY OAuthAssumption DEF NewToken, OAuthTypeOK, TokenIds
<1>3. calls' = [calls EXCEPT ![c] = [@ EXCEPT !.at = at, !.next = made']]
  BY DEF NewToken
<1>4. [calls[c] EXCEPT !.at = at, !.next = made'] \in OAuthCall
  BY <1>1, <1>2, CallTyped DEF Places
<1>5. tokens' = [tokens EXCEPT ![made'] = [client |-> calls[c].client, held |-> FALSE,
                    generation |-> IF g = NoToken THEN made' ELSE g]]
  BY DEF NewToken
<1>6. [client |-> calls[c].client, held |-> FALSE, generation |-> IF g = NoToken THEN made' ELSE g]
         \in TokenRow
  BY <1>1, <1>2 DEF OAuthCall, TokenRow
<1>. QED BY <1>2, <1>3, <1>4, <1>5, <1>6 DEF OAuthTypeOK

\* Every step keeps the types.
LEMMA OAuthTyping == OAuthTypeOK /\ CodesKept /\ CallsKept /\ [OAuthNext]_oauthVars => OAuthTypeOK'
<1>. SUFFICES ASSUME OAuthTypeOK, CodesKept, CallsKept, [OAuthNext]_oauthVars
              PROVE  OAuthTypeOK'
  OBVIOUS
<1>1. ASSUME NEW c \in OAuthCallers
      PROVE  calls[c] \in OAuthCall
  BY DEF OAuthTypeOK
<1>2. ASSUME NEW c \in OAuthCallers, RegisterClient(c) \/ CreateClient(c) \/ ReadGrant(c) \/ AbandonCall(c)
      PROVE  OAuthTypeOK'
  <2>1. \E r \in OAuthCall : calls' = [calls EXCEPT ![c] = r]
    <3>1. CASE RegisterClient(c)
      BY <1>1, <3>1, CallTyped DEF RegisterClient, Places
    <3>2. CASE CreateClient(c) \/ AbandonCall(c)
      BY <1>1, <3>2, CallTyped DEF CreateClient, AbandonCall, Places
    <3>3. CASE ReadGrant(c)
      BY <1>1, <3>3, CallTyped DEF ReadGrant, Places
    <3>. QED BY <1>2, <3>1, <3>2, <3>3
  <2>2. calls' \in [OAuthCallers -> OAuthCall]
    BY <2>1 DEF OAuthTypeOK
  <2>3. clients' \in 0..MaxClients
    BY <1>2, OAuthAssumption DEF OAuthTypeOK, RegisterClient, CreateClient, ReadGrant, AbandonCall
  <2>4. UNCHANGED <<codes, grants, tokens, made, uses, disconnected>>
    BY <1>2 DEF RegisterClient, CreateClient, ReadGrant, AbandonCall
  <2>. QED BY <2>2, <2>3, <2>4 DEF OAuthTypeOK
<1>3. ASSUME NEW c \in OAuthCallers, RedeemAuthorizationCode(c)
      PROVE  OAuthTypeOK'
  <2>1. PICK i \in CodeIds :
           /\ codes' = [codes EXCEPT ![i].used = TRUE]
           /\ \/ calls' = [calls EXCEPT ![c] = [@ EXCEPT !.at = "prepare", !.code = i, !.client = codes[i].client]]
              \/ UNCHANGED calls
    BY <1>3 DEF RedeemAuthorizationCode
  <2>a. codes[i] \in Code
    BY DEF OAuthTypeOK
  <2>2. codes[i] \in Code /\ i \in 0..MaxCodes /\ codes[i].client \in 0..MaxClients
    BY <2>a, OAuthAssumption DEF CodeIds, Code
  <2>3. calls' \in [OAuthCallers -> OAuthCall]
    <3>1. [calls[c] EXCEPT !.at = "prepare", !.code = i, !.client = codes[i].client] \in OAuthCall
      BY <1>1, <2>2, CallTyped DEF Places
    <3>. QED BY <2>1, <3>1 DEF OAuthTypeOK
  <2>4. codes' \in [CodeIds -> Code]
    BY <2>1, <2>2, CodeTyped DEF OAuthTypeOK
  <2>. QED BY <1>3, <2>3, <2>4 DEF RedeemAuthorizationCode, OAuthTypeOK
<1>4. ASSUME NEW c \in OAuthCallers, PrepareRefreshToken(c)
      PROVE  OAuthTypeOK'
  <2>1. NoToken \in 0..MaxTokens
    BY OAuthAssumption DEF NoToken
  <2>. QED BY <1>4, <2>1, NewTokenEffect DEF PrepareRefreshToken, OAuthTypeOK
<1>5. ASSUME NEW c \in OAuthCallers, StartGrant(c)
      PROVE  OAuthTypeOK'
  <2>1. /\ calls[c].next \in 0..MaxTokens /\ calls[c].client \in ClientIds
        /\ calls[c].code \in CodeIds /\ calls[c].next \in TokenIds
    BY <1>1, <1>5 DEF StartGrant, CodesKept, CallsKept, Exchanging, Making, OAuthCall
  <2>2. [generation |-> calls[c].next, current |-> calls[c].next, revoked |-> FALSE] \in Grant
    BY <2>1 DEF Grant
  <2>3. /\ [codes[calls[c].code] EXCEPT !.grants = Twice(@)] \in Code
        /\ [tokens[calls[c].next] EXCEPT !.held = TRUE] \in TokenRow
    BY <2>1, CodeTyped, RowTyped DEF OAuthTypeOK
  <2>4. grants' \in [ClientIds -> Grant] /\ codes' \in [CodeIds -> Code] /\ tokens' \in [TokenIds -> TokenRow]
    BY <1>5, <2>2, <2>3 DEF StartGrant, OAuthTypeOK
  <2>5. calls' \in [OAuthCallers -> OAuthCall]
    BY <1>1, <1>5, CallTyped DEF StartGrant, OAuthTypeOK, Places
  <2>. QED BY <1>5, <2>4, <2>5 DEF StartGrant, OAuthTypeOK
<1>6. ASSUME NEW c \in OAuthCallers, PresentToken(c)
      PROVE  OAuthTypeOK'
  <2>1. PICK t \in TokenIds :
           /\ calls' = [calls EXCEPT ![c] = [NoCall EXCEPT !.at = "grant", !.client = tokens[t].client, !.token = t]]
           /\ uses' = [uses EXCEPT ![t] = Again(@)]
    BY <1>6 DEF PresentToken, Again
  <2>2. tokens[t] \in TokenRow /\ uses[t] \in Use /\ t \in 0..MaxTokens
    BY OAuthAssumption DEF OAuthTypeOK, TokenIds
  <2>3. calls' \in [OAuthCallers -> OAuthCall]
    BY <1>1, <2>1, <2>2, CallTyped DEF OAuthTypeOK, Places, TokenRow
  <2>4. uses' \in [TokenIds -> Use]
    BY <2>1, <2>2, UseTyped DEF OAuthTypeOK
  <2>. QED BY <1>6, <2>3, <2>4 DEF PresentToken, OAuthTypeOK
<1>7. ASSUME NEW c \in OAuthCallers, RefuseToken(c)
      PROVE  OAuthTypeOK'
  BY <1>7, CallEffect DEF RefuseToken, OAuthTypeOK, CallsKept, Redeeming
<1>9. ASSUME NEW c \in OAuthCallers, PrepareRotation(c)
      PROVE  OAuthTypeOK'
  <2>1. tokens[calls[c].token] \in TokenRow
    BY <1>9 DEF PrepareRotation, CallsKept, Redeeming, OAuthTypeOK
  <2>2. tokens[calls[c].token].generation \in 0..MaxTokens
    BY <2>1 DEF TokenRow
  <2>. QED BY <1>9, <2>2, NewTokenEffect DEF PrepareRotation, OAuthTypeOK
<1>10. ASSUME NEW c \in OAuthCallers, ClaimGrant(c)
       PROVE  OAuthTypeOK'
  <2>1. calls[c].next \in 0..MaxTokens /\ calls[c].token \in TokenIds
    BY <1>1, <1>10 DEF ClaimGrant, CallsKept, Redeeming, OAuthCall
  <2>2. grants' \in [ClientIds -> Grant]
    <3>1. \A k \in ClientIds : [grants[k] EXCEPT !.current = calls[c].next] \in Grant
      BY <2>1, GrantTyped DEF OAuthTypeOK
    <3>2. \/ grants' = grants
          \/ grants' = [grants EXCEPT ![calls[c].client] = [@ EXCEPT !.current = calls[c].next]]
      BY <1>10 DEF ClaimGrant
    <3>. QED BY <3>1, <3>2 DEF OAuthTypeOK
  <2>3. tokens' \in [TokenIds -> TokenRow]
    <3>1. \A t \in TokenIds : [tokens[t] EXCEPT !.held = TRUE] \in TokenRow
      BY RowTyped DEF OAuthTypeOK
    <3>2. \/ tokens' = tokens
          \/ tokens' = [tokens EXCEPT ![calls[c].next] = [@ EXCEPT !.held = TRUE]]
      BY <1>10 DEF ClaimGrant
    <3>. QED BY <3>1, <3>2 DEF OAuthTypeOK
  <2>4. calls' \in [OAuthCallers -> OAuthCall] /\ uses' \in [TokenIds -> Use]
    <3>1. CASE Answer(c, TRUE)
      BY <2>1, <3>1, CallEffect
    <3>2. CASE calls' = [calls EXCEPT ![c] = [@ EXCEPT !.at = "replay"]] /\ UNCHANGED uses
      BY <1>1, <3>2, CallTyped DEF OAuthTypeOK, Places
    <3>. QED BY <1>10, <3>1, <3>2 DEF ClaimGrant
  <2>. QED BY <1>10, <2>2, <2>3, <2>4 DEF ClaimGrant, OAuthTypeOK
<1>11. ASSUME NEW c \in OAuthCallers, RevokeReplayedGrant(c)
       PROVE  OAuthTypeOK'
  <2>1. calls' \in [OAuthCallers -> OAuthCall] /\ uses' \in [TokenIds -> Use]
    BY <1>11, CallEffect DEF RevokeReplayedGrant, CallsKept, Redeeming
  <2>2. grants' \in [ClientIds -> Grant]
    <3>1. PICK b \in BOOLEAN : grants' = [grants EXCEPT ![calls[c].client] = [@ EXCEPT !.revoked = b]]
      BY <1>11 DEF RevokeReplayedGrant
    <3>2. \A k \in ClientIds : [grants[k] EXCEPT !.revoked = b] \in Grant
      BY GrantRevoked DEF OAuthTypeOK
    <3>. QED BY <3>1, <3>2 DEF OAuthTypeOK
  <2>. QED BY <1>11, <2>1, <2>2 DEF RevokeReplayedGrant, OAuthTypeOK
<1>13. ASSUME NEW i \in CodeIds, IssueAuthorizationCode(i)
       PROVE  OAuthTypeOK'
  <2>1. PICK k \in 1..clients : codes' = [codes EXCEPT ![i] = [@ EXCEPT !.client = k]]
    BY <1>13 DEF IssueAuthorizationCode
  <2>3. k \in 0..MaxClients
    BY OAuthAssumption DEF OAuthTypeOK
  <2>2. codes' \in [CodeIds -> Code]
    BY <2>1, <2>3, CodeTyped DEF OAuthTypeOK
  <2>. QED BY <1>13, <2>2 DEF IssueAuthorizationCode, OAuthTypeOK
<1>14. ASSUME NEW k \in ClientIds, Disconnect(k)
       PROVE  OAuthTypeOK'
  <2>1. grants[k] \in Grant
    BY DEF OAuthTypeOK
  <2>2. grants[k].generation \in TokenIds
    BY <1>14, <2>1, OAuthAssumption DEF Disconnect, Grant, TokenIds, NoToken
  <2>3. grants' \in [ClientIds -> Grant]
    BY <1>14, <2>1, GrantRevoked DEF Disconnect, OAuthTypeOK
  <2>. QED BY <1>14, <2>2, <2>3 DEF Disconnect, OAuthTypeOK
<1>15. CASE UNCHANGED oauthVars
  BY <1>15 DEF oauthVars, OAuthTypeOK
<1>. QED
  BY <1>2, <1>3, <1>4, <1>5, <1>6, <1>7, <1>9, <1>10, <1>11, <1>13, <1>14, <1>15 DEF OAuthNext

-----------------------------------------------------------------------------
(* What a step does to the requests: the others stay as they are. *)

OthersStay(c) == \A d \in OAuthCallers : d # c => calls'[d] = calls[d]

\* The request is over, or goes on at another place.
Ends(c) == OthersStay(c) /\ calls'[c] = NoCall
GoesOn(c, at) ==
    /\ OthersStay(c)
    /\ calls'[c].at = at /\ calls'[c].client = calls[c].client
    /\ calls'[c].code = calls[c].code /\ calls'[c].token = calls[c].token

\* Where each step takes its request.
LEMMA RequestMoves ==
    ASSUME OAuthTypeOK, CallsKept, NEW c \in OAuthCallers
    PROVE  /\ RegisterClient(c) => GoesOn(c, "create")
           /\ CreateClient(c) \/ AbandonCall(c) \/ StartGrant(c) => Ends(c)
           /\ RefuseToken(c) \/ RevokeReplayedGrant(c) => Ends(c)
           /\ ClaimGrant(c) => IF Current(c) THEN Ends(c)
                               ELSE GoesOn(c, "replay") /\ UNCHANGED <<grants, tokens, uses>>
           /\ ReadGrant(c) =>
                 GoesOn(c, IF grants[calls[c].client].current = calls[c].token THEN "rotate" ELSE "replay")
           /\ PrepareRefreshToken(c) => GoesOn(c, "start") /\ calls'[c].next = made'
           /\ PrepareRotation(c) => GoesOn(c, "claim") /\ calls'[c].next = made'
<1>1. /\ calls[c] \in OAuthCall
      /\ \A r : calls' = [calls EXCEPT ![c] = r] => calls'[c] = r /\ OthersStay(c)
  BY DEF OAuthTypeOK, OthersStay
<1>2. \A at : calls' = [calls EXCEPT ![c].at = at] => GoesOn(c, at)
  <2>. SUFFICES ASSUME NEW at, calls' = [calls EXCEPT ![c] = [@ EXCEPT !.at = at]]
                PROVE  GoesOn(c, at)
    OBVIOUS
  <2>1. calls'[c] = [calls[c] EXCEPT !.at = at] /\ OthersStay(c)
    BY <1>1
  <2>. QED BY <1>1, <2>1 DEF GoesOn, OAuthCall
<1>3. RegisterClient(c) => GoesOn(c, "create")
  BY <1>2 DEF RegisterClient
<1>4. CreateClient(c) \/ AbandonCall(c) \/ StartGrant(c) \/ RefuseToken(c) \/ RevokeReplayedGrant(c) => Ends(c)
  BY <1>1 DEF CreateClient, AbandonCall, StartGrant, RefuseToken, RevokeReplayedGrant, Answer, Ends
<1>5. ClaimGrant(c) => IF Current(c) THEN Ends(c)
                       ELSE GoesOn(c, "replay") /\ UNCHANGED <<grants, tokens, uses>>
  BY <1>1, <1>2 DEF ClaimGrant, Answer, Ends
<1>6. ReadGrant(c) =>
         GoesOn(c, IF grants[calls[c].client].current = calls[c].token THEN "rotate" ELSE "replay")
  BY <1>2 DEF ReadGrant
<1>7. ASSUME NEW at, calls' = [calls EXCEPT ![c] = [@ EXCEPT !.at = at, !.next = made']]
      PROVE  GoesOn(c, at) /\ calls'[c].next = made'
  <2>1. calls'[c] = [calls[c] EXCEPT !.at = at, !.next = made'] /\ OthersStay(c)
    BY <1>1, <1>7
  <2>. QED BY <1>1, <2>1 DEF GoesOn, OAuthCall
<1>8. PrepareRefreshToken(c) => GoesOn(c, "start") /\ calls'[c].next = made'
  BY <1>7 DEF PrepareRefreshToken, NewToken
<1>9. PrepareRotation(c) => GoesOn(c, "claim") /\ calls'[c].next = made'
  BY <1>7 DEF PrepareRotation, NewToken
<1>. QED BY <1>3, <1>4, <1>5, <1>6, <1>8, <1>9

\* A request that takes up a code or a token.
LEMMA RequestBegins ==
    ASSUME OAuthTypeOK, NEW c \in OAuthCallers
    PROVE  /\ RedeemAuthorizationCode(c) => OthersStay(c) /\ \E i \in CodeIds :
                 /\ codes[i].client \in ClientIds /\ ~codes[i].used
                 /\ codes' = [codes EXCEPT ![i].used = TRUE]
                 /\ \/ calls'[c].at = "prepare" /\ calls'[c].code = i /\ calls'[c].client = codes[i].client
                    \/ calls'[c] = calls[c]
           /\ PresentToken(c) => OthersStay(c) /\ \E t \in TokenIds :
                 /\ tokens[t].held
                 /\ uses' = [uses EXCEPT ![t] = Again(@)]
                 /\ calls'[c].at = "grant" /\ calls'[c].token = t /\ calls'[c].client = tokens[t].client
<1>1. /\ calls[c] \in OAuthCall
      /\ \A r : calls' = [calls EXCEPT ![c] = r] => calls'[c] = r /\ OthersStay(c)
  BY DEF OAuthTypeOK, OthersStay
<1>2. ASSUME RedeemAuthorizationCode(c)
      PROVE  OthersStay(c) /\ \E i \in CodeIds :
                 /\ codes[i].client \in ClientIds /\ ~codes[i].used
                 /\ codes' = [codes EXCEPT ![i].used = TRUE]
                 /\ \/ calls'[c].at = "prepare" /\ calls'[c].code = i /\ calls'[c].client = codes[i].client
                    \/ calls'[c] = calls[c]
  <2>1. PICK i \in CodeIds :
           /\ codes[i].client # 0 /\ ~codes[i].used
           /\ codes' = [codes EXCEPT ![i].used = TRUE]
           /\ \/ calls' = [calls EXCEPT ![c] = [@ EXCEPT !.at = "prepare", !.code = i, !.client = codes[i].client]]
              \/ UNCHANGED calls
    BY <1>2 DEF RedeemAuthorizationCode
  <2>2. codes[i] \in Code
    BY DEF OAuthTypeOK
  <2>3. codes[i].client \in ClientIds
    BY <2>1, <2>2, OAuthAssumption DEF Code, ClientIds
  <2>4. CASE calls' = [calls EXCEPT ![c] = [@ EXCEPT !.at = "prepare", !.code = i, !.client = codes[i].client]]
    <3>1. /\ calls'[c] = [calls[c] EXCEPT !.at = "prepare", !.code = i, !.client = codes[i].client]
          /\ OthersStay(c)
      BY <1>1, <2>4
    <3>2. calls'[c].at = "prepare" /\ calls'[c].code = i /\ calls'[c].client = codes[i].client
      BY <1>1, <3>1 DEF OAuthCall
    <3>. QED BY <2>1, <2>3, <3>1, <3>2
  <2>5. CASE UNCHANGED calls
    BY <2>1, <2>3, <2>5 DEF OthersStay
  <2>. QED BY <2>1, <2>4, <2>5
<1>3. ASSUME PresentToken(c)
      PROVE  OthersStay(c) /\ \E t \in TokenIds :
                 /\ tokens[t].held
                 /\ uses' = [uses EXCEPT ![t] = Again(@)]
                 /\ calls'[c].at = "grant" /\ calls'[c].token = t /\ calls'[c].client = tokens[t].client
  <2>1. PICK t \in TokenIds :
           /\ tokens[t].held
           /\ calls' = [calls EXCEPT ![c] = [NoCall EXCEPT !.at = "grant", !.client = tokens[t].client, !.token = t]]
           /\ uses' = [uses EXCEPT ![t] = Again(@)]
    BY <1>3 DEF PresentToken, Again
  <2>2. calls'[c] = [NoCall EXCEPT !.at = "grant", !.client = tokens[t].client, !.token = t] /\ OthersStay(c)
    BY <1>1, <2>1
  <2>3. calls'[c].at = "grant" /\ calls'[c].token = t /\ calls'[c].client = tokens[t].client
    BY <2>2 DEF NoCall
  <2>. QED BY <2>1, <2>2, <2>3
<1>. QED BY <1>2, <1>3

-----------------------------------------------------------------------------
(* Codes. *)

\* Every step keeps codes to one grant each.
LEMMA CodesStep == OAuthTypeOK /\ CodesKept /\ CallsKept /\ [OAuthNext]_oauthVars => CodesKept'
<1>. SUFFICES ASSUME OAuthTypeOK, CodesKept, CallsKept, [OAuthNext]_oauthVars
              PROVE  CodesKept'
  OBVIOUS
<1>. USE DEF CodesKept, Exchanging
<1>1. ASSUME NEW c \in OAuthCallers,
             \/ RegisterClient(c) \/ CreateClient(c) \/ RefuseToken(c)
             \/ ReadGrant(c) \/ ClaimGrant(c) \/ RevokeReplayedGrant(c) \/ AbandonCall(c)
             \/ PrepareRotation(c)
      PROVE  CodesKept'
  <2>1. UNCHANGED codes
    BY <1>1 DEF RegisterClient, CreateClient, RefuseToken, ReadGrant, ClaimGrant,
                RevokeReplayedGrant, AbandonCall, PrepareRotation
  <2>2. OthersStay(c) /\ calls'[c].at \notin Exchanging
    BY <1>1, RequestMoves DEF Ends, GoesOn, NoCall
  <2>. QED BY <2>1, <2>2 DEF OthersStay
<1>2. ASSUME NEW c \in OAuthCallers, PresentToken(c)
      PROVE  CodesKept'
  <2>1. OthersStay(c) /\ calls'[c].at = "grant" /\ UNCHANGED codes
    BY <1>2, RequestBegins DEF PresentToken
  <2>. QED BY <2>1 DEF OthersStay
<1>3. ASSUME NEW c \in OAuthCallers, PrepareRefreshToken(c)
      PROVE  CodesKept'
  BY <1>3, RequestMoves DEF PrepareRefreshToken, GoesOn, OthersStay
<1>4. ASSUME NEW c \in OAuthCallers, RedeemAuthorizationCode(c)
      PROVE  CodesKept'
  <2>1. PICK i \in CodeIds :
           /\ codes[i].client \in ClientIds /\ ~codes[i].used
           /\ codes' = [codes EXCEPT ![i].used = TRUE]
           /\ \/ calls'[c].at = "prepare" /\ calls'[c].code = i /\ calls'[c].client = codes[i].client
              \/ calls'[c] = calls[c]
    BY <1>4, RequestBegins
  <2>2. \A j \in CodeIds : codes'[j] = IF j = i THEN [codes[j] EXCEPT !.used = TRUE] ELSE codes[j]
    BY <2>1 DEF OAuthTypeOK
  <2>3. codes[i] \in Code
    BY DEF OAuthTypeOK
  <2>4. codes'[i].grants = codes[i].grants /\ codes'[i].used
    BY <2>2, <2>3 DEF Code
  <2>5. OthersStay(c)
    BY <1>4, RequestBegins
  <2>. QED BY <2>1, <2>2, <2>4, <2>5 DEF OthersStay
<1>5. ASSUME NEW c \in OAuthCallers, StartGrant(c)
      PROVE  CodesKept'
  <2>1. calls[c].at = "start" /\ calls[c].code \in CodeIds /\ codes[calls[c].code].grants = 0
    BY <1>5 DEF StartGrant
  <2>2. codes' = [codes EXCEPT ![calls[c].code].grants = Twice(@)]
    BY <1>5 DEF StartGrant
  <2>3. \A j \in CodeIds : /\ codes'[j].used = codes[j].used
                           /\ codes'[j].grants = IF j = calls[c].code THEN 1 ELSE codes[j].grants
    BY <2>1, <2>2, TwiceCounts DEF OAuthTypeOK, Code
  <2>. QED BY <1>5, <2>1, <2>3, RequestMoves DEF Ends, OthersStay, NoCall
<1>6. ASSUME NEW i \in CodeIds, IssueAuthorizationCode(i)
      PROVE  CodesKept'
  <2>1. \A j \in CodeIds : codes'[j].used = codes[j].used /\ codes'[j].grants = codes[j].grants
    BY <1>6 DEF IssueAuthorizationCode, OAuthTypeOK, Code
  <2>. QED BY <1>6, <2>1 DEF IssueAuthorizationCode
<1>7. ASSUME NEW k \in ClientIds, Disconnect(k)
      PROVE  CodesKept'
  BY <1>7 DEF Disconnect
<1>8. CASE UNCHANGED oauthVars
  BY <1>8 DEF oauthVars
<1>. QED BY <1>1, <1>2, <1>3, <1>4, <1>5, <1>6, <1>7, <1>8 DEF OAuthNext

-----------------------------------------------------------------------------
(* What a step does to the rows, the grants and the counts. *)

\* The token is handed out; its row says what it said.
HandedOut(t) ==
    \A s \in TokenIds : /\ tokens'[s].client = tokens[s].client
                        /\ tokens'[s].generation = tokens[s].generation
                        /\ s # t => tokens'[s] = tokens[s]
                        /\ s = t => tokens'[s].held

\* One more answer for the token, and nothing for the others.
AnsweredFor(t, e) ==
    \A s \in TokenIds :
        /\ s # t => uses'[s] = uses[s]
        /\ s = t => /\ uses'[s].presented = uses[s].presented
                    /\ uses'[s].answered = Twice(uses[s].answered)
                    /\ uses'[s].exchanged = IF e THEN Twice(uses[s].exchanged) ELSE uses[s].exchanged

\* One more presentation of the token.
PresentedOnce(t) ==
    /\ \A s \in TokenIds : s # t => uses'[s] = uses[s]
    /\ uses'[t].presented = Twice(uses[t].presented)
    /\ uses'[t].answered = uses[t].answered /\ uses'[t].exchanged = uses[t].exchanged

\* An answer counts for the token of the request.
LEMMA UseMoves ==
    ASSUME OAuthTypeOK, CallsKept, NEW c \in OAuthCallers, calls[c].at \in Redeeming
    PROVE  \A e \in BOOLEAN : Answer(c, e) => AnsweredFor(calls[c].token, e)
<1>. SUFFICES ASSUME NEW e \in BOOLEAN, Answer(c, e)
              PROVE  AnsweredFor(calls[c].token, e)
  OBVIOUS
<1>1. calls[c].token \in TokenIds
  BY DEF CallsKept
<1>2. uses' = [uses EXCEPT ![calls[c].token] = Answered(@, e)]
  BY <1>1, CallEffect
<1>3. uses[calls[c].token] \in Use
  BY <1>1 DEF OAuthTypeOK
<1>. QED BY <1>1, <1>2, <1>3, UseTyped DEF AnsweredFor, OAuthTypeOK

\* A presentation starts a request that knows its token.
LEMMA PresentMoves ==
    ASSUME OAuthTypeOK, NEW c \in OAuthCallers, PresentToken(c)
    PROVE  /\ OthersStay(c) /\ UNCHANGED <<codes, grants, tokens, made, disconnected>>
           /\ \E t \in TokenIds :
                 /\ tokens[t].held /\ PresentedOnce(t)
                 /\ calls'[c].at = "grant" /\ calls'[c].token = t /\ calls'[c].client = tokens[t].client
<1>1. PICK t \in TokenIds :
         /\ tokens[t].held /\ uses' = [uses EXCEPT ![t] = Again(@)]
         /\ calls'[c].at = "grant" /\ calls'[c].token = t /\ calls'[c].client = tokens[t].client
  BY RequestBegins
<1>2. uses[t] \in Use
  BY DEF OAuthTypeOK
<1>3. uses' = [uses EXCEPT ![t] = Again(@)]
  BY <1>1
<1>4. \A s \in TokenIds : /\ s # t => uses'[s] = uses[s]
                          /\ s = t => uses'[s] = Again(uses[s])
  BY <1>3 DEF OAuthTypeOK
<1>5. /\ Again(uses[t]).presented = Twice(uses[t].presented)
      /\ Again(uses[t]).answered = uses[t].answered
      /\ Again(uses[t]).exchanged = uses[t].exchanged
  BY <1>2, UseTyped
<1>6. PresentedOnce(t)
  <2>1. uses'[t] = Again(uses[t])
    BY <1>4
  <2>2. /\ uses'[t].presented = Twice(uses[t].presented)
        /\ uses'[t].answered = uses[t].answered /\ uses'[t].exchanged = uses[t].exchanged
    BY <1>5, <2>1
  <2>3. \A s \in TokenIds : s # t => uses'[s] = uses[s]
    BY <1>4
  <2>. QED BY <2>2, <2>3, Zenon DEF PresentedOnce
<1>. QED BY <1>1, <1>6, RequestBegins DEF PresentToken

\* A new grant, a rotated one, one that is revoked.
LEMMA GrantMoves ==
    ASSUME OAuthTypeOK, CodesKept, CallsKept, NEW c \in OAuthCallers
    PROVE  /\ StartGrant(c) =>
                 /\ HandedOut(calls[c].next) /\ UNCHANGED <<uses, made, disconnected>>
                 /\ calls[c].client \in ClientIds
                 /\ \A k \in ClientIds :
                       /\ k # calls[c].client => grants'[k] = grants[k]
                       /\ k = calls[c].client => /\ grants'[k].generation = calls[c].next
                                                 /\ grants'[k].current = calls[c].next
                                                 /\ ~grants'[k].revoked
           /\ ClaimGrant(c) /\ Current(c) =>
                 /\ HandedOut(calls[c].next) /\ UNCHANGED <<made, disconnected>>
                 /\ AnsweredFor(calls[c].token, TRUE)
                 /\ \A k \in ClientIds :
                       /\ k # calls[c].client => grants'[k] = grants[k]
                       /\ k = calls[c].client => /\ grants'[k].generation = grants[k].generation
                                                 /\ grants'[k].current = calls[c].next
                                                 /\ ~grants'[k].revoked
           /\ RevokeReplayedGrant(c) =>
                 /\ UNCHANGED <<tokens, made, disconnected>> /\ AnsweredFor(calls[c].token, FALSE)
                 /\ \A k \in ClientIds :
                       /\ grants'[k].generation = grants[k].generation
                       /\ grants'[k].current = grants[k].current
                       /\ grants'[k].revoked <=>
                             \/ grants[k].revoked
                             \/ /\ k = calls[c].client
                                /\ grants[k].generation = tokens[calls[c].token].generation
<1>. DEFINE w == calls[c]
<1>1. \A t \in TokenIds : tokens' = [tokens EXCEPT ![t].held = TRUE] => HandedOut(t)
  <2>. SUFFICES ASSUME NEW t \in TokenIds, tokens' = [tokens EXCEPT ![t] = [@ EXCEPT !.held = TRUE]]
                PROVE  HandedOut(t)
    OBVIOUS
  <2>1. tokens[t] \in TokenRow
    BY DEF OAuthTypeOK
  <2>2. tokens'[t] = [tokens[t] EXCEPT !.held = TRUE] /\ \A s \in TokenIds : s # t => tokens'[s] = tokens[s]
    BY DEF OAuthTypeOK
  <2>. QED BY <2>1, <2>2 DEF HandedOut, TokenRow
<1>2. ASSUME StartGrant(c)
      PROVE  /\ HandedOut(w.next) /\ UNCHANGED <<uses, made, disconnected>>
             /\ w.client \in ClientIds
             /\ \A k \in ClientIds :
                   /\ k # w.client => grants'[k] = grants[k]
                   /\ k = w.client => /\ grants'[k].generation = w.next
                                      /\ grants'[k].current = w.next
                                      /\ ~grants'[k].revoked
  <2>1. w.next \in TokenIds /\ w.client \in ClientIds
    BY <1>2 DEF StartGrant, CallsKept, CodesKept, Exchanging, Making
  <2>2. HandedOut(w.next)
    BY <1>1, <1>2, <2>1 DEF StartGrant
  <2>3. grants' = [grants EXCEPT ![w.client] = [generation |-> w.next, current |-> w.next, revoked |-> FALSE]]
    BY <1>2 DEF StartGrant
  <2>. QED BY <1>2, <2>1, <2>2, <2>3 DEF StartGrant, OAuthTypeOK
<1>3. ASSUME ClaimGrant(c), Current(c)
      PROVE  /\ HandedOut(w.next) /\ UNCHANGED <<made, disconnected>>
             /\ AnsweredFor(w.token, TRUE)
             /\ \A k \in ClientIds :
                   /\ k # w.client => grants'[k] = grants[k]
                   /\ k = w.client => /\ grants'[k].generation = grants[k].generation
                                      /\ grants'[k].current = w.next
                                      /\ ~grants'[k].revoked
  <2>1. w.next \in TokenIds /\ w.at \in Redeeming
    BY <1>3 DEF ClaimGrant, CallsKept, Making, Redeeming
  <2>2. HandedOut(w.next) /\ AnsweredFor(w.token, TRUE)
    BY <1>1, <1>3, <2>1, UseMoves DEF ClaimGrant
  <2>3. grants' = [grants EXCEPT ![w.client] = [@ EXCEPT !.current = w.next]]
    BY <1>3 DEF ClaimGrant
  <2>4. \A k \in ClientIds : /\ k # w.client => grants'[k] = grants[k]
                             /\ k = w.client => grants'[k] = [grants[k] EXCEPT !.current = w.next]
    BY <2>3 DEF OAuthTypeOK
  <2>5. \A k \in ClientIds : grants[k] \in Grant
    BY DEF OAuthTypeOK
  <2>. QED BY <1>3, <2>2, <2>4, <2>5 DEF ClaimGrant, Current, Grant
<1>4. ASSUME RevokeReplayedGrant(c)
      PROVE  /\ UNCHANGED <<tokens, made, disconnected>> /\ AnsweredFor(w.token, FALSE)
             /\ \A k \in ClientIds :
                   /\ grants'[k].generation = grants[k].generation
                   /\ grants'[k].current = grants[k].current
                   /\ grants'[k].revoked <=>
                         \/ grants[k].revoked
                         \/ /\ k = w.client
                            /\ grants[k].generation = tokens[w.token].generation
  <2>1. AnsweredFor(w.token, FALSE)
    BY <1>4, UseMoves DEF RevokeReplayedGrant, Redeeming
  <2>2. PICK b \in BOOLEAN :
           /\ b <=> grants[w.client].revoked \/ grants[w.client].generation = tokens[w.token].generation
           /\ grants' = [grants EXCEPT ![w.client] = [@ EXCEPT !.revoked = b]]
    BY <1>4 DEF RevokeReplayedGrant
  <2>3. \A k \in ClientIds : /\ k # w.client => grants'[k] = grants[k]
                             /\ k = w.client => grants'[k] = [grants[k] EXCEPT !.revoked = b]
    BY <2>2 DEF OAuthTypeOK
  <2>4. \A k \in ClientIds : grants[k] \in Grant
    BY DEF OAuthTypeOK
  <2>5. \A k \in ClientIds : k = w.client => /\ grants'[k].generation = grants[k].generation
                                             /\ grants'[k].current = grants[k].current
                                             /\ grants'[k].revoked = b
    BY <2>3, <2>4 DEF Grant
  <2>. QED BY <1>4, <2>1, <2>2, <2>3, <2>5 DEF RevokeReplayedGrant
<1>. QED BY <1>2, <1>3, <1>4

-----------------------------------------------------------------------------
(* The parts of the invariant that tell what the properties rest on. *)

Core == RowsKept /\ GrantsKept /\ CallsKept /\ Counted /\ Judged /\ NoFalseAlarm

\* The counts and the numbers of tokens are numbers.
LEMMA Numbers ==
    ASSUME OAuthTypeOK
    PROVE  /\ made \in Nat /\ TokenIds \subseteq Nat /\ NoToken \notin TokenIds
           /\ \A t \in TokenIds : /\ uses[t].presented \in 0..2 /\ uses[t].answered \in 0..2
                                /\ uses[t].exchanged \in 0..2
<1>1. \A t \in TokenIds : uses[t] \in Use
  BY DEF OAuthTypeOK
<1>2. made \in Nat /\ TokenIds \subseteq Nat /\ NoToken \notin TokenIds
  BY OAuthAssumption DEF OAuthTypeOK, TokenIds, NoToken
<1>. QED BY <1>1, <1>2 DEF Use

\* A request whose token belongs to a live generation but is not its current one is a replay.
LEMMA ReplayKnown ==
    ASSUME OAuthTypeOK, CallsKept, Counted, Judged,
           NEW c \in OAuthCallers, calls[c].at \in Redeeming, Good(calls[c].token),
           grants[calls[c].client].current # calls[c].token
    PROVE  uses[calls[c].token].presented = 2
<1>1. /\ calls[c].token \in TokenIds /\ tokens[calls[c].token].held
      /\ calls[c].client = tokens[calls[c].token].client
  BY DEF CallsKept
<1>2. uses[calls[c].token].exchanged > 0
  BY <1>1 DEF Judged
<1>. QED BY <1>1, <1>2 DEF Counted

\* Requests go on with their tokens, or drop what they had: nothing else moves.
Quiet ==
    /\ UNCHANGED <<grants, tokens, made, uses, disconnected>>
    /\ \A d \in OAuthCallers :
         \/ calls'[d] = calls[d]
         \/ calls'[d].at \notin Redeeming \cup Making
         \/ /\ calls[d].at \in Redeeming /\ calls'[d].at \in {"rotate", "replay"}
            /\ calls'[d].token = calls[d].token /\ calls'[d].client = calls[d].client
            /\ calls'[d].at = "replay" /\ Good(calls[d].token) => uses[calls[d].token].presented = 2

\* Such a step keeps the invariant.
LEMMA QuietStep ==
    ASSUME Core, Quiet
    PROVE  Core'
<1>1. UNCHANGED <<grants, tokens, made, uses, disconnected>>
  BY DEF Quiet
<1>2. RowsKept' /\ GrantsKept' /\ NoFalseAlarm'
  BY <1>1 DEF Core, RowsKept, GrantsKept, NoFalseAlarm
<1>3. \A d \in OAuthCallers :
         \/ calls'[d] = calls[d]
         \/ calls'[d].at \notin Redeeming \cup Making
         \/ /\ calls[d].at \in Redeeming /\ calls'[d].at \in Redeeming /\ calls'[d].at \notin Making
            /\ calls'[d].token = calls[d].token /\ calls'[d].client = calls[d].client
            /\ calls'[d].at = "replay" /\ Good(calls[d].token) => uses[calls[d].token].presented = 2
  BY DEF Quiet, Redeeming, Making
<1>4. CallsKept'
  BY <1>1, <1>3 DEF Core, CallsKept
<1>5. Counted'
  BY <1>1, <1>3 DEF Core, Counted
<1>6. \A t : Good(t)' <=> Good(t)
  BY <1>1 DEF Good
<1>7. Judged'
  <2>1. /\ \A t \in TokenIds : tokens[t].held /\ Good(t) =>
              grants[tokens[t].client].current = t \/ uses[t].exchanged > 0
        /\ \A t \in TokenIds : tokens[t].held /\ Good(t) /\ uses[t].answered > 0 =>
              uses[t].exchanged > 0 /\ uses[t].answered = 1
        /\ \A d \in OAuthCallers : calls[d].at = "replay" /\ Good(calls[d].token) =>
              uses[calls[d].token].presented = 2
    BY DEF Core, Judged
  <2>2. \A d \in OAuthCallers : calls'[d].at = "replay" /\ Good(calls'[d].token) =>
           uses[calls'[d].token].presented = 2
    BY <1>3, <2>1 DEF Redeeming, Making
  <2>3. \A d \in OAuthCallers : Good(calls[d].token)' <=> Good(calls'[d].token)
    BY <1>1 DEF Good
  <2>. QED BY <1>1, <1>6, <2>1, <2>2, <2>3 DEF Judged
<1>. QED BY <1>2, <1>4, <1>5, <1>7 DEF Core
\* Presenting a token counts it, and makes two of what was in flight or answered before.
LEMMA PresentStep ==
    ASSUME OAuthTypeOK, Core, NEW c \in OAuthCallers, PresentToken(c)
    PROVE  Core'
<1>. DEFINE t == calls'[c].token
<1>1. /\ OthersStay(c) /\ UNCHANGED <<codes, grants, tokens, made, disconnected>>
      /\ t \in TokenIds /\ tokens[t].held /\ PresentedOnce(t)
      /\ calls'[c].at = "grant" /\ calls'[c].client = tokens[t].client
  BY PresentMoves
<1>2. \A s \in TokenIds :
         /\ uses'[s].answered = uses[s].answered /\ uses'[s].exchanged = uses[s].exchanged
         /\ uses[s].presented > 0 => uses'[s].presented > 0
         /\ uses[s].presented = 2 => uses'[s].presented = 2
         /\ s # t => uses'[s] = uses[s]
         /\ s = t => /\ uses'[s].presented > 0
                     /\ uses[s].presented > 0 => uses'[s].presented = 2
  BY <1>1, Numbers, TwiceCounts DEF PresentedOnce
<1>3. RowsKept'
  BY <1>1, <1>2 DEF Core, RowsKept
<1>4. GrantsKept'
  BY <1>1, <1>2 DEF Core, GrantsKept
<1>5. CallsKept'
  <2>1. t \in TokenIds /\ tokens'[t].held /\ calls'[c].client = tokens'[t].client
    BY <1>1
  <2>2. \A d \in OAuthCallers : d # c => calls'[d] = calls[d]
    BY <1>1 DEF OthersStay
  <2>3. "grant" \in Redeeming /\ "grant" \notin Making
    BY DEF Redeeming, Making
  <2>. HIDE DEF t
  <2>. QED BY <1>1, <2>1, <2>2, <2>3 DEF Core, CallsKept, t
<1>6. Counted'
  <2>1. \A s \in TokenIds : /\ uses'[s].exchanged <= 1
                            /\ uses'[s].exchanged > 0 => uses'[s].answered > 0
                            /\ uses'[s].answered > 0 => uses'[s].presented > 0
                            /\ uses'[s].answered = 2 => uses'[s].presented = 2
    BY <1>2 DEF Core, Counted
  <2>2. \A d \in OAuthCallers : calls'[d].at \in Redeeming =>
          /\ uses'[calls'[d].token].presented > 0
          /\ uses'[calls'[d].token].answered > 0 => uses'[calls'[d].token].presented = 2
    BY <1>1, <1>2 DEF Core, Counted, CallsKept, OthersStay
  <2>3. ASSUME NEW d \in OAuthCallers, NEW e \in OAuthCallers, d # e,
               calls'[d].at \in Redeeming, calls'[e].at \in Redeeming, calls'[d].token = calls'[e].token
        PROVE  uses'[calls'[d].token].presented = 2
    <3>1. CASE d # c /\ e # c
      BY <1>1, <1>2, <2>3, <3>1 DEF Core, Counted, CallsKept, OthersStay
    <3>2. CASE d = c
      BY <1>1, <1>2, <2>3, <3>2 DEF Core, Counted, CallsKept, OthersStay
    <3>3. CASE e = c
      BY <1>1, <1>2, <2>3, <3>3 DEF Core, Counted, CallsKept, OthersStay
    <3>. QED BY <3>1, <3>2, <3>3
  <2>. QED BY <2>1, <2>2, <2>3 DEF Counted
<1>7. Judged'
  <2>1. \A s \in TokenIds : Good(s)' <=> Good(s)
    BY <1>1 DEF Good
  <2>2. \A d \in OAuthCallers : Good(calls[d].token)' <=> Good(calls'[d].token)
    BY <1>1 DEF Good
  <2>3. \A d \in OAuthCallers : calls'[d].at = "replay" =>
           /\ calls'[d] = calls[d] /\ calls[d].token \in TokenIds
    BY <1>1 DEF OthersStay, Core, CallsKept, Redeeming
  <2>4. \A d \in OAuthCallers : calls'[d].at = "replay" /\ Good(calls'[d].token) =>
           uses'[calls'[d].token].presented = 2
    BY <1>2, <2>3 DEF Core, Judged
  <2>5. /\ \A s \in TokenIds : tokens'[s].held /\ Good(s) =>
              grants'[tokens'[s].client].current = s \/ uses'[s].exchanged > 0
        /\ \A s \in TokenIds : tokens'[s].held /\ Good(s) /\ uses'[s].answered > 0 =>
              uses'[s].exchanged > 0 /\ uses'[s].answered = 1
    BY <1>1, <1>2 DEF Core, Judged
  <2>. QED BY <2>1, <2>2, <2>4, <2>5 DEF Judged
<1>8. NoFalseAlarm'
  BY <1>1, <1>2 DEF Core, NoFalseAlarm
<1>. QED BY <1>3, <1>4, <1>5, <1>6, <1>7, <1>8 DEF Core
\* A new row is nobody's until it is handed out.
LEMMA MakeStep ==
    ASSUME OAuthTypeOK, Core, NEW c \in OAuthCallers, PrepareRefreshToken(c) \/ PrepareRotation(c)
    PROVE  Core'
<1>. DEFINE n == made'
<1>1. PICK g \in 0..MaxTokens, at \in Making :
         /\ NewToken(c, g, at) /\ GoesOn(c, at) /\ calls'[c].next = n
         /\ UNCHANGED <<grants, uses, disconnected>>
         /\ at = "start" => g = NoToken /\ calls[c].at = "prepare"
         /\ at = "claim" => /\ calls[c].at = "rotate" /\ g = tokens[calls[c].token].generation
                            /\ g \in TokenIds
  <2>1. CASE PrepareRefreshToken(c)
    <3>1. NoToken \in 0..MaxTokens
      BY OAuthAssumption DEF NoToken
    <3>2. GoesOn(c, "start") /\ calls'[c].next = n
      BY <2>1, RequestMoves DEF Core
    <3>. QED BY <2>1, <3>1, <3>2 DEF PrepareRefreshToken, Making
  <2>2. CASE PrepareRotation(c)
    <3>1. tokens[calls[c].token].generation \in TokenIds
      BY <2>2 DEF PrepareRotation, Core, CallsKept, RowsKept, Redeeming
    <3>2. GoesOn(c, "claim") /\ calls'[c].next = n
      BY <2>2, RequestMoves DEF Core
    <3>. QED BY <2>2, <3>1, <3>2 DEF PrepareRotation, Making, TokenIds
  <2>. QED BY <2>1, <2>2
<1>2. /\ n = made + 1 /\ n \in TokenIds
      /\ tokens' = [tokens EXCEPT ![n] = [client |-> calls[c].client, held |-> FALSE,
                       generation |-> IF g = NoToken THEN n ELSE g]]
  <2>1. at \in {"start", "claim"} /\ NewToken(c, g, at)
    BY <1>1 DEF Making
  <2>2. made' = made + 1 /\ made' \in TokenIds
    BY <2>1, NewTokenEffect
  <2>3. tokens' = [tokens EXCEPT ![made'] = [client |-> calls[c].client, held |-> FALSE,
                      generation |-> IF g = NoToken THEN made' ELSE g]]
    BY <2>1 DEF NewToken
  <2>. QED BY <2>2, <2>3
<1>3. n \notin 0..made /\ ~tokens[n].held
  BY <1>2, Numbers DEF Core, RowsKept, NoRow
<1>4. /\ \A s \in TokenIds : s # n => tokens'[s] = tokens[s]
      /\ tokens'[n].client = calls[c].client /\ ~tokens'[n].held
      /\ tokens'[n].generation = IF g = NoToken THEN n ELSE g
  BY <1>2 DEF OAuthTypeOK
<1>5. \A s \in TokenIds : (tokens[s].held \/ tokens'[s].held) => s # n /\ tokens'[s] = tokens[s]
  BY <1>3, <1>4
<1>6. \A s \in TokenIds : s > n => s > made /\ s # n
  BY <1>2, Numbers
<1>7. \A s \in TokenIds : s <= made => s # n /\ s <= n
  BY <1>2, Numbers
<1>. HIDE DEF n
<1>8. RowsKept'
  <2>1. \A t \in TokenIds : t > made' => tokens'[t] = NoRow
    BY <1>4, <1>6 DEF Core, RowsKept, n
  <2>2. \A t \in TokenIds : ~tokens'[t].held => uses'[t] = NoUse
    BY <1>1, <1>3, <1>4 DEF Core, RowsKept
  <2>3. \A t \in TokenIds : tokens'[t].held =>
          /\ tokens'[t].client \in ClientIds /\ tokens'[t].generation \in TokenIds
          /\ tokens'[tokens'[t].generation].held
          /\ tokens'[tokens'[t].generation].client = tokens'[t].client
    BY <1>5 DEF Core, RowsKept
  <2>. QED BY <2>1, <2>2, <2>3 DEF RowsKept
<1>9. GrantsKept'
  BY <1>1, <1>5 DEF Core, GrantsKept
<1>10. \A d \in OAuthCallers : d # c => calls'[d] = calls[d]
  BY <1>1 DEF GoesOn, OthersStay
<1>11. CallsKept'
  <2>1. \A d \in OAuthCallers : calls'[d].at \in Redeeming =>
          /\ calls[d].at \in Redeeming
          /\ calls'[d].token = calls[d].token /\ calls'[d].client = calls[d].client
    BY <1>1, <1>10 DEF GoesOn, Redeeming, Making
  <2>2. \A d \in OAuthCallers : calls'[d].at \in Redeeming =>
          /\ calls'[d].token \in TokenIds /\ tokens'[calls'[d].token].held
          /\ calls'[d].client = tokens'[calls'[d].token].client
    BY <1>5, <2>1 DEF Core, CallsKept
  <2>3. ASSUME NEW d \in OAuthCallers, calls'[d].at \in Making
        PROVE  /\ calls'[d].next \in TokenIds /\ calls'[d].next <= made' /\ ~tokens'[calls'[d].next].held
               /\ tokens'[calls'[d].next].client = calls'[d].client
               /\ tokens'[calls'[d].next].generation =
                     IF calls'[d].at = "start" THEN calls'[d].next ELSE tokens'[calls'[d].token].generation
    <3>1. CASE d = c
      <4>1. n <= made'
        BY <1>2, Numbers DEF n
      <4>2. calls'[c].next = n /\ calls'[c].at = at /\ calls'[c].client = calls[c].client
            /\ calls'[c].token = calls[c].token
        BY <1>1 DEF GoesOn
      <4>3. at = "claim" => calls[c].token \in TokenIds /\ tokens[calls[c].token].held
        BY <1>1 DEF Core, CallsKept, Redeeming
      <4>4. at = "claim" => tokens'[calls[c].token].generation = g /\ g # NoToken
        BY <1>1, <1>5, <4>3, Numbers
      <4>. QED BY <1>1, <1>2, <1>4, <3>1, <4>1, <4>2, <4>4 DEF Making
    <3>2. CASE d # c
      <4>1. calls'[d] = calls[d] /\ calls[d].at \in Making
        BY <1>10, <2>3, <3>2
      <4>2. /\ calls[d].next \in TokenIds /\ calls[d].next <= made /\ ~tokens[calls[d].next].held
            /\ tokens[calls[d].next].client = calls[d].client
            /\ tokens[calls[d].next].generation = IF calls[d].at = "start" THEN calls[d].next
                                                  ELSE tokens[calls[d].token].generation
        BY <4>1 DEF Core, CallsKept
      <4>3. tokens'[calls[d].next] = tokens[calls[d].next] /\ calls[d].next <= made'
        BY <1>4, <1>7, <4>2 DEF n
      <4>4. calls[d].at # "start" => calls[d].token \in TokenIds /\ tokens[calls[d].token].held
        BY <4>1 DEF Core, CallsKept, Making, Redeeming
      <4>5. calls[d].at # "start" => tokens'[calls[d].token] = tokens[calls[d].token]
        BY <1>5, <4>4
      <4>. QED BY <4>1, <4>2, <4>3, <4>5
    <3>. QED BY <3>1, <3>2
  <2>4. \A d, e \in OAuthCallers : calls'[d].at \in Making /\ calls'[e].at \in Making =>
          d = e \/ calls'[d].next # calls'[e].next
    BY <1>1, <1>7, <1>10 DEF Core, CallsKept
  <2>. QED BY <2>2, <2>3, <2>4 DEF CallsKept
<1>12. Counted'
  <2>1. \A d \in OAuthCallers : calls'[d].at \in Redeeming =>
          calls[d].at \in Redeeming /\ calls'[d].token = calls[d].token
    BY <1>1, <1>10 DEF GoesOn, Redeeming, Making
  <2>. QED BY <1>1, <2>1 DEF Core, Counted
<1>13. Judged'
  <2>1. \A s \in TokenIds : tokens[s].held \/ tokens'[s].held => (Good(s)' <=> Good(s))
    BY <1>1, <1>5 DEF Good
  <2>2. \A d \in OAuthCallers : calls'[d].at = "replay" =>
          /\ calls'[d] = calls[d] /\ calls[d].token \in TokenIds /\ tokens[calls[d].token].held
    BY <1>1, <1>10 DEF GoesOn, Making, Core, CallsKept, Redeeming
  <2>3. \A d \in OAuthCallers : calls'[d].at = "replay" =>
          (Good(calls[d].token)' <=> Good(calls[d].token))
    <3>1. \A d \in OAuthCallers : calls'[d].at = "replay" =>
            tokens'[calls'[d].token] = tokens[calls[d].token]
      BY <1>5, <2>2
    <3>. QED BY <1>1, <2>2, <3>1 DEF Good
  <2>4. \A d \in OAuthCallers : calls'[d].at = "replay" /\ Good(calls[d].token)' =>
           uses'[calls'[d].token].presented = 2
    BY <1>1, <2>2, <2>3 DEF Core, Judged
  <2>5. \A s \in TokenIds : tokens'[s].held /\ Good(s)' =>
           /\ grants'[tokens'[s].client].current = s \/ uses'[s].exchanged > 0
           /\ uses'[s].answered > 0 => uses'[s].exchanged > 0 /\ uses'[s].answered = 1
    BY <1>1, <1>5, <2>1 DEF Core, Judged
  <2>. QED BY <2>4, <2>5 DEF Judged
<1>14. NoFalseAlarm'
  <2>1. \A s \in TokenIds : uses[s].presented = 2 => tokens'[s] = tokens[s]
    BY <1>3, <1>4 DEF Core, RowsKept, NoUse
  <2>. QED BY <1>1, <2>1 DEF Core, NoFalseAlarm
<1>. QED BY <1>8, <1>9, <1>11, <1>12, <1>13, <1>14 DEF Core
\* The grant is replaced: its generation is new, and so is its only token.
LEMMA StartStep ==
    ASSUME OAuthTypeOK, CodesKept, Core, NEW c \in OAuthCallers, StartGrant(c)
    PROVE  Core'
<1>. DEFINE n == calls[c].next
            k == calls[c].client
<1>1. /\ HandedOut(n) /\ UNCHANGED <<uses, made, disconnected>> /\ k \in ClientIds
      /\ \A j \in ClientIds : /\ j # k => grants'[j] = grants[j]
                              /\ j = k => /\ grants'[j].generation = n
                                          /\ grants'[j].current = n /\ ~grants'[j].revoked
  BY GrantMoves DEF Core
<1>2. /\ n \in TokenIds /\ n <= made /\ ~tokens[n].held
      /\ tokens[n].client = k /\ tokens[n].generation = n
  BY DEF StartGrant, Core, CallsKept, Making
<1>3. uses[n] = NoUse
  BY <1>2 DEF Core, RowsKept
<1>4. \A d \in OAuthCallers : d # c => calls'[d] = calls[d]
  BY RequestMoves DEF Core, Ends, OthersStay
<1>5. calls'[c].at \notin Redeeming \cup Making
  BY RequestMoves DEF Core, Ends, NoCall, Redeeming, Making
<1>6. \A s \in TokenIds :
         /\ tokens'[s].client = tokens[s].client /\ tokens'[s].generation = tokens[s].generation
         /\ tokens'[s].held <=> s = n \/ tokens[s].held
         /\ s # n => tokens'[s] = tokens[s]
  <2>1. \A s \in TokenIds : s # n => tokens'[s] = tokens[s]
    BY <1>1 DEF HandedOut
  <2>2. tokens'[n].held
    BY <1>1, <1>2 DEF HandedOut
  <2>. QED BY <1>1, <2>1, <2>2 DEF HandedOut
<1>7. \A s \in TokenIds : tokens[s].held => tokens[s].generation # n
  BY <1>2 DEF Core, RowsKept
<1>. HIDE DEF n, k
<1>8. RowsKept'
  <2>1. \A t \in TokenIds : t > made => t # n
    BY <1>2, Numbers
  <2>2. \A t \in TokenIds : t > made' => tokens'[t] = NoRow
    BY <1>1, <1>6, <2>1 DEF Core, RowsKept
  <2>3. \A t \in TokenIds : ~tokens'[t].held => uses'[t] = NoUse
    BY <1>1, <1>6 DEF Core, RowsKept
  <2>4. ASSUME NEW t \in TokenIds, tokens'[t].held
        PROVE  /\ tokens'[t].client \in ClientIds /\ tokens'[t].generation \in TokenIds
               /\ tokens'[tokens'[t].generation].held
               /\ tokens'[tokens'[t].generation].client = tokens'[t].client
    <3>1. CASE t = n
      BY <1>1, <1>2, <1>6, <3>1
    <3>2. CASE t # n
      BY <1>6, <2>4, <3>2 DEF Core, RowsKept
    <3>. QED BY <3>1, <3>2
  <2>. QED BY <2>2, <2>3, <2>4 DEF RowsKept
<1>9. GrantsKept'
  <2>1. ASSUME NEW j \in ClientIds, grants'[j].generation # NoToken
        PROVE  LET t == grants'[j].current
               IN  /\ t \in TokenIds /\ tokens'[t].held /\ tokens'[t].client = j
                   /\ tokens'[t].generation = grants'[j].generation
                   /\ uses'[t].exchanged = 0
    <3>1. CASE j = k
      BY <1>1, <1>2, <1>3, <1>6, <3>1 DEF NoUse
    <3>2. CASE j # k
      BY <1>1, <1>6, <2>1, <3>2 DEF Core, GrantsKept
    <3>. QED BY <3>1, <3>2
  <2>. QED BY <2>1 DEF GrantsKept
<1>10. \A d \in OAuthCallers : calls'[d].at \in Redeeming \cup Making => d # c /\ calls'[d] = calls[d]
  BY <1>4, <1>5
<1>11. CallsKept'
  <2>1. \A d \in OAuthCallers : calls'[d].at \in Redeeming =>
          /\ calls'[d].token \in TokenIds /\ tokens'[calls'[d].token].held
          /\ calls'[d].client = tokens'[calls'[d].token].client
    BY <1>6, <1>10 DEF Core, CallsKept
  <2>2. ASSUME NEW d \in OAuthCallers, calls'[d].at \in Making
        PROVE  /\ calls'[d].next \in TokenIds /\ calls'[d].next <= made' /\ ~tokens'[calls'[d].next].held
               /\ tokens'[calls'[d].next].client = calls'[d].client
               /\ tokens'[calls'[d].next].generation =
                     IF calls'[d].at = "start" THEN calls'[d].next ELSE tokens'[calls'[d].token].generation
    <3>1. d # c /\ calls'[d] = calls[d] /\ calls[d].at \in Making
      BY <1>10, <2>2
    <3>2. calls[d].next # n
      BY <3>1 DEF Core, CallsKept, StartGrant, Making, n
    <3>3. calls[d].at # "start" => calls[d].token \in TokenIds
      BY <3>1 DEF Core, CallsKept, Making, Redeeming
    <3>. QED BY <1>1, <1>6, <3>1, <3>2, <3>3 DEF Core, CallsKept
  <2>3. \A d, e \in OAuthCallers : calls'[d].at \in Making /\ calls'[e].at \in Making =>
          d = e \/ calls'[d].next # calls'[e].next
    BY <1>10 DEF Core, CallsKept
  <2>. QED BY <2>1, <2>2, <2>3 DEF CallsKept
<1>12. Counted'
  BY <1>1, <1>10 DEF Core, Counted
<1>13. Judged'
  <2>1. ASSUME NEW s \in TokenIds, tokens'[s].held, Good(s)', s # n
        PROVE  tokens[s].held /\ Good(s) /\ tokens[s].client # k
    <3>1. tokens[s].held /\ tokens[s].client \in ClientIds /\ tokens[s].generation # n
      BY <1>6, <1>7, <2>1 DEF Core, RowsKept
    <3>2. tokens[s].client # k
      BY <1>1, <1>6, <2>1, <3>1 DEF Good
    <3>. QED BY <1>1, <1>6, <2>1, <3>1, <3>2 DEF Good
  <2>2. ASSUME NEW s \in TokenIds, tokens'[s].held, Good(s)'
        PROVE  /\ grants'[tokens'[s].client].current = s \/ uses'[s].exchanged > 0
               /\ uses'[s].answered > 0 => uses'[s].exchanged > 0 /\ uses'[s].answered = 1
    <3>1. CASE s = n
      BY <1>1, <1>2, <1>3, <1>6, <3>1 DEF NoUse
    <3>2. CASE s # n
      <4>1. tokens[s].held /\ Good(s) /\ tokens[s].client # k /\ tokens[s].client \in ClientIds
        BY <2>1, <2>2, <3>2 DEF Core, RowsKept
      <4>. QED BY <1>1, <1>6, <4>1 DEF Core, Judged
    <3>. QED BY <3>1, <3>2
  <2>3. ASSUME NEW d \in OAuthCallers, calls'[d].at = "replay", Good(calls[d].token)'
        PROVE  uses'[calls'[d].token].presented = 2
    <3>1. calls'[d] = calls[d] /\ calls[d].token \in TokenIds /\ tokens[calls[d].token].held
      BY <1>10, <2>3 DEF Core, CallsKept, Redeeming
    <3>2. calls[d].token # n
      BY <1>2, <3>1
    <3>3. PICK s \in TokenIds : s = calls[d].token
      BY <3>1
    <3>4. Good(s)'
      BY <2>3, <3>1, <3>3 DEF Good
    <3>5. Good(calls[d].token)
      BY <1>6, <2>1, <3>1, <3>2, <3>3, <3>4
    <3>. QED BY <1>1, <2>3, <3>1, <3>5 DEF Core, Judged
  <2>. QED BY <2>2, <2>3 DEF Judged
<1>14. NoFalseAlarm'
  <2>1. ASSUME NEW j \in ClientIds, grants'[j].revoked
        PROVE  \/ grants'[j].generation \in disconnected'
               \/ \E t \in TokenIds : tokens'[t].generation = grants'[j].generation
                                        /\ uses'[t].presented = 2
    <3>1. grants'[j] = grants[j]
      BY <1>1, <2>1
    <3>. QED BY <1>1, <1>6, <2>1, <3>1 DEF Core, NoFalseAlarm
  <2>. QED BY <2>1 DEF NoFalseAlarm
<1>. QED BY <1>8, <1>9, <1>11, <1>12, <1>13, <1>14 DEF Core

\* The claimed grant keeps its generation; its new current token is the one that was made for it.
LEMMA RotateStep ==
    ASSUME OAuthTypeOK, CodesKept, Core, NEW c \in OAuthCallers, ClaimGrant(c), Current(c)
    PROVE  Core'
<1>. DEFINE n == calls[c].next
            k == calls[c].client
            t == calls[c].token
<1>1. /\ HandedOut(n) /\ UNCHANGED <<made, disconnected>> /\ AnsweredFor(t, TRUE)
      /\ \A j \in ClientIds : /\ j # k => grants'[j] = grants[j]
                              /\ j = k => /\ grants'[j].generation = grants[j].generation
                                          /\ grants'[j].current = n /\ ~grants'[j].revoked
  BY GrantMoves DEF Core
<1>2. /\ n \in TokenIds /\ n <= made /\ ~tokens[n].held
      /\ tokens[n].client = k /\ tokens[n].generation = tokens[t].generation
      /\ t \in TokenIds /\ tokens[t].held /\ tokens[t].client = k
  BY DEF ClaimGrant, Core, CallsKept, Making, Redeeming
<1>3. /\ k \in ClientIds /\ tokens[t].generation \in TokenIds
      /\ tokens[tokens[t].generation].held /\ tokens[tokens[t].generation].client = k
      /\ uses[n] = NoUse
  BY <1>2 DEF Core, RowsKept
<1>4. grants[k].generation = tokens[t].generation /\ grants[k].current = t /\ ~grants[k].revoked
  BY DEF Current
<1>5. \A d \in OAuthCallers : d # c => calls'[d] = calls[d]
  BY RequestMoves DEF Core, Ends, OthersStay
<1>6. calls'[c].at \notin Redeeming \cup Making
  BY RequestMoves DEF Core, Ends, NoCall, Redeeming, Making
<1>7. \A s \in TokenIds :
         /\ tokens'[s].client = tokens[s].client /\ tokens'[s].generation = tokens[s].generation
         /\ tokens'[s].held <=> s = n \/ tokens[s].held
         /\ s # n => tokens'[s] = tokens[s]
  <2>1. \A s \in TokenIds : s # n => tokens'[s] = tokens[s]
    BY <1>1 DEF HandedOut
  <2>2. tokens'[n].held
    BY <1>1, <1>2 DEF HandedOut
  <2>. QED BY <1>1, <2>1, <2>2 DEF HandedOut
<1>8. uses[t].exchanged = 0 /\ uses[t].answered = 0 /\ uses[t].presented > 0
  <2>1. uses[t].exchanged = 0
    BY <1>3, <1>4, Numbers DEF Core, GrantsKept
  <2>2. Good(t)
    BY <1>2, <1>4 DEF Good
  <2>3. uses[t].answered = 0
    BY <1>2, <2>1, <2>2, Numbers DEF Core, Judged
  <2>. QED BY <2>1, <2>3 DEF Core, Counted, ClaimGrant, Redeeming
<1>9. /\ \A s \in TokenIds : s # t => uses'[s] = uses[s]
      /\ uses'[t].presented = uses[t].presented /\ uses'[t].answered = 1 /\ uses'[t].exchanged = 1
  BY <1>1, <1>2, <1>8, Numbers, TwiceCounts DEF AnsweredFor
<1>10. \A d \in OAuthCallers : calls'[d].at \in Redeeming \cup Making => d # c /\ calls'[d] = calls[d]
  BY <1>5, <1>6
<1>11. calls[c].at \in Redeeming /\ calls[c].at \in Making
  BY DEF ClaimGrant, Redeeming, Making
<1>. HIDE DEF n, k, t
<1>12. n # t
  BY <1>2
<1>13. RowsKept'
  <2>1. \A s \in TokenIds : s > made => s # n
    BY <1>2, Numbers
  <2>2. \A s \in TokenIds : s > made' => tokens'[s] = NoRow
    BY <1>1, <1>7, <2>1 DEF Core, RowsKept
  <2>3. \A s \in TokenIds : ~tokens'[s].held => uses'[s] = NoUse
    BY <1>2, <1>7, <1>9 DEF Core, RowsKept
  <2>4. ASSUME NEW s \in TokenIds, tokens'[s].held
        PROVE  /\ tokens'[s].client \in ClientIds /\ tokens'[s].generation \in TokenIds
               /\ tokens'[tokens'[s].generation].held
               /\ tokens'[tokens'[s].generation].client = tokens'[s].client
    <3>1. CASE s = n
      BY <1>2, <1>3, <1>7, <3>1
    <3>2. CASE s # n
      BY <1>7, <2>4, <3>2 DEF Core, RowsKept
    <3>. QED BY <3>1, <3>2
  <2>. QED BY <2>2, <2>3, <2>4 DEF RowsKept
<1>14. GrantsKept'
  <2>1. ASSUME NEW j \in ClientIds, grants'[j].generation # NoToken
        PROVE  LET s == grants'[j].current
               IN  /\ s \in TokenIds /\ tokens'[s].held /\ tokens'[s].client = j
                   /\ tokens'[s].generation = grants'[j].generation
                   /\ uses'[s].exchanged = 0
    <3>1. CASE j = k
      <4>1. grants'[j].current = n /\ grants'[j].generation = tokens[t].generation
        BY <1>1, <1>4, <3>1
      <4>2. uses'[n].exchanged = 0
        BY <1>2, <1>3, <1>9, <1>12 DEF NoUse
      <4>. QED BY <1>2, <1>7, <3>1, <4>1, <4>2
    <3>2. CASE j # k
      <4>1. grants'[j] = grants[j]
        BY <1>1, <3>2
      <4>2. LET s == grants[j].current
            IN  /\ s \in TokenIds /\ tokens[s].held /\ tokens[s].client = j
                /\ tokens[s].generation = grants[j].generation /\ uses[s].exchanged = 0
        BY <2>1, <4>1 DEF Core, GrantsKept
      <4>3. grants[j].current # t
        BY <1>2, <3>2, <4>2
      <4>. QED BY <1>7, <1>9, <4>1, <4>2, <4>3
    <3>. QED BY <3>1, <3>2
  <2>. QED BY <2>1 DEF GrantsKept
<1>15. CallsKept'
  <2>1. \A d \in OAuthCallers : calls'[d].at \in Redeeming =>
          /\ calls'[d].token \in TokenIds /\ tokens'[calls'[d].token].held
          /\ calls'[d].client = tokens'[calls'[d].token].client
    BY <1>7, <1>10 DEF Core, CallsKept
  <2>2. ASSUME NEW d \in OAuthCallers, calls'[d].at \in Making
        PROVE  /\ calls'[d].next \in TokenIds /\ calls'[d].next <= made' /\ ~tokens'[calls'[d].next].held
               /\ tokens'[calls'[d].next].client = calls'[d].client
               /\ tokens'[calls'[d].next].generation =
                     IF calls'[d].at = "start" THEN calls'[d].next ELSE tokens'[calls'[d].token].generation
    <3>1. d # c /\ calls'[d] = calls[d] /\ calls[d].at \in Making
      BY <1>10, <2>2
    <3>2. calls[d].next # n
      BY <1>11, <3>1 DEF Core, CallsKept, n
    <3>3. calls[d].at # "start" => calls[d].token \in TokenIds
      BY <3>1 DEF Core, CallsKept, Making, Redeeming
    <3>. QED BY <1>1, <1>7, <3>1, <3>2, <3>3 DEF Core, CallsKept
  <2>3. \A d, e \in OAuthCallers : calls'[d].at \in Making /\ calls'[e].at \in Making =>
          d = e \/ calls'[d].next # calls'[e].next
    BY <1>10 DEF Core, CallsKept
  <2>. QED BY <2>1, <2>2, <2>3 DEF CallsKept
<1>16. \A s \in TokenIds : uses'[s].presented = uses[s].presented
  BY <1>9
<1>17. Counted'
  <2>1. \A s \in TokenIds : /\ uses'[s].exchanged <= 1
                            /\ uses'[s].exchanged > 0 => uses'[s].answered > 0
                            /\ uses'[s].answered > 0 => uses'[s].presented > 0
                            /\ uses'[s].answered = 2 => uses'[s].presented = 2
    BY <1>8, <1>9 DEF Core, Counted
  <2>2. ASSUME NEW d \in OAuthCallers, calls'[d].at \in Redeeming
        PROVE  /\ uses'[calls'[d].token].presented > 0
               /\ uses'[calls'[d].token].answered > 0 => uses'[calls'[d].token].presented = 2
    <3>1. d # c /\ calls'[d] = calls[d] /\ calls[d].at \in Redeeming /\ calls[d].token \in TokenIds
      BY <1>10, <2>2 DEF Core, CallsKept
    <3>2. CASE calls[d].token = t
      BY <1>11, <1>16, <3>1, <3>2 DEF Core, Counted, t
    <3>3. CASE calls[d].token # t
      BY <1>9, <3>1, <3>3 DEF Core, Counted
    <3>. QED BY <3>2, <3>3
  <2>3. \A d, e \in OAuthCallers :
          calls'[d].at \in Redeeming /\ calls'[e].at \in Redeeming /\ calls'[d].token = calls'[e].token =>
          d = e \/ uses'[calls'[d].token].presented = 2
    BY <1>10, <1>16 DEF Core, Counted, CallsKept
  <2>. QED BY <2>1, <2>2, <2>3 DEF Counted
<1>18. ASSUME NEW s \in TokenIds
       PROVE  Good(s)' <=> Good(s)
  <2>1. CASE tokens[s].client = k
    BY <1>1, <1>3, <1>4, <1>7, <2>1 DEF Good
  <2>2. CASE tokens[s].client # k /\ tokens[s].client \in ClientIds
    BY <1>1, <1>7, <2>2 DEF Good
  <2>3. CASE tokens[s].client \notin ClientIds
    <3>1. tokens'[s].client = tokens[s].client /\ tokens'[s].generation = tokens[s].generation
      BY <1>7
    <3>2. grants' = [grants EXCEPT ![k].current = n]
      BY DEF ClaimGrant, k, n
    <3>3. grants'[tokens[s].client] = grants[tokens[s].client]
      BY <2>3, <3>2 DEF OAuthTypeOK
    <3>. QED BY <3>1, <3>3 DEF Good
  <2>. QED BY <2>1, <2>2, <2>3
<1>19. Judged'
  <2>1. ASSUME NEW s \in TokenIds, tokens'[s].held, Good(s)'
        PROVE  /\ grants'[tokens'[s].client].current = s \/ uses'[s].exchanged > 0
               /\ uses'[s].answered > 0 => uses'[s].exchanged > 0 /\ uses'[s].answered = 1
    <3>1. CASE s = n
      BY <1>1, <1>2, <1>3, <1>7, <1>9, <1>12, <3>1 DEF NoUse
    <3>2. CASE s = t
      BY <1>9, <3>2
    <3>3. CASE s # n /\ s # t
      <4>1. /\ tokens[s].held /\ Good(s) /\ uses'[s] = uses[s] /\ tokens'[s] = tokens[s]
            /\ tokens[s].client \in ClientIds
        BY <1>7, <1>9, <1>18, <2>1, <3>3 DEF Core, RowsKept
      <4>2. /\ grants[tokens[s].client].current = s \/ uses[s].exchanged > 0
            /\ uses[s].answered > 0 => uses[s].exchanged > 0 /\ uses[s].answered = 1
        BY <4>1 DEF Core, Judged
      <4>3. CASE tokens[s].client = k
        BY <1>4, <3>3, <4>1, <4>2, <4>3
      <4>4. CASE tokens[s].client # k
        BY <1>1, <4>1, <4>2, <4>4
      <4>. QED BY <4>3, <4>4
    <3>. QED BY <3>1, <3>2, <3>3
  <2>2. ASSUME NEW d \in OAuthCallers, calls'[d].at = "replay", Good(calls[d].token)'
        PROVE  uses'[calls'[d].token].presented = 2
    <3>1. calls'[d] = calls[d] /\ calls[d].token \in TokenIds
      BY <1>10, <2>2 DEF Core, CallsKept, Redeeming
    <3>2. PICK s \in TokenIds : s = calls[d].token
      BY <3>1
    <3>3. Good(s)'
      BY <2>2, <3>1, <3>2 DEF Good
    <3>4. Good(calls[d].token)
      BY <1>18, <3>2, <3>3
    <3>. QED BY <1>16, <2>2, <3>1, <3>4 DEF Core, Judged
  <2>. QED BY <2>1, <2>2 DEF Judged
<1>20. NoFalseAlarm'
  <2>1. ASSUME NEW j \in ClientIds, grants'[j].revoked
        PROVE  \/ grants'[j].generation \in disconnected'
               \/ \E s \in TokenIds : /\ tokens'[s].generation = grants'[j].generation
                                      /\ uses'[s].presented = 2
    <3>1. grants'[j] = grants[j]
      BY <1>1, <2>1
    <3>. QED BY <1>1, <1>7, <1>16, <2>1, <3>1 DEF Core, NoFalseAlarm
  <2>. QED BY <2>1 DEF NoFalseAlarm
<1>. QED BY <1>13, <1>14, <1>15, <1>17, <1>19, <1>20 DEF Core

\* A refusal, with the generation revoked or as it was, leaves no live generation that answered it.
LEMMA RefuseStep ==
    ASSUME OAuthTypeOK, CodesKept, Core, NEW c \in OAuthCallers, RefuseToken(c) \/ RevokeReplayedGrant(c)
    PROVE  Core'
<1>. DEFINE k == calls[c].client
            t == calls[c].token
<1>1. calls[c].at \in Redeeming
  BY DEF RefuseToken, RevokeReplayedGrant, Redeeming
<1>2. t \in TokenIds /\ tokens[t].held /\ tokens[t].client = k /\ k \in ClientIds
  BY <1>1 DEF Core, CallsKept, RowsKept
<1>3. /\ UNCHANGED <<tokens, made, disconnected>> /\ AnsweredFor(t, FALSE)
      /\ \A j \in ClientIds :
            /\ grants'[j].generation = grants[j].generation /\ grants'[j].current = grants[j].current
            /\ grants[j].revoked => grants'[j].revoked
            /\ grants'[j].revoked /\ ~grants[j].revoked =>
                  j = k /\ calls[c].at = "replay" /\ grants[j].generation = tokens[t].generation
      /\ grants'[k].generation # tokens[t].generation \/ grants'[k].revoked
  <2>1. CASE RefuseToken(c)
    <3>1. AnsweredFor(t, FALSE)
      BY <1>1, <2>1, UseMoves DEF RefuseToken, Core
    <3>. QED BY <2>1, <3>1 DEF RefuseToken
  <2>2. CASE RevokeReplayedGrant(c)
    <3>1. calls[c].at = "replay"
      BY <2>2 DEF RevokeReplayedGrant
    <3>2. UNCHANGED <<tokens, made, disconnected>> /\ AnsweredFor(t, FALSE)
      BY <2>2, GrantMoves DEF Core
    <3>3. \A j \in ClientIds :
             /\ grants'[j].generation = grants[j].generation /\ grants'[j].current = grants[j].current
             /\ grants'[j].revoked <=>
                   grants[j].revoked \/ (j = k /\ grants[j].generation = tokens[t].generation)
      BY <2>2, GrantMoves DEF Core
    <3>. QED BY <1>2, <3>1, <3>2, <3>3
  <2>. QED BY <2>1, <2>2
<1>4. \A d \in OAuthCallers : d # c => calls'[d] = calls[d]
  BY RequestMoves DEF Core, Ends, OthersStay
<1>5. calls'[c].at \notin Redeeming \cup Making
  BY RequestMoves DEF Core, Ends, NoCall, Redeeming, Making
<1>6. \A d \in OAuthCallers : calls'[d].at \in Redeeming \cup Making => d # c /\ calls'[d] = calls[d]
  BY <1>4, <1>5
<1>7. /\ \A s \in TokenIds : s # t => uses'[s] = uses[s]
      /\ \A s \in TokenIds : /\ uses'[s].presented = uses[s].presented
                             /\ uses'[s].exchanged = uses[s].exchanged
      /\ uses'[t].answered > 0 /\ (uses'[t].answered = 2 => uses[t].answered > 0)
  <2>1. uses'[t].answered = Twice(uses[t].answered)
    BY <1>2, <1>3 DEF AnsweredFor
  <2>2. uses'[t].answered > 0 /\ (uses'[t].answered = 2 => uses[t].answered > 0)
    BY <1>2, <2>1, Numbers, TwiceCounts
  <2>. QED BY <1>2, <1>3, <2>2 DEF AnsweredFor
<1>8. \A s \in TokenIds : tokens[s].client \in ClientIds /\ Good(s)' => s # t /\ Good(s)
  BY <1>2, <1>3 DEF Good
<1>. HIDE DEF k, t
<1>9. RowsKept'
  BY <1>2, <1>3, <1>7 DEF Core, RowsKept
<1>10. GrantsKept'
  BY <1>3, <1>7 DEF Core, GrantsKept
<1>11. CallsKept'
  BY <1>3, <1>6 DEF Core, CallsKept
<1>12. Counted'
  <2>1. ASSUME NEW s \in TokenIds
        PROVE  /\ uses'[s].exchanged <= 1
               /\ uses'[s].exchanged > 0 => uses'[s].answered > 0
               /\ uses'[s].answered > 0 => uses'[s].presented > 0
               /\ uses'[s].answered = 2 => uses'[s].presented = 2
    <3>1. CASE s = t
      BY <1>1, <1>7, <3>1 DEF Core, Counted, t
    <3>2. CASE s # t
      BY <1>7, <3>2 DEF Core, Counted
    <3>. QED BY <3>1, <3>2
  <2>2. ASSUME NEW d \in OAuthCallers, calls'[d].at \in Redeeming
        PROVE  /\ uses'[calls'[d].token].presented > 0
               /\ uses'[calls'[d].token].answered > 0 => uses'[calls'[d].token].presented = 2
    <3>1. d # c /\ calls'[d] = calls[d] /\ calls[d].at \in Redeeming /\ calls[d].token \in TokenIds
      BY <1>6, <2>2 DEF Core, CallsKept
    <3>2. CASE calls[d].token = t
      BY <1>1, <1>7, <3>1, <3>2 DEF Core, Counted, t
    <3>3. CASE calls[d].token # t
      BY <1>7, <3>1, <3>3 DEF Core, Counted
    <3>. QED BY <3>2, <3>3
  <2>3. \A d, e \in OAuthCallers :
          calls'[d].at \in Redeeming /\ calls'[e].at \in Redeeming /\ calls'[d].token = calls'[e].token =>
          d = e \/ uses'[calls'[d].token].presented = 2
    BY <1>6, <1>7 DEF Core, Counted, CallsKept
  <2>. QED BY <2>1, <2>2, <2>3 DEF Counted
<1>13. Judged'
  <2>1. ASSUME NEW s \in TokenIds, tokens'[s].held, Good(s)'
        PROVE  /\ grants'[tokens'[s].client].current = s \/ uses'[s].exchanged > 0
               /\ uses'[s].answered > 0 => uses'[s].exchanged > 0 /\ uses'[s].answered = 1
    <3>1. tokens[s].held /\ tokens[s].client \in ClientIds
      BY <1>3, <2>1 DEF Core, RowsKept
    <3>2. s # t /\ Good(s)
      BY <1>8, <2>1, <3>1
    <3>. QED BY <1>3, <1>7, <3>1, <3>2 DEF Core, Judged
  <2>2. ASSUME NEW d \in OAuthCallers, calls'[d].at = "replay", Good(calls[d].token)'
        PROVE  uses'[calls'[d].token].presented = 2
    <3>1. /\ calls'[d] = calls[d] /\ calls[d].token \in TokenIds
          /\ tokens[calls[d].token].client \in ClientIds
      BY <1>6, <2>2 DEF Core, CallsKept, RowsKept, Redeeming
    <3>2. PICK s \in TokenIds : s = calls[d].token
      BY <3>1
    <3>3. Good(s)'
      BY <2>2, <3>1, <3>2 DEF Good
    <3>4. Good(calls[d].token)
      BY <1>8, <3>1, <3>2, <3>3
    <3>. QED BY <1>7, <2>2, <3>1, <3>4 DEF Core, Judged
  <2>. QED BY <2>1, <2>2 DEF Judged
<1>14. NoFalseAlarm'
  <2>1. ASSUME NEW j \in ClientIds, grants'[j].revoked
        PROVE  \/ grants'[j].generation \in disconnected'
               \/ \E s \in TokenIds : /\ tokens'[s].generation = grants'[j].generation
                                      /\ uses'[s].presented = 2
    <3>1. CASE grants[j].revoked
      BY <1>3, <1>7, <3>1 DEF Core, NoFalseAlarm
    <3>2. CASE ~grants[j].revoked
      <4>1. /\ j = k /\ calls[c].at = "replay" /\ grants[j].generation = tokens[t].generation
        BY <1>3, <2>1, <3>2
      <4>2. Good(t)
        BY <1>2, <3>2, <4>1 DEF Good
      <4>3. uses[t].presented = 2
        BY <4>1, <4>2 DEF Core, Judged, t
      <4>. QED BY <1>2, <1>3, <1>7, <4>1, <4>3
    <3>. QED BY <3>1, <3>2
  <2>. QED BY <2>1 DEF NoFalseAlarm
<1>. QED BY <1>9, <1>10, <1>11, <1>12, <1>13, <1>14 DEF Core

\* The user's own revocation is recorded as such.
LEMMA DisconnectStep ==
    ASSUME OAuthTypeOK, Core, NEW k \in ClientIds, Disconnect(k)
    PROVE  Core'
<1>1. UNCHANGED <<tokens, made, calls, uses>> /\ disconnected' = disconnected \cup {grants[k].generation}
  BY DEF Disconnect
<1>2. \A j \in ClientIds :
         /\ grants'[j].generation = grants[j].generation /\ grants'[j].current = grants[j].current
         /\ j # k => grants'[j] = grants[j]
         /\ grants[j].revoked => grants'[j].revoked
  <2>1. \A j \in ClientIds : /\ j # k => grants'[j] = grants[j]
                             /\ j = k => grants'[j] = [grants[j] EXCEPT !.revoked = TRUE]
    BY DEF Disconnect, OAuthTypeOK
  <2>2. \A j \in ClientIds : grants[j] \in Grant
    BY DEF OAuthTypeOK
  <2>3. /\ grants'[k].generation = grants[k].generation /\ grants'[k].current = grants[k].current
        /\ grants'[k].revoked
    BY <2>1, <2>2 DEF Grant
  <2>. QED BY <2>1, <2>3
<1>3. \A s \in TokenIds : tokens[s].client \in ClientIds /\ Good(s)' => Good(s)
  BY <1>1, <1>2 DEF Good
<1>4. RowsKept' /\ CallsKept' /\ Counted'
  BY <1>1 DEF Core, RowsKept, CallsKept, Counted
<1>5. GrantsKept'
  BY <1>1, <1>2 DEF Core, GrantsKept
<1>6. Judged'
  <2>1. ASSUME NEW s \in TokenIds, tokens'[s].held, Good(s)'
        PROVE  /\ grants'[tokens'[s].client].current = s \/ uses'[s].exchanged > 0
               /\ uses'[s].answered > 0 => uses'[s].exchanged > 0 /\ uses'[s].answered = 1
    <3>1. tokens[s].held /\ tokens[s].client \in ClientIds
      BY <1>1, <2>1 DEF Core, RowsKept
    <3>. QED BY <1>1, <1>2, <1>3, <2>1, <3>1 DEF Core, Judged
  <2>2. ASSUME NEW d \in OAuthCallers, calls'[d].at = "replay", Good(calls[d].token)'
        PROVE  uses'[calls'[d].token].presented = 2
    <3>1. calls[d].token \in TokenIds /\ tokens[calls[d].token].client \in ClientIds
      BY <1>1, <2>2 DEF Core, CallsKept, RowsKept, Redeeming
    <3>2. Good(calls[d].token)
      BY <1>1, <1>2, <2>2, <3>1 DEF Good
    <3>. QED BY <1>1, <2>2, <3>2 DEF Core, Judged
  <2>. QED BY <2>1, <2>2 DEF Judged
<1>7. NoFalseAlarm'
  BY <1>1, <1>2 DEF Core, NoFalseAlarm
<1>. QED BY <1>4, <1>5, <1>6, <1>7 DEF Core

-----------------------------------------------------------------------------
(* Grants: the invariant and what follows from it. *)

\* Nothing is registered, approved or handed out at first.
LEMMA OAuthStart == OAuthInit => OAuthIInv
<1>. SUFFICES ASSUME OAuthInit
              PROVE  OAuthIInv
  OBVIOUS
<1>1. NoCode \in Code /\ NoGrant \in Grant /\ NoRow \in TokenRow /\ NoUse \in Use /\ NoCall \in OAuthCall
  BY OAuthAssumption DEF NoCode, Code, NoGrant, Grant, NoRow, TokenRow, NoUse, Use, NoCall, OAuthCall, NoToken
<1>2. OAuthTypeOK
  BY <1>1, OAuthAssumption DEF OAuthInit, OAuthTypeOK
<1>3. CodesKept /\ RowsKept /\ GrantsKept
  BY DEF OAuthInit, CodesKept, RowsKept, GrantsKept, Exchanging, NoCode, NoRow, NoGrant, NoCall
<1>4. CallsKept /\ Counted
  BY DEF OAuthInit, CallsKept, Counted, Redeeming, Making, NoCall, NoUse
<1>5. Judged
  BY DEF OAuthInit, Judged, NoCall, NoUse, NoRow
<1>6. NoFalseAlarm
  BY DEF OAuthInit, NoFalseAlarm, NoGrant
<1>. QED BY <1>2, <1>3, <1>4, <1>5, <1>6 DEF OAuthIInv

\* Every step keeps the invariant.
LEMMA OAuthStep == OAuthIInv /\ [OAuthNext]_oauthVars => OAuthIInv'
<1>. SUFFICES ASSUME OAuthIInv, [OAuthNext]_oauthVars
              PROVE  OAuthIInv'
  OBVIOUS
<1>1. OAuthTypeOK /\ CodesKept /\ Core
  BY DEF OAuthIInv, Core
<1>2. OAuthTypeOK' /\ CodesKept'
  BY <1>1, OAuthTyping, CodesStep DEF Core
<1>3. ASSUME NEW c \in OAuthCallers, RegisterClient(c) \/ CreateClient(c) \/ AbandonCall(c)
      PROVE  Core'
  <2>1. /\ UNCHANGED <<grants, tokens, made, uses, disconnected>> /\ OthersStay(c)
        /\ calls'[c].at \notin Redeeming \cup Making
    BY <1>1, <1>3, RequestMoves DEF RegisterClient, CreateClient, AbandonCall, Core, Ends, GoesOn,
                                   NoCall, Redeeming, Making
  <2>. QED BY <1>1, <2>1, QuietStep DEF Quiet, OthersStay
<1>4. ASSUME NEW c \in OAuthCallers, RedeemAuthorizationCode(c)
      PROVE  Core'
  <2>1. /\ UNCHANGED <<grants, tokens, made, uses, disconnected>> /\ OthersStay(c)
        /\ calls'[c].at \notin Redeeming \cup Making \/ calls'[c] = calls[c]
    BY <1>1, <1>4, RequestBegins DEF RedeemAuthorizationCode, Redeeming, Making
  <2>. QED BY <1>1, <2>1, QuietStep DEF Quiet, OthersStay
<1>5. ASSUME NEW c \in OAuthCallers, ReadGrant(c)
      PROVE  Core'
  <2>1. UNCHANGED <<grants, tokens, made, uses, disconnected>> /\ calls[c].at \in Redeeming
    BY <1>5 DEF ReadGrant, Redeeming
  <2>2. /\ OthersStay(c) /\ calls'[c].at \in {"rotate", "replay"}
        /\ calls'[c].token = calls[c].token /\ calls'[c].client = calls[c].client
        /\ calls'[c].at = "replay" => grants[calls[c].client].current # calls[c].token
    BY <1>1, <1>5, RequestMoves DEF Core, GoesOn
  <2>3. calls'[c].at = "replay" /\ Good(calls[c].token) => uses[calls[c].token].presented = 2
    BY <1>1, <2>1, <2>2, ReplayKnown DEF Core
  <2>. QED BY <1>1, <2>1, <2>2, <2>3, QuietStep DEF Quiet, OthersStay
<1>6. ASSUME NEW c \in OAuthCallers, ClaimGrant(c), ~Current(c)
      PROVE  Core'
  <2>1. /\ UNCHANGED <<grants, tokens, made, uses, disconnected>> /\ calls[c].at \in Redeeming
        /\ OthersStay(c) /\ calls'[c].at = "replay"
        /\ calls'[c].token = calls[c].token /\ calls'[c].client = calls[c].client
    BY <1>1, <1>6, RequestMoves DEF ClaimGrant, Core, GoesOn, Redeeming
  <2>2. Good(calls[c].token) => grants[calls[c].client].current # calls[c].token
    BY <1>1, <1>6, <2>1 DEF Good, Current, Core, CallsKept
  <2>3. Good(calls[c].token) => uses[calls[c].token].presented = 2
    BY <1>1, <2>1, <2>2, ReplayKnown DEF Core
  <2>. QED BY <1>1, <2>1, <2>3, QuietStep DEF Quiet, OthersStay
<1>7. ASSUME NEW i \in CodeIds, IssueAuthorizationCode(i)
      PROVE  Core'
  BY <1>1, <1>7, QuietStep DEF IssueAuthorizationCode, Quiet
<1>8. ASSUME UNCHANGED oauthVars
      PROVE  Core'
  BY <1>1, <1>8, QuietStep DEF oauthVars, Quiet
<1>9. ASSUME NEW c \in OAuthCallers,
             \/ PresentToken(c) \/ PrepareRefreshToken(c) \/ PrepareRotation(c) \/ StartGrant(c)
             \/ RefuseToken(c) \/ RevokeReplayedGrant(c)
             \/ ClaimGrant(c) /\ Current(c)
      PROVE  Core'
  BY <1>1, <1>9, PresentStep, MakeStep, StartStep, RotateStep, RefuseStep
<1>10. ASSUME NEW k \in ClientIds, Disconnect(k)
       PROVE  Core'
  BY <1>1, <1>10, DisconnectStep
<1>11. ASSUME NEW c \in OAuthCallers,
              \/ RegisterClient(c) \/ CreateClient(c)
              \/ RedeemAuthorizationCode(c) \/ PrepareRefreshToken(c) \/ StartGrant(c)
              \/ PresentToken(c) \/ RefuseToken(c) \/ ReadGrant(c)
              \/ PrepareRotation(c) \/ ClaimGrant(c) \/ RevokeReplayedGrant(c)
              \/ AbandonCall(c)
       PROVE  Core'
  <2>1. CASE ClaimGrant(c)
    BY <1>6, <1>9, <2>1
  <2>. QED BY <1>3, <1>4, <1>5, <1>9, <1>11, <2>1
<1>12. Core'
  BY <1>7, <1>8, <1>10, <1>11 DEF OAuthNext
<1>. QED BY <1>2, <1>12 DEF OAuthIInv, Core

\* The invariant holds in every state.
THEOREM OAuthInvariance == OAuthSpec => []OAuthIInv
<1>. QED BY OAuthStart, OAuthStep, PTL DEF OAuthSpec

\* A code and a refresh token are each good for one exchange, however many requests race for them.
THEOREM OneExchange == OAuthSpec => []ExchangedOnce
<1>1. OAuthIInv => ExchangedOnce
  <2>. SUFFICES ASSUME OAuthIInv
                PROVE  ExchangedOnce
    OBVIOUS
  <2>1. \A i \in CodeIds : codes[i].grants <= 1
    BY DEF OAuthIInv, CodesKept
  <2>2. \A t \in TokenIds : uses[t].exchanged <= 1
    BY DEF OAuthIInv, Counted
  <2>. QED BY <2>1, <2>2 DEF ExchangedOnce
<1>. QED BY <1>1, OAuthInvariance, PTL

\* A connection whose tokens were each presented once is revoked by nobody but its user.
THEOREM NoAlarmWithoutReplay == OAuthSpec => []NoFalseAlarm
<1>1. OAuthIInv => NoFalseAlarm
  BY DEF OAuthIInv
<1>. QED BY <1>1, OAuthInvariance, PTL

\* Once two requests with the same token were answered, no token of its connection refreshes it.
THEOREM ReplayEndsConnection == OAuthSpec => []ReplayIsNoticed
<1>1. OAuthIInv => ReplayIsNoticed
  <2>. SUFFICES ASSUME OAuthIInv, NEW t \in TokenIds, uses[t].answered = 2, Live(tokens[t].generation)
                PROVE  FALSE
    BY DEF ReplayIsNoticed
  <2>1. tokens[t].held
    BY DEF OAuthIInv, RowsKept, NoUse
  <2>2. PICK k \in ClientIds : grants[k].generation = tokens[t].generation /\ ~grants[k].revoked
    BY DEF Live
  <2>3. /\ tokens[t].generation \in TokenIds /\ tokens[t].generation # NoToken
        /\ tokens[tokens[t].generation].client = tokens[t].client
    BY <2>1, Numbers DEF OAuthIInv, RowsKept
  <2>4. tokens[grants[k].current].client = k /\ grants[k].current \in TokenIds
        /\ tokens[grants[k].current].held /\ tokens[grants[k].current].generation = tokens[t].generation
    BY <2>2, <2>3 DEF OAuthIInv, GrantsKept
  <2>5. tokens[t].client = k
    BY <2>3, <2>4 DEF OAuthIInv, RowsKept
  <2>6. Good(t)
    BY <2>2, <2>5 DEF Good
  <2>. QED BY <2>1, <2>6 DEF OAuthIInv, Judged
<1>. QED BY <1>1, OAuthInvariance, PTL

-----------------------------------------------------------------------------
(* Groups: the inductive invariant. *)

\* The request saves what it changed, if nothing else happened: saveGroup finds the version it read.
Abreast(r) ==
    /\ group[r.group].status \notin {"none", "gone"}
    /\ group[r.group].version = r.doc.version

\* Whoever answers for what the request gives away.
Grantor(r) == IF r.needs = NoInvitation THEN r.actor ELSE invitation[r.needs].createdBy

\* What is true of a request that is about to save, whatever the others did since it read.
Sound(r) ==
    /\ group[r.group].status # "none"
    /\ r.doc.status \in {"live", "trashed"} /\ HasOwner(r.doc)
    /\ group[r.group].status # "gone" => r.doc.version <= group[r.group].version
    /\ Abreast(r) =>
          /\ \A u \in GroupUsers \ r.changed : r.doc.members[u] = group[r.group].members[u]
          /\ \A u \in r.changed : r.doc.members[u] = "owner" =>
                group[r.group].members[u] = "owner" \/ group[r.group].members[Grantor(r)] = "owner"
          /\ r.invites \cap spent = {}

RequestsSound == \A c \in GroupCallers : requests[c].at = "save" => Sound(requests[c])

\* An invitation that was not made is nowhere, and one that was has an author.
InvitationsKnown ==
    /\ \A i \in Invitations : invitation[i].role = NoRole =>
          /\ i \notin spent
          /\ \A g \in GroupIds : i \notin group[g].invitations
          /\ \A c \in GroupCallers : i \notin requests[c].invites /\ i # requests[c].needs
    /\ \A i \in Invitations : invitation[i].role # NoRole => invitation[i].createdBy \in GroupUsers

\* The invitation is in the group's list, or about to be written there.
Claims(g, i) ==
    \/ i \in group[g].invitations
    \/ \E c \in GroupCallers :
          requests[c].at = "save" /\ requests[c].group = g /\ i \in requests[c].invites

\* It is one group's.
GroupsApart == \A g, h \in GroupIds, i \in Invitations : Claims(g, i) /\ Claims(h, i) => g = h

GroupsIInv ==
    /\ GroupsTypeOK /\ AlwaysOwned /\ SpentStaysSpent
    /\ RequestsSound /\ InvitationsKnown /\ GroupsApart

-----------------------------------------------------------------------------
(* Groups: types. *)

\* What is made of a copy of a document is one: with another role, ...
LEMMA RoleTyped ==
    ASSUME NEW doc \in Group, NEW u \in GroupUsers, NEW role \in Roles \cup {NoRole}
    PROVE  /\ WithRole(doc, u, role) \in Group
           /\ WithRole(doc, u, role).status = doc.status
           /\ WithRole(doc, u, role).version = doc.version
           /\ \A v \in GroupUsers : WithRole(doc, u, role).members[v] =
                                       IF u = v THEN role ELSE doc.members[v]
<1>1. doc.members \in [GroupUsers -> Roles \cup {NoRole}]
  BY DEF Group
<1>2. [doc.members EXCEPT ![u] = role] \in [GroupUsers -> Roles \cup {NoRole}]
  BY <1>1
<1>3. \A v \in GroupUsers : [doc.members EXCEPT ![u] = role][v] = IF u = v THEN role ELSE doc.members[v]
  BY <1>1
<1>4. WithRole(doc, u, role) = [doc EXCEPT !.members = [doc.members EXCEPT ![u] = role]]
  BY DEF WithRole
<1>5. [doc EXCEPT !.members = [doc.members EXCEPT ![u] = role]].members = [doc.members EXCEPT ![u] = role]
  BY DEF Group
<1>. QED BY <1>2, <1>3, <1>4, <1>5 DEF Group

\* ... and with another status.
LEMMA StatusTyped ==
    ASSUME NEW doc \in Group, NEW s \in {"live", "trashed"}
    PROVE  /\ WithStatus(doc, s) \in Group
           /\ WithStatus(doc, s).status = s
           /\ WithStatus(doc, s).version = doc.version
           /\ WithStatus(doc, s).members = doc.members
BY DEF Group, WithStatus

\* A request that is written stays one, and the others stay as they are.
LEMMA WritingTyped ==
    ASSUME GroupsTypeOK, NEW c \in GroupCallers, NEW r \in GroupRequest,
           requests' = [requests EXCEPT ![c] = r]
    PROVE  /\ requests' \in [GroupCallers -> GroupRequest]
           /\ \A d \in GroupCallers : d # c => requests'[d] = requests[d]
           /\ requests'[c] = r
BY DEF GroupsTypeOK

\* Nothing to save, and the document that was not made.
LEMMA NothingTyped ==
    /\ NoGroup \in Group /\ NoInvite \in Invitation /\ NoRequest \in GroupRequest
    /\ NoRequest.at = "idle" /\ NoRequest.invites = {} /\ NoRequest.needs = NoInvitation
    /\ NoInvitation \notin Invitations
<1>1. NoGroup \in Group /\ NoInvite \in Invitation
  BY GroupsAssumption DEF NoGroup, Group, NoInvite, Invitation
<1>2. (CHOOSE g \in GroupIds : TRUE) \in GroupIds
  BY GroupsAssumption
<1>3. NoRequest \in GroupRequest
  BY <1>1, <1>2 DEF NoRequest, GroupRequest
<1>. QED BY <1>1, <1>3, GroupsAssumption DEF NoRequest, NoInvitation

-----------------------------------------------------------------------------
(* Requests that read a group and go on to save it. *)

\* What every one of them has when it begins.
Begun(c) ==
    LET r == requests'[c]
        now == group[r.group]
    IN  /\ UNCHANGED <<group, spent>>
        /\ invitation' \in [Invitations -> Invitation] /\ requests' \in [GroupCallers -> GroupRequest]
        /\ \A d \in GroupCallers : d # c => requests'[d] = requests[d]
        /\ \A i \in Invitations :
              \/ invitation'[i] = invitation[i]
              \/ /\ invitation[i].role = NoRole
                 /\ invitation'[i].role # NoRole /\ invitation'[i].createdBy \in GroupUsers
        /\ r.at = "save" /\ now.status \in {"live", "trashed"}
        /\ r.doc.status \in {"live", "trashed"} /\ HasOwner(r.doc) /\ r.doc.version = now.version
        /\ \A u \in GroupUsers \ r.changed : r.doc.members[u] = now.members[u]
        /\ \A u \in r.changed : r.doc.members[u] = "owner" =>
              \/ now.members[u] = "owner"
              \/ now.members[IF r.needs = NoInvitation THEN r.actor ELSE invitation[r.needs].createdBy] = "owner"
        /\ \A i \in r.invites :
              i \in now.invitations \/ (invitation[i].role = NoRole /\ invitation'[i].role # NoRole)
        /\ r.needs # NoInvitation => r.needs \in now.invitations

\* Inviting writes an invitation that was not made before, and revoking writes none.
LEMMA InviteBegins ==
    ASSUME GroupsIInv, NEW c \in GroupCallers, NEW u \in GroupUsers, NEW g \in GroupIds
    PROVE  /\ \A i \in Invitations, to \in GroupUsers \cup {AnyUser}, role \in Roles :
                 Invite(c, u, g, i, to, role) => Begun(c)
           /\ RevokeInvitations(c, u, g) => Begun(c)
<1>. DEFINE doc == group[g]
<1>1. doc \in Group /\ NoInvitation \in Invitations \cup {NoInvitation} /\ {} \in SUBSET GroupUsers
  BY DEF GroupsIInv, GroupsTypeOK
<1>2. ASSUME NEW i \in Invitations, NEW to \in GroupUsers \cup {AnyUser}, NEW role \in Roles,
             Invite(c, u, g, i, to, role)
      PROVE  Begun(c)
  <2>1. /\ doc.status = "live" /\ invitation[i].role = NoRole /\ UNCHANGED <<group, spent>>
        /\ invitation' = [invitation EXCEPT ![i] =
                             [user |-> to, role |-> role, createdBy |-> u, expired |-> FALSE]]
    BY <1>2 DEF Invite
  <2>2. PICK replaces \in BOOLEAN, invites \in SUBSET Invitations :
           /\ Prepare(c, u, g, doc, {}, replaces, invites, NoInvitation)
           /\ invites \subseteq doc.invitations \cup {i}
    <3>1. Pending(doc) \subseteq doc.invitations /\ doc.invitations \subseteq Invitations
      BY <1>1 DEF Pending, Group
    <3>2. CASE Prepare(c, u, g, doc, {}, FALSE, {i}, NoInvitation)
      BY <3>2
    <3>3. CASE Prepare(c, u, g, doc, {}, TRUE, Pending(doc) \cup {i}, NoInvitation)
      <4>1. Pending(doc) \cup {i} \in SUBSET Invitations /\ Pending(doc) \cup {i} \subseteq doc.invitations \cup {i}
        BY <3>1
      <4>. QED BY <3>3, <4>1
    <3>. QED BY <1>2, <3>2, <3>3 DEF Invite
  <2>3. /\ requests' \in [GroupCallers -> GroupRequest]
        /\ \A d \in GroupCallers : d # c => requests'[d] = requests[d]
        /\ requests'[c] = [at |-> "save", actor |-> u, group |-> g, doc |-> doc, changed |-> {},
                           replaces |-> replaces, invites |-> invites, needs |-> NoInvitation]
    <3>1. [at |-> "save", actor |-> u, group |-> g, doc |-> doc, changed |-> {},
           replaces |-> replaces, invites |-> invites, needs |-> NoInvitation] \in GroupRequest
      BY <1>1 DEF GroupRequest
    <3>. QED BY <2>2, <3>1, WritingTyped DEF Prepare, GroupsIInv
  <2>4. HasOwner(doc)
    BY <2>1 DEF GroupsIInv, AlwaysOwned
  <2>5. /\ invitation' \in [Invitations -> Invitation]
        /\ \A j \in Invitations : j # i => invitation'[j] = invitation[j]
        /\ invitation'[i].role # NoRole /\ invitation'[i].createdBy \in GroupUsers
    <3>1. [user |-> to, role |-> role, createdBy |-> u, expired |-> FALSE] \in Invitation
      BY DEF Invitation
    <3>2. role # NoRole
      BY DEF Roles, NoRole
    <3>. QED BY <2>1, <3>1, <3>2 DEF GroupsIInv, GroupsTypeOK
  <2>. QED BY <2>1, <2>2, <2>3, <2>4, <2>5 DEF Begun
<1>3. ASSUME RevokeInvitations(c, u, g)
      PROVE  Begun(c)
  <2>1. doc.status = "live" /\ UNCHANGED <<group, invitation, spent>>
    BY <1>3 DEF RevokeInvitations
  <2>2. /\ requests' \in [GroupCallers -> GroupRequest]
        /\ \A d \in GroupCallers : d # c => requests'[d] = requests[d]
        /\ requests'[c] = [at |-> "save", actor |-> u, group |-> g, doc |-> doc, changed |-> {},
                           replaces |-> TRUE, invites |-> {}, needs |-> NoInvitation]
    <3>1. [at |-> "save", actor |-> u, group |-> g, doc |-> doc, changed |-> {},
           replaces |-> TRUE, invites |-> {}, needs |-> NoInvitation] \in GroupRequest
      BY <1>1 DEF GroupRequest
    <3>. QED BY <1>3, <3>1, WritingTyped DEF RevokeInvitations, Prepare, GroupsIInv
  <2>3. HasOwner(doc)
    BY <2>1 DEF GroupsIInv, AlwaysOwned
  <2>. QED BY <2>1, <2>2, <2>3 DEF Begun, GroupsIInv, GroupsTypeOK
<1>. QED BY <1>2, <1>3

\* Whoever joins owns the group only if an owner invited.
LEMMA AcceptBegins ==
    ASSUME GroupsIInv, NEW c \in GroupCallers, NEW u \in GroupUsers, NEW g \in GroupIds,
           NEW i \in Invitations, Accept(c, u, g, i)
    PROVE  Begun(c)
<1>. DEFINE doc == group[g]
            role == invitation[i].role
            next == WithRole(doc, u, role)
<1>1. /\ doc.status = "live" /\ i \in doc.invitations /\ UNCHANGED <<group, invitation, spent>>
      /\ CanInvite(doc, invitation[i].createdBy, role) /\ doc.members[u] = NoRole
  BY DEF Accept, Pending
<1>2. doc \in Group /\ role \in Roles \cup {NoRole} /\ doc.invitations \in SUBSET Invitations
  BY DEF GroupsIInv, GroupsTypeOK, Invitation, Group
<1>3. /\ next \in Group /\ next.status = doc.status /\ next.version = doc.version
      /\ \A v \in GroupUsers : next.members[v] = IF u = v THEN role ELSE doc.members[v]
  BY <1>2, RoleTyped
<1>4. HasOwner(next)
  <2>1. PICK o \in GroupUsers : doc.members[o] = "owner"
    BY <1>1 DEF GroupsIInv, AlwaysOwned, HasOwner
  <2>2. o # u
    BY <1>1, <2>1 DEF NoRole
  <2>. QED BY <1>3, <2>1, <2>2 DEF HasOwner
<1>5. role = "owner" => doc.members[invitation[i].createdBy] = "owner"
  BY <1>1 DEF CanInvite, CanAssignRole
<1>6. Prepare(c, u, g, next, {u}, TRUE, doc.invitations \ {i}, i)
  BY DEF Accept
<1>7. /\ requests' \in [GroupCallers -> GroupRequest]
      /\ \A d \in GroupCallers : d # c => requests'[d] = requests[d]
      /\ requests'[c] = [at |-> "save", actor |-> u, group |-> g, doc |-> next, changed |-> {u},
                         replaces |-> TRUE, invites |-> doc.invitations \ {i}, needs |-> i]
  <2>1. {u} \in SUBSET GroupUsers /\ doc.invitations \ {i} \in SUBSET Invitations
    BY <1>2
  <2>. HIDE DEF next
  <2>2. [at |-> "save", actor |-> u, group |-> g, doc |-> next, changed |-> {u},
         replaces |-> TRUE, invites |-> doc.invitations \ {i}, needs |-> i] \in GroupRequest
    BY <1>3, <2>1 DEF GroupRequest
  <2>. QED BY <1>6, <2>2, WritingTyped DEF Prepare, GroupsIInv
<1>8. i # NoInvitation
  BY NothingTyped
<1>. HIDE DEF next
<1>9. \A v \in GroupUsers \ {u} : next.members[v] = doc.members[v]
  BY <1>3
<1>10. next.members[u] = role
  BY <1>3
<1>. QED BY <1>1, <1>3, <1>4, <1>5, <1>7, <1>8, <1>9, <1>10 DEF Begun, GroupsIInv, GroupsTypeOK

\* A role is given by somebody who may, and taken only while an owner remains.
LEMMA MembersBegin ==
    ASSUME GroupsIInv, NEW c \in GroupCallers, NEW u \in GroupUsers, NEW g \in GroupIds, NEW v \in GroupUsers
    PROVE  /\ \A role \in Roles : UpdateMemberRole(c, u, g, v, role) => Begun(c)
           /\ RemoveMember(c, u, g, v) => Begun(c)
<1>. DEFINE doc == group[g]
<1>1. doc \in Group /\ NoInvitation \in Invitations \cup {NoInvitation} /\ {} \in SUBSET Invitations
  BY DEF GroupsIInv, GroupsTypeOK
<1>2. ASSUME NEW role \in Roles, UpdateMemberRole(c, u, g, v, role)
      PROVE  Begun(c)
  <2>. DEFINE next == WithRole(doc, v, role)
  <2>1. /\ doc.status = "live" /\ UNCHANGED <<group, invitation, spent>>
        /\ CanAssignRole(doc.members[u], role, doc.members[v]) /\ HasOwner(next)
        /\ Prepare(c, u, g, next, {v}, FALSE, {}, NoInvitation)
    BY <1>2 DEF UpdateMemberRole
  <2>5. role \in Roles \cup {NoRole}
    OBVIOUS
  <2>2. /\ next \in Group /\ next.status = doc.status /\ next.version = doc.version
        /\ \A w \in GroupUsers : next.members[w] = IF v = w THEN role ELSE doc.members[w]
    BY <1>1, <2>5, RoleTyped
  <2>. HIDE DEF next
  <2>3. /\ requests' \in [GroupCallers -> GroupRequest]
        /\ \A d \in GroupCallers : d # c => requests'[d] = requests[d]
        /\ requests'[c] = [at |-> "save", actor |-> u, group |-> g, doc |-> next, changed |-> {v},
                           replaces |-> FALSE, invites |-> {}, needs |-> NoInvitation]
    <3>1. [at |-> "save", actor |-> u, group |-> g, doc |-> next, changed |-> {v},
           replaces |-> FALSE, invites |-> {}, needs |-> NoInvitation] \in GroupRequest
      BY <1>1, <2>2 DEF GroupRequest
    <3>. QED BY <2>1, <3>1, WritingTyped DEF Prepare, GroupsIInv
  <2>4. role = "owner" => doc.members[u] = "owner"
    BY <2>1 DEF CanAssignRole
  <2>. QED BY <2>1, <2>2, <2>3, <2>4 DEF Begun, GroupsIInv, GroupsTypeOK
<1>3. ASSUME RemoveMember(c, u, g, v)
      PROVE  Begun(c)
  <2>. DEFINE next == WithRole(doc, v, NoRole)
  <2>1. /\ doc.status = "live" /\ UNCHANGED <<group, invitation, spent>> /\ HasOwner(next)
        /\ Prepare(c, u, g, next, GroupUsers, FALSE, {}, NoInvitation)
    BY <1>3 DEF RemoveMember
  <2>5. NoRole \in Roles \cup {NoRole}
    OBVIOUS
  <2>2. /\ next \in Group /\ next.status = doc.status /\ next.version = doc.version
        /\ \A w \in GroupUsers : next.members[w] = IF v = w THEN NoRole ELSE doc.members[w]
    BY <1>1, <2>5, RoleTyped
  <2>. HIDE DEF next
  <2>3. /\ requests' \in [GroupCallers -> GroupRequest]
        /\ \A d \in GroupCallers : d # c => requests'[d] = requests[d]
        /\ requests'[c] = [at |-> "save", actor |-> u, group |-> g, doc |-> next, changed |-> GroupUsers,
                           replaces |-> FALSE, invites |-> {}, needs |-> NoInvitation]
    <3>1. [at |-> "save", actor |-> u, group |-> g, doc |-> next, changed |-> GroupUsers,
           replaces |-> FALSE, invites |-> {}, needs |-> NoInvitation] \in GroupRequest
      BY <1>1, <2>2 DEF GroupRequest
    <3>. QED BY <2>1, <3>1, WritingTyped DEF Prepare, GroupsIInv
  <2>4. \A w \in GroupUsers : next.members[w] = "owner" => doc.members[w] = "owner"
    BY <2>2 DEF NoRole
  <2>. QED BY <2>1, <2>2, <2>3, <2>4 DEF Begun, GroupsIInv, GroupsTypeOK
<1>. QED BY <1>2, <1>3

\* The trash changes the status and nothing else.
LEMMA TrashBegins ==
    ASSUME GroupsIInv, NEW c \in GroupCallers, NEW u \in GroupUsers, NEW g \in GroupIds,
           DeleteOrRestoreGroup(c, u, g)
    PROVE  Begun(c)
<1>. DEFINE doc == group[g]
<1>1. doc \in Group /\ NoInvitation \in Invitations \cup {NoInvitation} /\ {} \in SUBSET GroupUsers
      /\ {} \in SUBSET Invitations
  BY DEF GroupsIInv, GroupsTypeOK
<1>2. doc.status \in {"live", "trashed"} /\ UNCHANGED <<group, invitation, spent>>
  BY DEF DeleteOrRestoreGroup
<1>. DEFINE s == IF doc.status = "live" THEN "trashed" ELSE "live"
            next == WithStatus(doc, s)
<1>3. Prepare(c, u, g, next, {}, FALSE, {}, NoInvitation) /\ s \in {"live", "trashed"}
  BY DEF DeleteOrRestoreGroup
<1>4. next \in Group /\ next.status = s /\ next.version = doc.version /\ next.members = doc.members
  BY <1>1, <1>3, StatusTyped
<1>5. HasOwner(doc)
  BY <1>2 DEF GroupsIInv, AlwaysOwned
<1>. HIDE DEF next
<1>6. /\ requests' \in [GroupCallers -> GroupRequest]
      /\ \A d \in GroupCallers : d # c => requests'[d] = requests[d]
      /\ requests'[c] = [at |-> "save", actor |-> u, group |-> g, doc |-> next, changed |-> {},
                         replaces |-> FALSE, invites |-> {}, needs |-> NoInvitation]
  <2>1. [at |-> "save", actor |-> u, group |-> g, doc |-> next, changed |-> {},
         replaces |-> FALSE, invites |-> {}, needs |-> NoInvitation] \in GroupRequest
    BY <1>1, <1>4 DEF GroupRequest
  <2>. QED BY <1>3, <2>1, WritingTyped DEF Prepare, GroupsIInv
<1>. QED BY <1>2, <1>3, <1>4, <1>5, <1>6 DEF Begun, HasOwner, GroupsIInv, GroupsTypeOK

\* The name and the public page change nothing of what is modelled.
LEMMA UpdateBegins ==
    ASSUME GroupsIInv, NEW c \in GroupCallers, NEW u \in GroupUsers, NEW g \in GroupIds, UpdateGroup(c, u, g)
    PROVE  Begun(c)
<1>. DEFINE doc == group[g]
<1>1. doc \in Group /\ NoInvitation \in Invitations \cup {NoInvitation} /\ {} \in SUBSET GroupUsers
      /\ {} \in SUBSET Invitations
  BY DEF GroupsIInv, GroupsTypeOK
<1>2. /\ doc.status = "live" /\ UNCHANGED <<group, invitation, spent>>
      /\ Prepare(c, u, g, doc, {}, FALSE, {}, NoInvitation)
  BY DEF UpdateGroup
<1>3. HasOwner(doc)
  BY <1>2 DEF GroupsIInv, AlwaysOwned
<1>4. /\ requests' \in [GroupCallers -> GroupRequest]
      /\ \A d \in GroupCallers : d # c => requests'[d] = requests[d]
      /\ requests'[c] = [at |-> "save", actor |-> u, group |-> g, doc |-> doc, changed |-> {},
                         replaces |-> FALSE, invites |-> {}, needs |-> NoInvitation]
  <2>1. [at |-> "save", actor |-> u, group |-> g, doc |-> doc, changed |-> {},
         replaces |-> FALSE, invites |-> {}, needs |-> NoInvitation] \in GroupRequest
    BY <1>1 DEF GroupRequest
  <2>. QED BY <1>2, <2>1, WritingTyped DEF Prepare, GroupsIInv
<1>. QED BY <1>2, <1>3, <1>4 DEF Begun, HasOwner, GroupsIInv, GroupsTypeOK

-----------------------------------------------------------------------------
(* Groups: the steps. *)

\* A request that begins is sound, and gives the invitation it makes to its group only.
LEMMA BeginStep ==
    ASSUME GroupsIInv, NEW c \in GroupCallers, Begun(c)
    PROVE  GroupsIInv'
<1>. DEFINE r == requests'[c]
<1>1. /\ UNCHANGED <<group, spent>>
      /\ \A d \in GroupCallers : d # c => requests'[d] = requests[d]
      /\ \A i \in Invitations :
            \/ invitation'[i] = invitation[i]
            \/ /\ invitation[i].role = NoRole
               /\ invitation'[i].role # NoRole /\ invitation'[i].createdBy \in GroupUsers
      /\ \A i \in r.invites :
            i \in group[r.group].invitations \/ (invitation[i].role = NoRole /\ invitation'[i].role # NoRole)
      /\ r.needs # NoInvitation => r.needs \in group[r.group].invitations
  BY DEF Begun
<1>2. r \in GroupRequest /\ r.group \in GroupIds /\ r.invites \subseteq Invitations
      /\ r.needs \in Invitations \cup {NoInvitation}
  BY DEF Begun, GroupRequest
<1>3. \A g \in GroupIds, i \in Invitations : i \in group[g].invitations =>
         invitation[i].role # NoRole /\ invitation'[i] = invitation[i] /\ i \notin spent
  BY <1>1 DEF GroupsIInv, InvitationsKnown, SpentStaysSpent
<1>4. GroupsTypeOK'
  BY DEF Begun, GroupsIInv, GroupsTypeOK
<1>5. AlwaysOwned' /\ SpentStaysSpent'
  BY <1>1 DEF GroupsIInv, AlwaysOwned, SpentStaysSpent, HasOwner
<1>6. RequestsSound'
  <2>1. ASSUME NEW d \in GroupCallers, d # c, requests'[d].at = "save"
        PROVE  Sound(requests[d])'
    <3>1. requests'[d] = requests[d] /\ Sound(requests[d]) /\ requests[d] \in GroupRequest
      BY <1>1, <2>1 DEF GroupsIInv, GroupsTypeOK, RequestsSound
    <3>2. requests[d].needs # NoInvitation => invitation'[requests[d].needs] = invitation[requests[d].needs]
      BY <1>1, <3>1 DEF GroupRequest, GroupsIInv, InvitationsKnown
    <3>. QED BY ZenonT(60), <1>1, <3>1, <3>2 DEF Sound, Abreast, Grantor, HasOwner
  <2>2. Sound(requests[c])'
    <3>1. /\ group[r.group].status \in {"live", "trashed"} /\ r.doc.status \in {"live", "trashed"}
          /\ HasOwner(r.doc) /\ r.doc.version = group[r.group].version
          /\ \A u \in GroupUsers \ r.changed : r.doc.members[u] = group[r.group].members[u]
          /\ \A u \in r.changed : r.doc.members[u] = "owner" =>
                \/ group[r.group].members[u] = "owner"
                \/ group[r.group].members[IF r.needs = NoInvitation THEN r.actor
                                          ELSE invitation[r.needs].createdBy] = "owner"
      BY DEF Begun
    <3>2. r.invites \cap spent = {}
      BY <1>1, <1>2, <1>3 DEF GroupsIInv, InvitationsKnown
    <3>3. r.needs # NoInvitation => invitation'[r.needs] = invitation[r.needs]
      BY <1>1, <1>2, <1>3
    <3>4. r.doc \in Group /\ r.doc.version <= group[r.group].version
      BY <1>2, <3>1, GroupsAssumption DEF GroupRequest, Group
    <3>. QED BY <1>1, <3>1, <3>2, <3>3, <3>4 DEF Sound, Abreast, Grantor, HasOwner
  <2>. QED BY <2>1, <2>2 DEF RequestsSound
<1>7. InvitationsKnown'
  <2>1. ASSUME NEW i \in Invitations, invitation'[i].role = NoRole
        PROVE  /\ i \notin spent'
               /\ \A g \in GroupIds : i \notin group'[g].invitations
               /\ \A d \in GroupCallers : i \notin requests'[d].invites /\ i # requests'[d].needs
    <3>1. invitation'[i] = invitation[i] /\ invitation[i].role = NoRole
      BY <1>1, <2>1
    <3>2. /\ i \notin spent /\ \A g \in GroupIds : i \notin group[g].invitations
          /\ \A d \in GroupCallers : i \notin requests[d].invites /\ i # requests[d].needs
      BY <3>1 DEF GroupsIInv, InvitationsKnown
    <3>3. i \notin r.invites /\ i # r.needs
      BY <1>1, <1>2, <2>1, <3>2, NothingTyped
    <3>. QED BY <1>1, <3>2, <3>3
  <2>2. \A i \in Invitations : invitation'[i].role # NoRole => invitation'[i].createdBy \in GroupUsers
    BY <1>1 DEF GroupsIInv, InvitationsKnown
  <2>. QED BY <2>1, <2>2 DEF InvitationsKnown
<1>8. GroupsApart'
  <2>1. \A g \in GroupIds, i \in Invitations : Claims(g, i)' =>
           Claims(g, i) \/ (g = r.group /\ i \in r.invites)
    BY <1>1 DEF Claims
  <2>2. \A i \in r.invites : Claims(r.group, i) \/ \A h \in GroupIds : ~Claims(h, i)
    BY <1>1, <1>2 DEF Claims, GroupsIInv, InvitationsKnown
  <2>. QED BY <1>2, <2>1, <2>2 DEF GroupsApart, GroupsIInv
<1>. QED BY <1>4, <1>5, <1>6, <1>7, <1>8 DEF GroupsIInv

\* Steps that leave the groups alone: a request ends, or goes on without an intent to save.
LEMMA IdleStep ==
    ASSUME GroupsIInv, UNCHANGED <<group, invitation, spent>>,
           requests' \in [GroupCallers -> GroupRequest],
           \A d \in GroupCallers :
              \/ requests'[d] = requests[d]
              \/ /\ requests'[d].at # "save"
                 /\ requests'[d].invites = {} /\ requests'[d].needs = NoInvitation
    PROVE  GroupsIInv'
<1>1. GroupsTypeOK' /\ AlwaysOwned' /\ SpentStaysSpent'
  BY DEF GroupsIInv, GroupsTypeOK, AlwaysOwned, SpentStaysSpent, HasOwner
<1>2. RequestsSound'
  <2>1. ASSUME NEW d \in GroupCallers, requests'[d].at = "save"
        PROVE  Sound(requests[d])'
    <3>1. requests'[d] = requests[d] /\ Sound(requests[d])
      BY <2>1 DEF GroupsIInv, RequestsSound
    <3>. QED BY <3>1 DEF Sound, Abreast, Grantor, HasOwner
  <2>. QED BY <2>1 DEF RequestsSound
<1>3. InvitationsKnown'
  BY NothingTyped DEF GroupsIInv, InvitationsKnown
<1>4. GroupsApart'
  <2>1. \A g \in GroupIds, i \in Invitations : Claims(g, i)' => Claims(g, i)
    BY DEF Claims
  <2>. QED BY <2>1 DEF GroupsApart, GroupsIInv
<1>. QED BY <1>1, <1>2, <1>3, <1>4 DEF GroupsIInv

\* What a save makes of the document.
LEMMA MergeTyped ==
    ASSUME NEW now \in Group, NEW w \in GroupRequest, now.version < MaxVersion
    PROVE  /\ Merged(now, w) \in Group
           /\ Merged(now, w).status = w.doc.status
           /\ Merged(now, w).version = now.version + 1
           /\ Merged(now, w).invitations = Left(w, now.invitations)
           /\ \A u \in GroupUsers : Merged(now, w).members[u] =
                                       IF u \in w.changed THEN w.doc.members[u] ELSE now.members[u]
<1>1. /\ w.doc \in Group /\ w.changed \subseteq GroupUsers /\ w.invites \subseteq Invitations
      /\ now.invitations \subseteq Invitations
  BY DEF GroupRequest, Group
<1>2. Left(w, now.invitations) \subseteq Invitations
  BY <1>1 DEF Left
<1>3. now.version + 1 \in 0..MaxVersion
  BY GroupsAssumption DEF Group
<1>4. [u \in GroupUsers |-> IF u \in w.changed THEN w.doc.members[u] ELSE now.members[u]]
         \in [GroupUsers -> Roles \cup {NoRole}]
  BY <1>1 DEF Group
<1>. QED BY <1>1, <1>2, <1>3, <1>4 DEF Merged, Group

\* A save that fits merges into the document it read, and outdates what the others read.
LEMMA SaveStep ==
    ASSUME GroupsIInv, NEW c \in GroupCallers, requests[c].at = "save", Abreast(requests[c]),
           requests[c].doc.version < MaxVersion,
           group' = [group EXCEPT ![requests[c].group] = Merged(group[requests[c].group], requests[c])],
           spent' = spent \cup (group[requests[c].group].invitations
                                   \ Left(requests[c], group[requests[c].group].invitations)),
           requests' = [requests EXCEPT ![c] = NoRequest], UNCHANGED invitation
    PROVE  GroupsIInv'
<1>. DEFINE w == requests[c]
            now == group[w.group]
            next == Merged(now, w)
            gone == now.invitations \ Left(w, now.invitations)
<1>1. w \in GroupRequest /\ w.group \in GroupIds /\ now \in Group /\ w.changed \subseteq GroupUsers
      /\ w.invites \subseteq Invitations /\ w.doc \in Group
  BY DEF GroupsIInv, GroupsTypeOK, GroupRequest
<1>2. now.version = w.doc.version /\ now.status \notin {"none", "gone"} /\ now.version < MaxVersion
  BY DEF Abreast
<1>3. /\ next \in Group /\ next.status = w.doc.status /\ next.version = now.version + 1
      /\ next.invitations = Left(w, now.invitations)
      /\ \A u \in GroupUsers : next.members[u] =
                                  IF u \in w.changed THEN w.doc.members[u] ELSE now.members[u]
  BY <1>1, <1>2, MergeTyped
<1>4. /\ w.doc.status \in {"live", "trashed"} /\ HasOwner(w.doc)
      /\ \A u \in GroupUsers \ w.changed : w.doc.members[u] = now.members[u]
      /\ w.invites \cap spent = {}
  BY DEF GroupsIInv, RequestsSound, Sound
<1>5. \A g \in GroupIds : group'[g] = IF g = w.group THEN next ELSE group[g]
  BY DEF GroupsIInv, GroupsTypeOK
<1>6. /\ requests' \in [GroupCallers -> GroupRequest] /\ requests'[c] = NoRequest
      /\ \A d \in GroupCallers : d # c => requests'[d] = requests[d]
  BY WritingTyped, NothingTyped DEF GroupsIInv
<1>7. spent' = spent \cup gone /\ gone \subseteq now.invitations /\ now.invitations \subseteq Invitations
  BY <1>1 DEF Group
<1>8. next.invitations \subseteq now.invitations \cup w.invites /\ next.invitations \cap gone = {}
  BY <1>3 DEF Left
<1>. HIDE DEF next, gone
<1>9. GroupsTypeOK'
  <2>1. group' \in [GroupIds -> Group]
    BY <1>3 DEF GroupsIInv, GroupsTypeOK, next
  <2>. QED BY <1>6, <1>7, <2>1 DEF GroupsIInv, GroupsTypeOK
<1>10. AlwaysOwned'
  <2>1. PICK o \in GroupUsers : w.doc.members[o] = "owner"
    BY <1>4 DEF HasOwner
  <2>2. next.members[o] = "owner"
    BY <1>3, <1>4, <2>1
  <2>. QED BY <1>5, <2>2 DEF AlwaysOwned, HasOwner, GroupsIInv
<1>11. \A g \in GroupIds, i \in Invitations : Claims(g, i) /\ i \in now.invitations => g = w.group
  BY <1>1 DEF GroupsIInv, GroupsApart, Claims
<1>12. SpentStaysSpent'
  <2>1. next.invitations \cap spent = {}
    BY <1>1, <1>4, <1>8 DEF GroupsIInv, SpentStaysSpent
  <2>2. \A g \in GroupIds : g # w.group => group[g].invitations \cap gone = {}
    BY <1>7, <1>11 DEF Claims
  <2>. QED BY <1>5, <1>7, <1>8, <2>1, <2>2 DEF SpentStaysSpent, GroupsIInv
<1>13. RequestsSound'
  <2>1. ASSUME NEW d \in GroupCallers, requests'[d].at = "save"
        PROVE  Sound(requests[d])'
    <3>1. d # c /\ requests'[d] = requests[d] /\ Sound(requests[d]) /\ requests[d] \in GroupRequest
      BY <1>6, <2>1, NothingTyped DEF GroupsIInv, GroupsTypeOK, RequestsSound
    <3>2. requests[d].group \in GroupIds /\ requests[d].doc \in Group /\ requests[d].invites \subseteq Invitations
      BY <3>1 DEF GroupRequest
    <3>3. CASE requests[d].group = w.group
      <4>1. group'[requests[d].group] = next
        BY <1>5, <3>2, <3>3
      <4>2. next.version > requests[d].doc.version
        BY SMTT(30), <1>1, <1>2, <1>3, <3>1, <3>2, <3>3 DEF Sound, Group
      <4>3. next.status \notin {"none", "gone"} /\ requests[d].doc.version <= next.version
        BY <1>3, <1>4, <3>2, <4>2 DEF Group
      <4>4. next.version # requests[d].doc.version
        BY <1>3, <3>2, <4>2 DEF Group
      <4>. QED BY <3>1, <4>1, <4>3, <4>4 DEF Sound, Abreast, HasOwner
    <3>4. CASE requests[d].group # w.group
      <4>1. group'[requests[d].group] = group[requests[d].group]
        BY <1>5, <3>2, <3>4
      <4>2. requests[d].invites \cap gone = {}
        BY <1>6, <1>7, <1>11, <2>1, <3>1, <3>2, <3>4 DEF Claims
      <4>3. Grantor(requests[d])' = Grantor(requests[d])
        BY <3>1 DEF Grantor
      <4>. QED BY ZenonT(60), <1>7, <3>1, <4>1, <4>2, <4>3 DEF Sound, Abreast, HasOwner
    <3>. QED BY <3>3, <3>4
  <2>. QED BY <2>1 DEF RequestsSound
<1>14. InvitationsKnown'
  <2>1. ASSUME NEW i \in Invitations, invitation[i].role = NoRole
        PROVE  /\ i \notin spent'
               /\ \A g \in GroupIds : i \notin group'[g].invitations
               /\ \A d \in GroupCallers : i \notin requests'[d].invites /\ i # requests'[d].needs
    <3>1. /\ i \notin spent /\ \A g \in GroupIds : i \notin group[g].invitations
          /\ \A d \in GroupCallers : i \notin requests[d].invites /\ i # requests[d].needs
      BY <2>1 DEF GroupsIInv, InvitationsKnown
    <3>2. i \notin next.invitations /\ i \notin gone
      BY <1>1, <1>7, <1>8, <3>1
    <3>. QED BY <1>5, <1>6, <1>7, <3>1, <3>2, NothingTyped
  <2>. QED BY <2>1 DEF InvitationsKnown, GroupsIInv
<1>15. GroupsApart'
  <2>1. \A g \in GroupIds, i \in Invitations : Claims(g, i)' => Claims(g, i)
    BY <1>1, <1>5, <1>6, <1>8, NothingTyped DEF Claims
  <2>. QED BY <2>1 DEF GroupsApart, GroupsIInv
<1>. QED BY <1>9, <1>10, <1>12, <1>13, <1>14, <1>15 DEF GroupsIInv

\* Steps that change one document without a request that saves it: nothing joins it, nothing is added.
LEMMA DocumentStep ==
    ASSUME GroupsIInv, NEW g \in GroupIds, NEW next \in Group, UNCHANGED <<invitation, requests, spent>>,
           group' = [group EXCEPT ![g] = next],
           next.status \in {"live", "trashed"} => HasOwner(next),
           next.invitations \subseteq group[g].invitations,
           \/ next.status = "gone" /\ group[g].status # "none"
           \/ next.status # "none" /\ group[g].status = "none"
           \/ /\ next.status = group[g].status /\ next.version = group[g].version
              /\ next.members = group[g].members
    PROVE  GroupsIInv'
<1>1. \A h \in GroupIds : group'[h] = IF h = g THEN next ELSE group[h]
  BY DEF GroupsIInv, GroupsTypeOK
<1>2. GroupsTypeOK'
  BY DEF GroupsIInv, GroupsTypeOK
<1>3. AlwaysOwned' /\ SpentStaysSpent'
  BY <1>1 DEF GroupsIInv, AlwaysOwned, SpentStaysSpent, HasOwner
<1>4. RequestsSound'
  <2>1. ASSUME NEW d \in GroupCallers, requests'[d].at = "save"
        PROVE  Sound(requests[d])'
    <3>1. Sound(requests[d]) /\ requests[d].group \in GroupIds /\ requests'[d] = requests[d]
      BY <2>1 DEF GroupsIInv, RequestsSound, GroupsTypeOK, GroupRequest
    <3>2. Grantor(requests[d])' = Grantor(requests[d])
      BY DEF Grantor
    <3>3. CASE requests[d].group # g
      <4>1. group'[requests[d].group] = group[requests[d].group]
        BY <1>1, <3>1, <3>3
      <4>. QED BY <3>1, <3>2, <4>1 DEF Sound, Abreast, HasOwner
    <3>4. CASE requests[d].group = g
      <4>1. group'[requests[d].group] = next /\ group[g].status # "none"
        BY <1>1, <3>1, <3>4 DEF Sound
      <4>2. CASE next.status = "gone"
        BY <3>1, <4>1, <4>2 DEF Sound, Abreast, HasOwner
      <4>3. CASE /\ next.status = group[g].status /\ next.version = group[g].version
                 /\ next.members = group[g].members
        BY <3>1, <3>2, <3>4, <4>1, <4>3 DEF Sound, Abreast, HasOwner
      <4>. QED BY <4>1, <4>2, <4>3
    <3>. QED BY <3>3, <3>4
  <2>. QED BY <2>1 DEF RequestsSound
<1>5. InvitationsKnown'
  BY <1>1 DEF GroupsIInv, InvitationsKnown
<1>6. GroupsApart'
  <2>1. \A h \in GroupIds, i \in Invitations : Claims(h, i)' => Claims(h, i)
    BY <1>1 DEF Claims
  <2>. QED BY <2>1 DEF GroupsApart, GroupsIInv
<1>. QED BY <1>2, <1>3, <1>4, <1>5, <1>6 DEF GroupsIInv

\* Time passes.
LEMMA ExpireStep ==
    ASSUME GroupsIInv, NEW i \in Invitations, ExpireInvitation(i)
    PROVE  GroupsIInv'
<1>1. invitation[i] \in Invitation /\ UNCHANGED <<group, requests, spent>>
  BY DEF GroupsIInv, GroupsTypeOK, ExpireInvitation
<1>2. [invitation[i] EXCEPT !.expired = TRUE] \in Invitation
  BY <1>1 DEF Invitation
<1>3. invitation' = [invitation EXCEPT ![i] = [@ EXCEPT !.expired = TRUE]]
  BY DEF ExpireInvitation
<1>4. \A j \in Invitations : /\ invitation'[j].role = invitation[j].role
                             /\ invitation'[j].createdBy = invitation[j].createdBy
  BY <1>1, <1>3 DEF GroupsIInv, GroupsTypeOK, Invitation
<1>5. GroupsTypeOK'
  BY <1>1, <1>2, <1>3 DEF GroupsIInv, GroupsTypeOK
<1>6. AlwaysOwned' /\ SpentStaysSpent' /\ InvitationsKnown'
  BY <1>1, <1>4 DEF GroupsIInv, AlwaysOwned, SpentStaysSpent, HasOwner, InvitationsKnown
<1>7. RequestsSound'
  <2>1. ASSUME NEW d \in GroupCallers, requests'[d].at = "save"
        PROVE  Sound(requests[d])'
    <3>1. Sound(requests[d]) /\ requests[d].needs \in Invitations \cup {NoInvitation}
      BY <1>1, <2>1 DEF GroupsIInv, RequestsSound, GroupsTypeOK, GroupRequest
    <3>2. Grantor(requests[d])' = Grantor(requests[d])
      BY <1>1, <1>4, <3>1 DEF Grantor
    <3>. QED BY <1>1, <3>1, <3>2 DEF Sound, Abreast, HasOwner
  <2>. QED BY <2>1 DEF RequestsSound
<1>8. GroupsApart'
  BY <1>1 DEF GroupsIInv, GroupsApart, Claims
<1>. QED BY <1>5, <1>6, <1>7, <1>8 DEF GroupsIInv

-----------------------------------------------------------------------------
(* Groups: the invariant and what follows from it. *)

\* There are no groups at first.
LEMMA GroupsStart == GroupsInit => GroupsIInv
<1>. SUFFICES ASSUME GroupsInit
              PROVE  GroupsIInv
  OBVIOUS
<1>1. GroupsTypeOK
  BY NothingTyped DEF GroupsInit, GroupsTypeOK
<1>2. AlwaysOwned /\ SpentStaysSpent
  BY DEF GroupsInit, AlwaysOwned, SpentStaysSpent, NoGroup
<1>3. RequestsSound /\ GroupsApart
  BY NothingTyped DEF GroupsInit, RequestsSound, GroupsApart, Claims, NoGroup
<1>4. InvitationsKnown
  BY NothingTyped DEF GroupsInit, InvitationsKnown, NoGroup, NoInvite
<1>. QED BY <1>1, <1>2, <1>3, <1>4 DEF GroupsIInv

\* A save that fits, as the action has it, and one that does not.
LEMMA SaveCases ==
    ASSUME GroupsIInv, NEW c \in GroupCallers, SaveGroup(c)
    PROVE  LET w == requests[c]
               now == group[w.group]
           IN  /\ w.at = "save" /\ requests' = [requests EXCEPT ![c] = NoRequest] /\ UNCHANGED invitation
               /\ \/ UNCHANGED <<group, spent>>
                  \/ /\ Abreast(w) /\ w.doc.version < MaxVersion
                     /\ group' = [group EXCEPT ![w.group] = Merged(now, w)]
                     /\ spent' = spent \cup (now.invitations \ Left(w, now.invitations))
BY DEF SaveGroup, Abreast

\* Every step keeps the invariant.
LEMMA GroupsStep == GroupsIInv /\ [GroupsNext]_groupVars => GroupsIInv'
<1>. SUFFICES ASSUME GroupsIInv, [GroupsNext]_groupVars
              PROVE  GroupsIInv'
  OBVIOUS
<1>1. ASSUME NEW g \in GroupIds, NEW u \in GroupUsers, CreateGroup(g, u)
      PROVE  GroupsIInv'
  <2>. DEFINE new == WithStatus(NoGroup, "live")
              next == WithRole(new, u, "owner")
  <2>1. /\ next \in Group /\ next.status = "live" /\ next.invitations = {}
        /\ next.members[u] = "owner"
    <3>1. new \in Group /\ new.status = "live" /\ new.invitations = {}
      BY NothingTyped, StatusTyped DEF WithStatus, NoGroup
    <3>2. next.invitations = new.invitations
      BY <3>1 DEF WithRole, Group
    <3>3. "owner" \in Roles \cup {NoRole}
      BY DEF Roles
    <3>. HIDE DEF new
    <3>. QED BY <3>1, <3>2, <3>3, RoleTyped
  <2>2. HasOwner(next)
    BY <2>1 DEF HasOwner
  <2>3. /\ group' = [group EXCEPT ![g] = next] /\ group[g].status = "none"
        /\ UNCHANGED <<invitation, requests, spent>>
    BY <1>1 DEF CreateGroup
  <2>. HIDE DEF next
  <2>. QED BY <2>1, <2>2, <2>3, DocumentStep
<1>2. ASSUME NEW g \in GroupIds, NEW u \in GroupUsers, NEW i \in Invitations, DeclineAccountInvitation(u, g, i)
      PROVE  GroupsIInv'
  <2>. DEFINE next == [group[g] EXCEPT !.invitations = group[g].invitations \ {i}]
  <2>1. group[g] \in Group
    BY DEF GroupsIInv, GroupsTypeOK
  <2>2. /\ next \in Group /\ next.status = group[g].status /\ next.version = group[g].version
        /\ next.members = group[g].members /\ next.invitations = group[g].invitations \ {i}
    BY <2>1 DEF Group
  <2>3. /\ group' = [group EXCEPT ![g] = next] /\ UNCHANGED <<invitation, requests, spent>>
        /\ group[g].status \in {"live", "trashed"}
    BY <1>2 DEF DeclineAccountInvitation
  <2>4. HasOwner(group[g])
    BY <2>3 DEF GroupsIInv, AlwaysOwned
  <2>5. HasOwner(next)
    BY <2>2, <2>4 DEF HasOwner
  <2>. HIDE DEF next
  <2>. QED BY <2>2, <2>3, <2>5, DocumentStep
<1>3. ASSUME NEW c \in GroupCallers, PurgeGroup(c)
      PROVE  GroupsIInv'
  <2>. DEFINE g == requests[c].group
              next == [NoGroup EXCEPT !.status = "gone"]
  <2>1. next \in Group /\ next.status = "gone" /\ next.invitations = {} /\ g \in GroupIds
    BY GroupsAssumption DEF NoGroup, Group, GroupsIInv, GroupsTypeOK, GroupRequest
  <2>2. /\ requests' = [requests EXCEPT ![c] = NoRequest] /\ UNCHANGED <<invitation, spent>>
        /\ \/ UNCHANGED group
           \/ group[g].status = "trashed" /\ group' = [group EXCEPT ![g] = next]
    BY <1>3 DEF PurgeGroup
  <2>3. /\ requests' \in [GroupCallers -> GroupRequest] /\ requests'[c] = NoRequest
        /\ \A d \in GroupCallers : d # c => requests'[d] = requests[d]
    BY <2>2, WritingTyped, NothingTyped DEF GroupsIInv
  <2>. HIDE DEF g, next
  <2>4. CASE UNCHANGED group
    BY <2>2, <2>3, <2>4, IdleStep, NothingTyped
  <2>5. CASE group[g].status = "trashed" /\ group' = [group EXCEPT ![g] = next]
    <3>1. \A h \in GroupIds : group'[h] = IF h = g THEN next ELSE group[h]
      BY <2>5 DEF GroupsIInv, GroupsTypeOK
    <3>2. GroupsTypeOK'
      BY <2>1, <2>2, <2>3, <2>5 DEF GroupsIInv, GroupsTypeOK
    <3>3. AlwaysOwned' /\ SpentStaysSpent'
      BY <2>1, <2>2, <3>1 DEF GroupsIInv, AlwaysOwned, SpentStaysSpent, HasOwner
    <3>4. RequestsSound'
      <4>1. ASSUME NEW d \in GroupCallers, requests'[d].at = "save"
            PROVE  Sound(requests[d])'
        <5>1. /\ requests'[d] = requests[d] /\ Sound(requests[d]) /\ requests[d].group \in GroupIds
          BY <2>3, <4>1, NothingTyped DEF GroupsIInv, RequestsSound, GroupsTypeOK, GroupRequest
        <5>2. Grantor(requests[d])' = Grantor(requests[d])
          BY <2>2, <5>1 DEF Grantor
        <5>3. CASE requests[d].group = g
          BY <2>1, <3>1, <5>1, <5>3 DEF Sound, Abreast, HasOwner
        <5>4. CASE requests[d].group # g
          <6>1. group'[requests[d].group] = group[requests[d].group]
            BY <3>1, <5>1, <5>4
          <6>. QED BY <2>2, <5>1, <5>2, <6>1 DEF Sound, Abreast, HasOwner
        <5>. QED BY <5>3, <5>4
      <4>. QED BY <4>1 DEF RequestsSound
    <3>5. InvitationsKnown'
      BY <2>1, <2>2, <2>3, <3>1, NothingTyped DEF GroupsIInv, InvitationsKnown
    <3>6. GroupsApart'
      <4>1. \A h \in GroupIds, i \in Invitations : Claims(h, i)' => Claims(h, i)
        BY <2>1, <2>3, <3>1, NothingTyped DEF Claims
      <4>. QED BY <4>1 DEF GroupsApart, GroupsIInv
    <3>. QED BY <3>2, <3>3, <3>4, <3>5, <3>6 DEF GroupsIInv
  <2>. QED BY <2>2, <2>4, <2>5
<1>4. ASSUME NEW c \in GroupCallers, NEW g \in GroupIds, NEW u \in GroupUsers, BeginPurge(c, u, g)
      PROVE  GroupsIInv'
  <2>. DEFINE r == [NoRequest EXCEPT !.at = "purge", !.actor = u, !.group = g, !.doc = group[g]]
  <2>1. r \in GroupRequest /\ r.at = "purge" /\ r.invites = {} /\ r.needs = NoInvitation
    BY NothingTyped DEF GroupsIInv, GroupsTypeOK, GroupRequest
  <2>2. requests' = [requests EXCEPT ![c] = r] /\ UNCHANGED <<group, invitation, spent>>
    BY <1>4 DEF BeginPurge
  <2>. HIDE DEF r
  <2>. QED BY <2>1, <2>2, WritingTyped, IdleStep DEF GroupsIInv
<1>5. ASSUME NEW c \in GroupCallers, DropRequest(c)
      PROVE  GroupsIInv'
  <2>1. requests' = [requests EXCEPT ![c] = NoRequest] /\ UNCHANGED <<group, invitation, spent>>
    BY <1>5 DEF DropRequest
  <2>2. /\ requests' \in [GroupCallers -> GroupRequest]
        /\ \A d \in GroupCallers : requests'[d] = NoRequest \/ requests'[d] = requests[d]
    BY <2>1, WritingTyped, NothingTyped DEF GroupsIInv
  <2>. QED BY <2>1, <2>2, IdleStep, NothingTyped
<1>6. ASSUME NEW c \in GroupCallers, SaveGroup(c)
      PROVE  GroupsIInv'
  <2>1. CASE UNCHANGED <<group, spent>>
    <3>1. requests' = [requests EXCEPT ![c] = NoRequest] /\ UNCHANGED <<group, invitation, spent>>
      BY <1>6, <2>1, SaveCases
    <3>2. /\ requests' \in [GroupCallers -> GroupRequest]
          /\ \A d \in GroupCallers : requests'[d] = NoRequest \/ requests'[d] = requests[d]
      BY <3>1, WritingTyped, NothingTyped DEF GroupsIInv
    <3>. QED BY <3>1, <3>2, IdleStep, NothingTyped
  <2>2. CASE ~UNCHANGED <<group, spent>>
    BY <1>6, <2>2, SaveCases, SaveStep
  <2>. QED BY <2>1, <2>2
<1>7. ASSUME NEW c \in GroupCallers, NEW g \in GroupIds, NEW u \in GroupUsers,
             \/ RevokeInvitations(c, u, g) \/ UpdateGroup(c, u, g) \/ DeleteOrRestoreGroup(c, u, g)
             \/ \E i \in Invitations : Accept(c, u, g, i)
             \/ \E i \in Invitations, to \in GroupUsers \cup {AnyUser}, role \in Roles :
                   Invite(c, u, g, i, to, role)
             \/ \E v \in GroupUsers : RemoveMember(c, u, g, v)
             \/ \E v \in GroupUsers, role \in Roles : UpdateMemberRole(c, u, g, v, role)
      PROVE  GroupsIInv'
  <2>1. Begun(c)
    BY <1>7, InviteBegins, AcceptBegins, MembersBegin, TrashBegins, UpdateBegins
  <2>. QED BY <2>1, BeginStep
<1>8. ASSUME UNCHANGED groupVars
      PROVE  GroupsIInv'
  BY <1>8, IdleStep DEF groupVars, GroupsIInv, GroupsTypeOK
<1>. QED BY <1>1, <1>2, <1>3, <1>4, <1>5, <1>6, <1>7, <1>8, ExpireStep DEF GroupsNext

\* The invariant holds in every state.
THEOREM GroupsInvariance == GroupsSpec => []GroupsIInv
<1>. QED BY GroupsStart, GroupsStep, PTL DEF GroupsSpec

\* Whatever its members do at once, a group has an owner until it is deleted for good.
THEOREM OwnerRemains == GroupsSpec => []AlwaysOwned
<1>1. GroupsIInv => AlwaysOwned
  BY DEF GroupsIInv
<1>. QED BY <1>1, GroupsInvariance, PTL

\* An invitation that was used or revoked is never pending again.
THEOREM InvitationsUsedOnce == GroupsSpec => []SpentStaysSpent
<1>1. GroupsIInv => SpentStaysSpent
  BY DEF GroupsIInv
<1>. QED BY <1>1, GroupsInvariance, PTL

\* Only a save gives a member a role, in a group that exists.
LEMMA RoleSaved ==
    ASSUME GroupsIInv, GroupsNext, NEW g \in GroupIds, NEW u \in GroupUsers, group[g].status # "none",
           group'[g].members[u] \notin {NoRole, group[g].members[u]}
    PROVE  \E c \in GroupCallers :
              LET w == requests[c]
              IN  /\ SaveGroup(c) /\ w.at = "save" /\ Abreast(w) /\ w.group = g
                  /\ group'[g] = Merged(group[g], w)
                  /\ u \in w.changed /\ group'[g].members[u] = w.doc.members[u]
<1>1. PICK c \in GroupCallers : SaveGroup(c)
  <2>1. ASSUME NEW h \in GroupIds, NEW v \in GroupUsers, CreateGroup(h, v)
        PROVE  FALSE
    BY <2>1 DEF CreateGroup, GroupsIInv, GroupsTypeOK
  <2>2. ASSUME NEW h \in GroupIds, NEW v \in GroupUsers, NEW i \in Invitations,
               DeclineAccountInvitation(v, h, i)
        PROVE  FALSE
    <3>1. \A k \in GroupIds : group[k] \in Group
      BY DEF GroupsIInv, GroupsTypeOK
    <3>2. group' = [group EXCEPT ![h] = [group[h] EXCEPT !.invitations = group[h].invitations \ {i}]]
      BY <2>2 DEF DeclineAccountInvitation
    <3>3. group'[g].members = group[g].members
      BY <3>1, <3>2 DEF GroupsIInv, GroupsTypeOK, Group
    <3>. QED BY <3>3
  <2>3. ASSUME NEW d \in GroupCallers, PurgeGroup(d)
        PROVE  FALSE
    <3>1. [NoGroup EXCEPT !.status = "gone"].members[u] = NoRole
      BY DEF NoGroup
    <3>2. \/ UNCHANGED group
          \/ group' = [group EXCEPT ![requests[d].group] = [NoGroup EXCEPT !.status = "gone"]]
      BY <2>3 DEF PurgeGroup
    <3>. QED BY <3>1, <3>2 DEF GroupsIInv, GroupsTypeOK
  <2>4. ASSUME UNCHANGED group
        PROVE  FALSE
    BY <2>4
  <2>5. ASSUME NEW d \in GroupCallers, NEW h \in GroupIds, NEW v \in GroupUsers,
               \/ RevokeInvitations(d, v, h) \/ UpdateGroup(d, v, h) \/ DeleteOrRestoreGroup(d, v, h)
               \/ BeginPurge(d, v, h) \/ DropRequest(d)
               \/ \E i \in Invitations : Accept(d, v, h, i)
               \/ \E i \in Invitations, to \in GroupUsers \cup {AnyUser}, role \in Roles :
                     Invite(d, v, h, i, to, role)
               \/ \E x \in GroupUsers : RemoveMember(d, v, h, x)
               \/ \E x \in GroupUsers, role \in Roles : UpdateMemberRole(d, v, h, x, role)
        PROVE  FALSE
    BY <2>4, <2>5 DEF RevokeInvitations, UpdateGroup, DeleteOrRestoreGroup, BeginPurge, DropRequest,
                      Accept, Invite, RemoveMember, UpdateMemberRole
  <2>6. ASSUME NEW i \in Invitations, ExpireInvitation(i)
        PROVE  FALSE
    BY <2>4, <2>6 DEF ExpireInvitation
  <2>. QED BY ZenonT(60), <2>1, <2>2, <2>3, <2>5, <2>6 DEF GroupsNext
<1>. DEFINE w == requests[c]
<1>2. /\ w.at = "save" /\ Abreast(w) /\ w.doc.version < MaxVersion
      /\ group' = [group EXCEPT ![w.group] = Merged(group[w.group], w)]
  BY <1>1, SaveCases
<1>3. w \in GroupRequest /\ w.group \in GroupIds /\ group[w.group] \in Group
  BY DEF GroupsIInv, GroupsTypeOK, GroupRequest
<1>4. group'[g] = IF g = w.group THEN Merged(group[w.group], w) ELSE group[g]
  BY <1>2 DEF GroupsIInv, GroupsTypeOK
<1>5. g = w.group
  BY <1>4
<1>6. Merged(group[w.group], w).members[u] =
         IF u \in w.changed THEN w.doc.members[u] ELSE group[w.group].members[u]
  BY <1>2, <1>3, MergeTyped DEF Abreast
<1>7. u \in w.changed /\ group'[g].members[u] = w.doc.members[u]
  BY <1>4, <1>5, <1>6
<1>. QED BY <1>1, <1>2, <1>4, <1>5, <1>7

\* A member becomes an owner only while somebody who owns the group wants so.
THEOREM OwnersByOwners == GroupsSpec => OwnersMakeOwners
<1>. DEFINE Granted ==
       \A g \in GroupIds, u \in GroupUsers :
          group[g].status = "live" /\ group[g].members[u] # "owner" /\ group'[g].members[u] = "owner" =>
             \E c \in GroupCallers :
                LET w == requests[c]
                    grantor == IF w.needs = NoInvitation THEN w.actor ELSE invitation[w.needs].createdBy
                IN  /\ w.at = "save" /\ w.group = g /\ w.doc.members[u] = "owner"
                    /\ group[g].members[grantor] = "owner"
<1>1. GroupsIInv /\ [GroupsNext]_groupVars => [Granted]_groupVars
  <2>. SUFFICES ASSUME GroupsIInv, GroupsNext,
                       NEW g \in GroupIds, NEW u \in GroupUsers,
                       group[g].status = "live", group[g].members[u] # "owner", group'[g].members[u] = "owner"
                PROVE  \E c \in GroupCallers :
                          LET w == requests[c]
                              grantor == IF w.needs = NoInvitation THEN w.actor
                                         ELSE invitation[w.needs].createdBy
                          IN  /\ w.at = "save" /\ w.group = g /\ w.doc.members[u] = "owner"
                              /\ group[g].members[grantor] = "owner"
    OBVIOUS
  <2>1. PICK c \in GroupCallers :
              LET w == requests[c]
              IN  /\ SaveGroup(c) /\ w.at = "save" /\ Abreast(w) /\ w.group = g
                  /\ group'[g] = Merged(group[g], w)
                  /\ u \in w.changed /\ group'[g].members[u] = w.doc.members[u]
    BY RoleSaved DEF NoRole
  <2>. DEFINE w == requests[c]
  <2>2. group[g].members[Grantor(w)] = "owner"
    BY <2>1 DEF GroupsIInv, RequestsSound, Sound
  <2>. QED BY <2>1, <2>2 DEF Grantor
<1>. QED BY <1>1, GroupsInvariance, PTL DEF GroupsSpec, OwnersMakeOwners

-----------------------------------------------------------------------------
(* Groups: who joins. *)

\* A request that makes somebody a member of `now` does so by the invitation `said`, to that role, of
\* one who may invite to it, and takes it from the list.
InvitedTo(r, now, said) ==
    \A u \in r.changed : r.doc.members[u] # NoRole /\ now.members[u] = NoRole =>
       /\ now.status = "live"
       /\ r.needs \in Invitations /\ r.replaces /\ r.needs \notin r.invites
       /\ said.user \in {AnyUser, u} /\ said.role = r.doc.members[u]
       /\ CanInvite(now, said.createdBy, said.role)

Invited(r) == InvitedTo(r, group[r.group], invitation[r.needs])

JoinersInvited == \A c \in GroupCallers : requests[c].at = "save" /\ Abreast(requests[c]) => Invited(requests[c])

\* It stays so while the members and the status of its group, and what its invitation says, do.
LEMMA InvitedStays ==
    ASSUME NEW r, NEW now, NEW then, NEW said, NEW says, InvitedTo(r, now, said),
           then.status = now.status, then.members = now.members,
           r.needs \in Invitations =>
              says.user = said.user /\ says.role = said.role /\ says.createdBy = said.createdBy
    PROVE  InvitedTo(r, then, says)
BY DEF InvitedTo, CanInvite

LEMMA JoinerStays ==
    ASSUME GroupsIInv, JoinersInvited, NEW d \in GroupCallers, requests'[d] = requests[d],
           requests[d].at = "save", Abreast(requests[d])',
           group'[requests[d].group].version = group[requests[d].group].version,
           group'[requests[d].group].status = group[requests[d].group].status,
           group'[requests[d].group].members = group[requests[d].group].members,
           \A i \in Invitations : invitation[i].role # NoRole =>
              /\ invitation'[i].user = invitation[i].user
              /\ invitation'[i].role = invitation[i].role
              /\ invitation'[i].createdBy = invitation[i].createdBy
    PROVE  Invited(requests[d])'
<1>. DEFINE r == requests[d]
<1>1. Abreast(r)
  BY DEF Abreast
<1>2. InvitedTo(r, group[r.group], invitation[r.needs])
  BY <1>1 DEF JoinersInvited, Invited
<1>3. r.needs \in Invitations => invitation[r.needs].role # NoRole
  BY DEF GroupsIInv, InvitationsKnown
<1>4. InvitedTo(r, group'[r.group], invitation'[r.needs])
  BY <1>2, <1>3, InvitedStays
<1>. QED BY <1>4 DEF Invited

\* A request that begins makes somebody a member only by accepting an invitation.
LEMMA JoinerBegins ==
    ASSUME GroupsIInv, NEW c \in GroupCallers, NEW g \in GroupIds, NEW u \in GroupUsers,
           \/ RevokeInvitations(c, u, g) \/ UpdateGroup(c, u, g) \/ DeleteOrRestoreGroup(c, u, g)
           \/ \E i \in Invitations : Accept(c, u, g, i)
           \/ \E i \in Invitations, to \in GroupUsers \cup {AnyUser}, role \in Roles :
                 Invite(c, u, g, i, to, role)
           \/ \E v \in GroupUsers : RemoveMember(c, u, g, v)
           \/ \E v \in GroupUsers, role \in Roles : UpdateMemberRole(c, u, g, v, role)
    PROVE  Invited(requests[c])'
<1>1. /\ group[g] \in Group /\ UNCHANGED group
      /\ c \in DOMAIN requests
  BY DEF GroupsIInv, GroupsTypeOK, RevokeInvitations, UpdateGroup, DeleteOrRestoreGroup, Accept, Invite,
         RemoveMember, UpdateMemberRole
<1>2. ASSUME \/ RevokeInvitations(c, u, g) \/ UpdateGroup(c, u, g) \/ DeleteOrRestoreGroup(c, u, g)
             \/ \E i \in Invitations, to \in GroupUsers \cup {AnyUser}, role \in Roles :
                   Invite(c, u, g, i, to, role)
      PROVE  Invited(requests[c])'
  <2>1. requests'[c].changed = {}
    BY <1>1, <1>2 DEF RevokeInvitations, UpdateGroup, DeleteOrRestoreGroup, Invite, Prepare
  <2>. QED BY <2>1 DEF Invited, InvitedTo
<1>3. ASSUME NEW i \in Invitations, Accept(c, u, g, i)
      PROVE  Invited(requests[c])'
  <2>. DEFINE role == invitation[i].role
              next == WithRole(group[g], u, role)
  <2>1. requests'[c] = [at |-> "save", actor |-> u, group |-> g, doc |-> next, changed |-> {u},
                        replaces |-> TRUE, invites |-> group[g].invitations \ {i}, needs |-> i]
    BY <1>1, <1>3 DEF Accept, Prepare
  <2>2. /\ group[g].status = "live" /\ UNCHANGED invitation
        /\ invitation[i].user \in {AnyUser, u}
        /\ CanInvite(group[g], invitation[i].createdBy, role)
    BY <1>3 DEF Accept
  <2>3. role \in Roles \cup {NoRole}
    BY DEF GroupsIInv, GroupsTypeOK, Invitation
  <2>4. next.members[u] = role
    BY <1>1, <2>3, RoleTyped
  <2>. HIDE DEF next
  <2>. QED BY <1>1, <2>1, <2>2, <2>4 DEF Invited, InvitedTo, CanInvite
<1>4. ASSUME NEW v \in GroupUsers, RemoveMember(c, u, g, v)
      PROVE  Invited(requests[c])'
  <2>. DEFINE next == WithRole(group[g], v, NoRole)
  <2>1. requests'[c].doc = next /\ requests'[c].group = g /\ requests'[c].changed = GroupUsers
    BY <1>1, <1>4 DEF RemoveMember, Prepare
  <2>2. NoRole \in Roles \cup {NoRole}
    OBVIOUS
  <2>3. \A w \in GroupUsers : next.members[w] = IF v = w THEN NoRole ELSE group[g].members[w]
    BY <1>1, <2>2, RoleTyped
  <2>. HIDE DEF next
  <2>. QED BY <1>1, <2>1, <2>3 DEF Invited, InvitedTo
<1>5. ASSUME NEW v \in GroupUsers, NEW role \in Roles, UpdateMemberRole(c, u, g, v, role)
      PROVE  Invited(requests[c])'
  <2>1. requests'[c].group = g /\ requests'[c].changed = {v} /\ group[g].members[v] # NoRole
    BY <1>1, <1>5 DEF UpdateMemberRole, Prepare
  <2>. QED BY <1>1, <2>1 DEF Invited, InvitedTo
<1>. QED BY <1>2, <1>3, <1>4, <1>5

\* Every step keeps it.
LEMMA JoinerStep == GroupsIInv /\ JoinersInvited /\ [GroupsNext]_groupVars => JoinersInvited'
<1>. SUFFICES ASSUME GroupsIInv, JoinersInvited, [GroupsNext]_groupVars,
                     NEW d \in GroupCallers, requests'[d].at = "save", Abreast(requests[d])'
              PROVE  Invited(requests[d])'
  BY DEF JoinersInvited
<1>. DEFINE r == requests[d]
<1>0. /\ \A g \in GroupIds : group[g] \in Group
      /\ group \in [GroupIds -> Group] /\ requests \in [GroupCallers -> GroupRequest]
      /\ invitation \in [Invitations -> Invitation]
      /\ NoRequest.at = "idle"
  BY NothingTyped DEF GroupsIInv, GroupsTypeOK
<1>1. ASSUME requests'[d] = requests[d], UNCHANGED <<group, invitation>>
      PROVE  Invited(requests[d])'
  BY <1>1, JoinerStays
<1>2. ASSUME NEW g \in GroupIds, NEW u \in GroupUsers, CreateGroup(g, u)
      PROVE  Invited(requests[d])'
  <2>1. r.group # g /\ requests' = requests /\ UNCHANGED invitation
    BY <1>2 DEF CreateGroup, GroupsIInv, RequestsSound, Sound
  <2>2. group'[r.group] = group[r.group]
    BY <1>0, <1>2, <2>1 DEF CreateGroup
  <2>. QED BY <2>1, <2>2, JoinerStays
<1>3. ASSUME NEW g \in GroupIds, NEW u \in GroupUsers, NEW i \in Invitations,
             DeclineAccountInvitation(u, g, i)
      PROVE  Invited(requests[d])'
  <2>1. requests' = requests /\ UNCHANGED invitation
    BY <1>3 DEF DeclineAccountInvitation
  <2>2. group' = [group EXCEPT ![g] = [group[g] EXCEPT !.invitations = group[g].invitations \ {i}]]
    BY <1>3 DEF DeclineAccountInvitation
  <2>3. r.group \in GroupIds
    BY <1>0 DEF GroupRequest
  <2>4. /\ group'[r.group].version = group[r.group].version
        /\ group'[r.group].status = group[r.group].status
        /\ group'[r.group].members = group[r.group].members
    BY <1>0, <2>2, <2>3 DEF Group
  <2>. QED BY <2>1, <2>4, JoinerStays
<1>4. ASSUME NEW i \in Invitations, ExpireInvitation(i)
      PROVE  Invited(requests[d])'
  <2>1. requests' = requests /\ UNCHANGED group
    BY <1>4 DEF ExpireInvitation
  <2>2. \A j \in Invitations :
           /\ invitation'[j].user = invitation[j].user
           /\ invitation'[j].role = invitation[j].role
           /\ invitation'[j].createdBy = invitation[j].createdBy
    BY <1>0, <1>4 DEF ExpireInvitation, Invitation
  <2>. QED BY <2>1, <2>2, JoinerStays
<1>5. ASSUME NEW c \in GroupCallers, PurgeGroup(c)
      PROVE  Invited(requests[d])'
  <2>1. /\ requests' = [requests EXCEPT ![c] = NoRequest] /\ UNCHANGED invitation
        /\ \/ UNCHANGED group
           \/ group' = [group EXCEPT ![requests[c].group] = [NoGroup EXCEPT !.status = "gone"]]
    BY <1>5 DEF PurgeGroup
  <2>2. requests'[d] = requests[d]
    BY <1>0, <2>1
  <2>3. r.group \in GroupIds /\ group'[r.group].status # "gone"
    BY <1>0, <2>2 DEF GroupRequest, Abreast
  <2>4. group'[r.group] = group[r.group]
    <3>1. [NoGroup EXCEPT !.status = "gone"].status = "gone"
      BY DEF NoGroup
    <3>. QED BY <1>0, <2>1, <2>3, <3>1
  <2>. QED BY <2>1, <2>2, <2>4, JoinerStays
<1>6. ASSUME NEW c \in GroupCallers, SaveGroup(c)
      PROVE  Invited(requests[d])'
  <2>. DEFINE w == requests[c]
  <2>1. requests' = [requests EXCEPT ![c] = NoRequest] /\ UNCHANGED invitation
    BY <1>6, SaveCases
  <2>2. requests'[d] = requests[d] /\ r.at = "save"
    BY <1>0, <2>1
  <2>3. CASE UNCHANGED group
    BY <1>1, <2>1, <2>2, <2>3
  <2>4. CASE /\ Abreast(w) /\ w.doc.version < MaxVersion
             /\ group' = [group EXCEPT ![w.group] = Merged(group[w.group], w)]
    <3>1. r.group \in GroupIds /\ w.group \in GroupIds /\ r.doc.version \in Nat
      BY <1>0, GroupsAssumption DEF GroupRequest, Group
    <3>2. r.group # w.group
      <4>1. ASSUME r.group = w.group PROVE FALSE
        <5>1. group'[r.group].version = group[r.group].version + 1
          BY <1>0, <2>4, <3>1, <4>1 DEF Merged
        <5>2. r.doc.version <= group[r.group].version
          BY <2>2, <2>4, <4>1 DEF GroupsIInv, RequestsSound, Sound, Abreast
        <5>3. r.doc.version = group'[r.group].version
          BY <2>2 DEF Abreast
        <5>4. group[r.group].version \in Nat
          BY <1>0, <3>1, GroupsAssumption DEF Group
        <5>. QED BY <3>1, <5>1, <5>2, <5>3, <5>4
      <4>. QED BY <4>1
    <3>3. group'[r.group] = group[r.group]
      BY <1>0, <2>4, <3>1, <3>2
    <3>. QED BY <2>1, <2>2, <3>3, JoinerStays
  <2>. QED BY <1>6, <2>3, <2>4, SaveCases
<1>7. ASSUME NEW c \in GroupCallers, NEW g \in GroupIds, NEW u \in GroupUsers,
             \/ RevokeInvitations(c, u, g) \/ UpdateGroup(c, u, g) \/ DeleteOrRestoreGroup(c, u, g)
             \/ \E i \in Invitations : Accept(c, u, g, i)
             \/ \E i \in Invitations, to \in GroupUsers \cup {AnyUser}, role \in Roles :
                   Invite(c, u, g, i, to, role)
             \/ \E v \in GroupUsers : RemoveMember(c, u, g, v)
             \/ \E v \in GroupUsers, role \in Roles : UpdateMemberRole(c, u, g, v, role)
      PROVE  Invited(requests[d])'
  <2>1. Begun(c)
    BY <1>7, InviteBegins, AcceptBegins, MembersBegin, TrashBegins, UpdateBegins
  <2>2. CASE d = c
    BY <1>7, <2>2, JoinerBegins
  <2>3. CASE d # c
    <3>1. requests'[d] = requests[d] /\ UNCHANGED group
      BY <2>1, <2>3 DEF Begun
    <3>2. \A i \in Invitations : invitation[i].role # NoRole => invitation'[i] = invitation[i]
      BY <2>1 DEF Begun
    <3>. QED BY <3>1, <3>2, JoinerStays
  <2>. QED BY <2>2, <2>3
<1>8. ASSUME NEW c \in GroupCallers, NEW g \in GroupIds, NEW u \in GroupUsers, BeginPurge(c, u, g)
      PROVE  Invited(requests[d])'
  <2>1. [NoRequest EXCEPT !.at = "purge", !.actor = u, !.group = g, !.doc = group[g]].at = "purge"
    BY DEF NoRequest
  <2>2. requests'[d] = requests[d] /\ UNCHANGED <<group, invitation>>
    BY <1>0, <1>8, <2>1 DEF BeginPurge
  <2>. QED BY <1>1, <2>2
<1>9. ASSUME NEW c \in GroupCallers, DropRequest(c)
      PROVE  Invited(requests[d])'
  <2>1. requests'[d] = requests[d] /\ UNCHANGED <<group, invitation>>
    BY <1>0, <1>9 DEF DropRequest
  <2>. QED BY <1>1, <2>1
<1>10. ASSUME UNCHANGED groupVars
       PROVE  Invited(requests[d])'
  BY <1>1, <1>10 DEF groupVars
<1>. QED BY ZenonT(60), <1>2, <1>3, <1>4, <1>5, <1>6, <1>7, <1>8, <1>9, <1>10 DEF GroupsNext

\* Nobody joins but by an invitation that is pending at that moment and still its author's to make.
THEOREM JoiningIsInvited == GroupsSpec => JoinsAreInvited
<1>. DEFINE Joined ==
       \A g \in GroupIds, u \in GroupUsers :
          group[g].status # "none" /\ group[g].members[u] = NoRole /\ group'[g].members[u] # NoRole =>
             /\ group[g].status = "live"
             /\ \E i \in group[g].invitations \ group'[g].invitations :
                   /\ invitation[i].user \in {AnyUser, u}
                   /\ invitation[i].role = group'[g].members[u]
                   /\ CanInvite(group[g], invitation[i].createdBy, invitation[i].role)
<1>1. GroupsIInv /\ JoinersInvited /\ [GroupsNext]_groupVars => [Joined]_groupVars
  <2>. SUFFICES ASSUME GroupsIInv, JoinersInvited, GroupsNext,
                       NEW g \in GroupIds, NEW u \in GroupUsers,
                       group[g].status # "none", group[g].members[u] = NoRole, group'[g].members[u] # NoRole
                PROVE  /\ group[g].status = "live"
                       /\ \E i \in group[g].invitations \ group'[g].invitations :
                             /\ invitation[i].user \in {AnyUser, u}
                             /\ invitation[i].role = group'[g].members[u]
                             /\ CanInvite(group[g], invitation[i].createdBy, invitation[i].role)
    OBVIOUS
  <2>1. PICK c \in GroupCallers :
              LET w == requests[c]
              IN  /\ SaveGroup(c) /\ w.at = "save" /\ Abreast(w) /\ w.group = g
                  /\ group'[g] = Merged(group[g], w)
                  /\ u \in w.changed /\ group'[g].members[u] = w.doc.members[u]
    BY RoleSaved
  <2>. DEFINE w == requests[c]
  <2>2. /\ group[g].status = "live"
        /\ w.needs \in Invitations /\ w.replaces /\ w.needs \notin w.invites
        /\ invitation[w.needs].user \in {AnyUser, u} /\ invitation[w.needs].role = w.doc.members[u]
        /\ CanInvite(group[g], invitation[w.needs].createdBy, invitation[w.needs].role)
    BY <2>1 DEF JoinersInvited, Invited, InvitedTo
  <2>3. w.needs \in group[g].invitations
    <3>1. group' # group /\ w.needs # NoInvitation
      BY <2>1, <2>2, NothingTyped
    <3>. QED BY <2>1, <3>1 DEF SaveGroup
  <2>4. group'[g].invitations = w.invites
    BY <2>1, <2>2 DEF Merged, Left
  <2>. QED BY <2>1, <2>2, <2>3, <2>4
<1>2. GroupsInit => JoinersInvited
  BY DEF GroupsInit, JoinersInvited, NoRequest
<1>. QED BY <1>1, <1>2, JoinerStep, GroupsInvariance, PTL DEF GroupsSpec, JoinsAreInvited

=============================================================================
