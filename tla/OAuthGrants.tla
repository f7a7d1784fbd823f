----------------------------- MODULE OAuthGrants -----------------------------
(***************************************************************************)
(* backend-core oauth/service.ts and the token endpoint of auth-service:    *)
(* one user connects one application, which may be registered more than     *)
(* once, exchanges codes for a connection and refreshes it with tokens that *)
(* are each good for one use.                                               *)
(*                                                                          *)
(* A call of MongoDB is a step.  A request may end between two of them, and *)
(* an answer may be lost: the client then presents the old token again.     *)
(* Tokens are numbered, and a generation is named after its first token.    *)
(***************************************************************************)
EXTENDS Integers, FiniteSets

CONSTANTS OAuthCallers,  \* requests in flight at once
          MaxClients,    \* bound: registrations of the application
          MaxCodes,      \* bound: approvals
          MaxTokens      \* bound: refresh tokens made

ASSUME OAuthAssumption == MaxClients \in Nat /\ MaxCodes \in Nat /\ MaxTokens \in Nat

VARIABLES clients,    \* how often the application is registered; a client id is 1, 2, ...
          codes,      \* the authorization codes
          grants,     \* the OAuthGrant of each client id
          tokens,     \* the RefreshToken rows
          made,       \* tokens generated so far
          calls,      \* requests in flight
          uses,       \* history: per token, how often it was presented, answered and exchanged
          disconnected  \* history: generations the user disconnected

oauthVars == <<clients, codes, grants, tokens, made, calls, uses, disconnected>>

-----------------------------------------------------------------------------
ClientIds == 1..MaxClients
CodeIds == 1..MaxCodes
TokenIds == 1..MaxTokens
NoToken == 0

Code == [client : 0..MaxClients, used : BOOLEAN, grants : 0..2]
NoCode == [client |-> 0, used |-> FALSE, grants |-> 0]   \* not issued yet

Grant == [generation : 0..MaxTokens, current : 0..MaxTokens, revoked : BOOLEAN]
NoGrant == [generation |-> NoToken, current |-> NoToken, revoked |-> FALSE]

\* A row names the client and generation it belongs to; `held` once it was answered to the client.
TokenRow == [client : 0..MaxClients, generation : 0..MaxTokens, held : BOOLEAN]
NoRow == [client |-> 0, generation |-> NoToken, held |-> FALSE]

OAuthCall == [at : {"idle", "create", "prepare", "start", "grant", "rotate", "claim", "replay"},
              client : 0..MaxClients, code : 0..MaxCodes, token : 0..MaxTokens, next : 0..MaxTokens]
NoCall == [at |-> "idle", client |-> 0, code |-> 0, token |-> NoToken, next |-> NoToken]

Use == [presented : 0..2, answered : 0..2, exchanged : 0..2]
NoUse == [presented |-> 0, answered |-> 0, exchanged |-> 0]
Twice(n) == IF n < 2 THEN n + 1 ELSE 2

\* The generation of a client id that can be refreshed, if there is one.
Live(generation) == \E k \in ClientIds : grants[k].generation = generation /\ ~grants[k].revoked

-----------------------------------------------------------------------------
(* Registration and approval. *)

\* registerClient: the application asks, and gets the registration it has, ...
RegisterClient(c) ==
    /\ calls[c].at = "idle"
    /\ clients = 0 /\ clients < MaxClients
    /\ calls' = [calls EXCEPT ![c].at = "create"]
    /\ UNCHANGED <<clients, codes, grants, tokens, made, uses, disconnected>>

\* ... or one that is new.
CreateClient(c) ==
    /\ calls[c].at = "create"
    /\ clients < MaxClients
    /\ clients' = clients + 1
    /\ calls' = [calls EXCEPT ![c] = NoCall]
    /\ UNCHANGED <<codes, grants, tokens, made, uses, disconnected>>

IssueAuthorizationCode(i) ==
    /\ codes[i].client = 0
    /\ \E k \in 1..clients : codes' = [codes EXCEPT ![i].client = k]
    /\ UNCHANGED <<clients, grants, tokens, made, calls, uses, disconnected>>

-----------------------------------------------------------------------------
(* Exchanging a code (redeemAuthorizationCode, issueRefreshToken). *)

\* One update stamps the code and reads it.  A code that is expired, or presented with the wrong
\* redirect or verifier, is spent all the same.
RedeemAuthorizationCode(c) ==
    /\ calls[c].at = "idle"
    /\ \E i \in CodeIds :
         /\ codes[i].client # 0 /\ ~codes[i].used
         /\ codes' = [codes EXCEPT ![i].used = TRUE]
         /\ \/ calls' = [calls EXCEPT ![c] = [@ EXCEPT !.at = "prepare", !.code = i,
                                                       !.client = codes[i].client]]
            \/ UNCHANGED calls
    /\ UNCHANGED <<clients, grants, tokens, made, uses, disconnected>>

NewToken(c, generation, at) ==
    /\ made < MaxTokens
    /\ made' = made + 1
    /\ tokens' = [tokens EXCEPT ![made'] =
                     [client |-> calls[c].client, held |-> FALSE,
                      generation |-> IF generation = NoToken THEN made' ELSE generation]]
    /\ calls' = [calls EXCEPT ![c] = [@ EXCEPT !.at = at, !.next = made']]

\* The row of the first token comes first; without a grant that names it, it is worth nothing.
PrepareRefreshToken(c) ==
    /\ calls[c].at = "prepare"
    /\ NewToken(c, NoToken, "start")
    /\ UNCHANGED <<clients, codes, grants, uses, disconnected>>

\* The grant of the client id is replaced, whatever became of the one before.
StartGrant(c) ==
    LET w == calls[c]
    IN  /\ w.at = "start"
        /\ grants' = [grants EXCEPT ![w.client] =
                         [generation |-> w.next, current |-> w.next, revoked |-> FALSE]]
        /\ codes' = [codes EXCEPT ![w.code].grants = Twice(@)]
        /\ tokens' = [tokens EXCEPT ![w.next].held = TRUE]
        /\ calls' = [calls EXCEPT ![c] = NoCall]
        /\ UNCHANGED <<clients, made, uses, disconnected>>

-----------------------------------------------------------------------------
(* Refreshing (redeemRefreshToken). *)

\* A client presents a token it holds, now or long after; its row is read.
PresentToken(c) ==
    /\ calls[c].at = "idle"
    /\ \E t \in TokenIds :
         /\ tokens[t].held
         /\ calls' = [calls EXCEPT ![c] = [NoCall EXCEPT !.at = "grant", !.client = tokens[t].client,
                                              !.token = t]]
         /\ uses' = [uses EXCEPT ![t].presented = Twice(@)]
    /\ UNCHANGED <<clients, codes, grants, tokens, made, disconnected>>

\* The request is answered, with a new token or with a refusal.
Answered(u, exchanged) ==
    [u EXCEPT !.answered = Twice(@), !.exchanged = IF exchanged THEN Twice(@) ELSE @]

Answer(c, exchanged) ==
    /\ calls' = [calls EXCEPT ![c] = NoCall]
    /\ uses' = [uses EXCEPT ![calls[c].token] = Answered(@, exchanged)]

\* The grant of the token's own generation is read: gone or revoked, the token is refused, ...
RefuseToken(c) ==
    LET g == grants[calls[c].client]
    IN  /\ calls[c].at = "grant"
        /\ g.generation # tokens[calls[c].token].generation \/ g.revoked
        /\ Answer(c, FALSE)
        /\ UNCHANGED <<clients, codes, grants, tokens, made, disconnected>>

\* ... and it is either current or was used before.
ReadGrant(c) ==
    LET g == grants[calls[c].client]
    IN  /\ calls[c].at = "grant"
        /\ g.generation = tokens[calls[c].token].generation /\ ~g.revoked
        /\ calls' = [calls EXCEPT ![c].at = IF g.current = calls[c].token THEN "rotate" ELSE "replay"]
        /\ UNCHANGED <<clients, codes, grants, tokens, made, uses, disconnected>>

PrepareRotation(c) ==
    /\ calls[c].at = "rotate"
    /\ NewToken(c, tokens[calls[c].token].generation, "claim")
    /\ UNCHANGED <<clients, codes, grants, uses, disconnected>>

\* What the conditional update of a rotation asks of the grant.
Current(c) ==
    LET g == grants[calls[c].client]
    IN  /\ g.generation = tokens[calls[c].token].generation
        /\ g.current = calls[c].token
        /\ ~g.revoked

\* Mutant of ClaimGrant: the rotation trusts the grant it read.
CredulousClaimGrant(c) ==
    LET w == calls[c]
    IN  /\ w.at = "claim"
        /\ grants' = [grants EXCEPT ![w.client].current = w.next]
        /\ tokens' = [tokens EXCEPT ![w.next].held = TRUE]
        /\ Answer(c, TRUE)
        /\ UNCHANGED <<clients, codes, made, disconnected>>

ClaimGrant(c) ==
    LET w == calls[c]
    IN  /\ w.at = "claim"
        /\ IF Current(c)
           THEN /\ grants' = [grants EXCEPT ![w.client].current = w.next]
                /\ tokens' = [tokens EXCEPT ![w.next].held = TRUE]
                /\ Answer(c, TRUE)
           ELSE /\ calls' = [calls EXCEPT ![c].at = "replay"]
                /\ UNCHANGED <<grants, tokens, uses>>
        /\ UNCHANGED <<clients, codes, made, disconnected>>

\* Mutant of RevokeReplayedGrant: the token is refused and the connection stays.
RefuseReplay(c) ==
    /\ calls[c].at = "replay"
    /\ Answer(c, FALSE)
    /\ UNCHANGED <<clients, codes, grants, tokens, made, disconnected>>

\* Mutant of RevokeReplayedGrant: whatever connection the client has by now is revoked.
RevokeAnyGrant(c) ==
    /\ calls[c].at = "replay"
    /\ grants' = [grants EXCEPT ![calls[c].client].revoked = TRUE]
    /\ Answer(c, FALSE)
    /\ UNCHANGED <<clients, codes, tokens, made, disconnected>>

\* A token that was presented again costs the generation it belongs to, and no other.
RevokeReplayedGrant(c) ==
    LET w == calls[c]
    IN  /\ w.at = "replay"
        /\ grants' = [grants EXCEPT ![w.client].revoked =
                         @ \/ grants[w.client].generation = tokens[w.token].generation]
        /\ Answer(c, FALSE)
        /\ UNCHANGED <<clients, codes, tokens, made, disconnected>>

\* The process dies, the database fails or the client is gone.
AbandonCall(c) ==
    /\ calls[c].at # "idle"
    /\ calls' = [calls EXCEPT ![c] = NoCall]
    /\ UNCHANGED <<clients, codes, grants, tokens, made, uses, disconnected>>

\* revokeConnection: the user disconnects a client id.
Disconnect(k) ==
    /\ grants[k].generation # NoToken /\ ~grants[k].revoked
    /\ grants' = [grants EXCEPT ![k].revoked = TRUE]
    /\ disconnected' = disconnected \cup {grants[k].generation}
    /\ UNCHANGED <<clients, codes, tokens, made, calls, uses>>

-----------------------------------------------------------------------------
OAuthInit ==
    /\ clients = 0
    /\ codes = [i \in CodeIds |-> NoCode]
    /\ grants = [k \in ClientIds |-> NoGrant]
    /\ tokens = [t \in TokenIds |-> NoRow]
    /\ made = 0
    /\ calls = [c \in OAuthCallers |-> NoCall]
    /\ uses = [t \in TokenIds |-> NoUse]
    /\ disconnected = {}

OAuthNext ==
    \/ \E c \in OAuthCallers :
         \/ RegisterClient(c) \/ CreateClient(c)
         \/ RedeemAuthorizationCode(c) \/ PrepareRefreshToken(c) \/ StartGrant(c)
         \/ PresentToken(c) \/ RefuseToken(c) \/ ReadGrant(c)
         \/ PrepareRotation(c) \/ ClaimGrant(c) \/ RevokeReplayedGrant(c)
         \/ AbandonCall(c)
    \/ \E i \in CodeIds : IssueAuthorizationCode(i)
    \/ \E k \in ClientIds : Disconnect(k)

OAuthSpec == OAuthInit /\ [][OAuthNext]_oauthVars

-----------------------------------------------------------------------------
(* Properties. *)

OAuthTypeOK ==
    /\ clients \in 0..MaxClients
    /\ codes \in [CodeIds -> Code]
    /\ grants \in [ClientIds -> Grant]
    /\ tokens \in [TokenIds -> TokenRow]
    /\ made \in 0..MaxTokens
    /\ calls \in [OAuthCallers -> OAuthCall]
    /\ uses \in [TokenIds -> Use]
    /\ disconnected \subseteq TokenIds

\* A code and a token are each good for one exchange, however many requests present them at once
\* (redeemAuthorizationCode, redeemRefreshToken).
ExchangedOnce ==
    /\ \A i \in CodeIds : codes[i].grants <= 1
    /\ \A t \in TokenIds : uses[t].exchanged <= 1

\* Once two requests with the same token were answered, the connection it belonged to is over: no
\* copy of any of its tokens refreshes it (the reuse rule of redeemRefreshToken).
ReplayIsNoticed ==
    \A t \in TokenIds : uses[t].answered = 2 => ~Live(tokens[t].generation)

\* A connection whose tokens were each presented once is revoked by nobody but its user: neither by
\* a late replay of a generation before it nor by requests that race a reconnection.
NoFalseAlarm ==
    \A k \in ClientIds :
        grants[k].revoked =>
            \/ grants[k].generation \in disconnected
            \/ \E t \in TokenIds : tokens[t].generation = grants[k].generation
                                     /\ uses[t].presented = 2
=============================================================================
