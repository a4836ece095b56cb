-------------------------------- MODULE OAuth --------------------------------
(***************************************************************************)
(* The OAuth facade of the gateway: the magic-token form, the login        *)
(* through Telegram with its administrator's approval, authorization codes *)
(* kept in the process, and the token endpoint with its rotating refresh   *)
(* tokens kept in Redis.  Time passes in units of the code's lifetime.     *)
(* What a request must contain (client, redirect URI, PKCE verifier) is    *)
(* abstracted to whether it does.                                          *)
(***************************************************************************)
EXTENDS Naturals, FiniteSets

CONSTANTS Forms,            \* submissions of the magic-token form
          Callbacks,        \* returns of a browser from Telegram
          Logins,           \* logins started, by their state parameter
          Exchanges,        \* requests to the token endpoint
          CodeTtl, LoginTtl, ApprovalTimeout, AttemptWindow, MaxAttempts,
          MaxClock,         \* bound on time
          MaxOAuthRestarts, \* bound on restarts
          NoGrant

Codes == Forms \cup Callbacks     \* a code, by the request that was given it

ASSUME OAuthAssumption ==
  /\ Forms \cap Callbacks = {} /\ Codes \cap Exchanges = {}
  /\ NoGrant \notin Codes \cup Exchanges \cup Logins
  /\ {CodeTtl, LoginTtl, ApprovalTimeout, AttemptWindow, MaxAttempts, MaxClock,
      MaxOAuthRestarts} \subseteq Nat
  /\ MaxAttempts > 0

VARIABLES
  clock,
  failedAttempts,   \* of one address: count and start of its window
  login, loginExpiresAt,
  callback,         \* how far a return from Telegram has come
  callbackOf, calledAt, approvalAt,
  code, codeExpiresAt,
  exchange,         \* how far a token request has come
  presented,        \* the code or the refresh token it shows
  refreshTokens,    \* stored refresh tokens, by the request they answered
  oauthRestarts

logins == <<login, loginExpiresAt>>
callbacks == <<callback, callbackOf, calledAt, approvalAt>>
codes == <<code, codeExpiresAt>>
requests == <<exchange, presented>>
oauthVars == <<clock, failedAttempts, logins, callbacks, codes, requests,
               refreshTokens, oauthRestarts>>

Times == 0..(MaxClock + CodeTtl + LoginTtl)
CallbackStates == {"idle", "verifying", "approving", "done"}
ExchangeStates ==
  {"idle", "issuing", "reading", "deleting", "creating", "answered", "refused", "error"}

(* The type of the state; an address never has more failures on record than  *)
(* the limit, whatever the window does.                                      *)
OAuthTypeOK ==
  /\ clock \in 0..MaxClock
  /\ failedAttempts \in [count : 0..MaxAttempts, since : 0..MaxClock]
  /\ login \in [Logins -> {"none", "pending", "gone"}]
  /\ loginExpiresAt \in [Logins -> Times]
  /\ callback \in [Callbacks -> CallbackStates]
  /\ callbackOf \in [Callbacks -> Logins \cup {NoGrant}]
  /\ calledAt \in [Callbacks -> 0..MaxClock]
  /\ approvalAt \in [Callbacks -> 0..MaxClock]
  /\ code \in [Codes -> {"none", "live", "gone"}]
  /\ codeExpiresAt \in [Codes -> Times]
  /\ exchange \in [Exchanges -> ExchangeStates]
  /\ presented \in [Exchanges -> Codes \cup Exchanges \cup {NoGrant}]
  /\ refreshTokens \subseteq Exchanges
  /\ oauthRestarts \in 0..MaxOAuthRestarts

OAuthInit ==
  /\ clock = 0
  /\ failedAttempts = [count |-> 0, since |-> 0]
  /\ login = [l \in Logins |-> "none"]
  /\ loginExpiresAt = [l \in Logins |-> 0]
  /\ callback = [k \in Callbacks |-> "idle"]
  /\ callbackOf = [k \in Callbacks |-> NoGrant]
  /\ calledAt = [k \in Callbacks |-> 0]
  /\ approvalAt = [k \in Callbacks |-> 0]
  /\ code = [g \in Codes |-> "none"]
  /\ codeExpiresAt = [g \in Codes |-> 0]
  /\ exchange = [x \in Exchanges |-> "idle"]
  /\ presented = [x \in Exchanges |-> NoGrant]
  /\ refreshTokens = {}
  /\ oauthRestarts = 0

tick ==
  /\ clock < MaxClock
  /\ clock' = clock + 1
  /\ UNCHANGED <<failedAttempts, logins, callbacks, codes, requests, refreshTokens,
                 oauthRestarts>>

-----------------------------------------------------------------------------
(* Authorization codes.                                                      *)

purgeExpiredCodes(now) ==
  [g \in Codes |-> IF code[g] = "live" /\ codeExpiresAt[g] <= now THEN "gone"
                   ELSE code[g]]

purgeExpiredTelegramLogins(now) ==
  [l \in Logins |-> IF login[l] = "pending" /\ loginExpiresAt[l] <= now THEN "gone"
                    ELSE login[l]]

issueCode(g, now) ==
  /\ code' = [purgeExpiredCodes(now) EXCEPT ![g] = "live"]
  /\ codeExpiresAt' = [codeExpiresAt EXCEPT ![g] = now + CodeTtl]

WindowOver == clock - failedAttempts.since >= AttemptWindow

isRateLimited == ~WindowOver /\ failedAttempts.count >= MaxAttempts

recordFailedAttempt ==
  IF WindowOver \/ failedAttempts.count = 0
  THEN [count |-> 1, since |-> clock]
  ELSE [failedAttempts EXCEPT !.count = @ + 1]

(* The form comes back with a token that is wrong, or right.                 *)
wrongMagicToken ==
  /\ ~isRateLimited
  /\ failedAttempts' = recordFailedAttempt
  /\ UNCHANGED <<clock, logins, callbacks, codes, requests, refreshTokens, oauthRestarts>>

rightMagicToken(f) ==
  /\ code[f] = "none" /\ ~isRateLimited
  /\ failedAttempts' = [count |-> 0, since |-> 0]
  /\ issueCode(f, clock)
  /\ UNCHANGED <<clock, logins, callbacks, requests, refreshTokens, oauthRestarts>>

telegramLogin(l) ==
  /\ login[l] = "none"
  /\ login' = [purgeExpiredTelegramLogins(clock) EXCEPT ![l] = "pending"]
  /\ loginExpiresAt' = [loginExpiresAt EXCEPT ![l] = clock + LoginTtl]
  /\ UNCHANGED <<clock, failedAttempts, callbacks, codes, requests, refreshTokens,
                 oauthRestarts>>

telegramCallback_consumesLater(k, l) ==
  /\ callback[k] = "idle" /\ login[l] # "none"
  /\ callback' = [callback EXCEPT ![k] =
       IF login[l] = "pending" /\ loginExpiresAt[l] > clock THEN "verifying" ELSE "done"]
  /\ callbackOf' = [callbackOf EXCEPT ![k] = l]
  /\ calledAt' = [calledAt EXCEPT ![k] = clock]
  /\ login' = purgeExpiredTelegramLogins(clock)
  /\ UNCHANGED <<clock, failedAttempts, loginExpiresAt, approvalAt, codes, requests,
                 refreshTokens, oauthRestarts>>

(* The browser is back, perhaps twice: the login is spent before anything is *)
(* awaited.                                                                  *)
telegramCallback(k, l) ==
  /\ callback[k] = "idle" /\ login[l] # "none"
  /\ callback' = [callback EXCEPT ![k] =
       IF login[l] = "pending" /\ loginExpiresAt[l] > clock THEN "verifying" ELSE "done"]
  /\ callbackOf' = [callbackOf EXCEPT ![k] = l]
  /\ calledAt' = [calledAt EXCEPT ![k] = clock]
  /\ login' = [purgeExpiredTelegramLogins(clock) EXCEPT ![l] = "gone"]
  /\ UNCHANGED <<clock, failedAttempts, loginExpiresAt, approvalAt, codes, requests,
                 refreshTokens, oauthRestarts>>

(* Telegram has confirmed who it is, and the administrator is asked.         *)
identityVerified(k) ==
  /\ callback[k] = "verifying"
  /\ callback' = [callback EXCEPT ![k] = "approving"]
  /\ approvalAt' = [approvalAt EXCEPT ![k] = clock]
  /\ UNCHANGED <<clock, failedAttempts, logins, callbackOf, calledAt, codes, requests,
                 refreshTokens, oauthRestarts>>

(* The identity is not confirmed, the administrator rejects or is silent.    *)
loginRefused(k) ==
  /\ callback[k] \in {"verifying", "approving"}
  /\ callback' = [callback EXCEPT ![k] = "done"]
  /\ UNCHANGED <<clock, failedAttempts, logins, callbackOf, calledAt, approvalAt, codes,
                 requests, refreshTokens, oauthRestarts>>

(* The administrator approves in time.  The code's lifetime is counted from  *)
(* the moment the browser came back.                                         *)
loginApproved(k) ==
  /\ callback[k] = "approving" /\ clock < approvalAt[k] + ApprovalTimeout
  /\ callback' = [callback EXCEPT ![k] = "done"]
  /\ issueCode(k, calledAt[k])
  /\ UNCHANGED <<clock, failedAttempts, logins, callbackOf, calledAt, approvalAt,
                 requests, refreshTokens, oauthRestarts>>

-----------------------------------------------------------------------------
(* The token endpoint.                                                       *)

Responded(x, state) == exchange' = [exchange EXCEPT ![x] = state]

(* A code is shown; if it is live and the request matches it, it is spent at *)
(* once and the refresh token is written.  A mismatch leaves it.             *)
exchangeCode(x, g, matches) ==
  /\ exchange[x] = "idle" /\ code[g] # "none"
  /\ presented' = [presented EXCEPT ![x] = g]
  /\ LET left == purgeExpiredCodes(clock)
     IN  IF left[g] = "live" /\ matches
         THEN Responded(x, "issuing") /\ code' = [left EXCEPT ![g] = "gone"]
         ELSE Responded(x, "refused") /\ code' = left
  /\ UNCHANGED <<clock, failedAttempts, logins, callbacks, codeExpiresAt,
                 refreshTokens, oauthRestarts>>

(* A refresh token that some answer carried is shown, for the first time or  *)
(* again.                                                                    *)
presentRefreshToken(x, t) ==
  /\ exchange[x] = "idle" /\ exchange[t] = "answered"
  /\ presented' = [presented EXCEPT ![x] = t]
  /\ Responded(x, "reading")
  /\ UNCHANGED <<clock, failedAttempts, logins, callbacks, codes, refreshTokens,
                 oauthRestarts>>

(* getRefreshToken, deleteRefreshToken and createRefreshToken are awaited    *)
(* one after the other.  A token shown by another client is left alone.      *)
(* Its own lifetime, of months, is longer than the time modelled.            *)
getRefreshToken(x, matches) ==
  /\ exchange[x] = "reading"
  /\ Responded(x, IF presented[x] \in refreshTokens /\ matches THEN "deleting" ELSE "refused")
  /\ UNCHANGED <<clock, failedAttempts, logins, callbacks, codes, presented,
                 refreshTokens, oauthRestarts>>

deleteRefreshToken(x) ==
  /\ exchange[x] = "deleting"
  /\ refreshTokens' = refreshTokens \ {presented[x]}
  /\ Responded(x, "creating")
  /\ UNCHANGED <<clock, failedAttempts, logins, callbacks, codes, presented,
                 oauthRestarts>>

issueRefreshToken(x) ==
  /\ exchange[x] \in {"issuing", "creating"}
  /\ refreshTokens' = refreshTokens \cup {x}
  /\ Responded(x, "answered")
  /\ UNCHANGED <<clock, failedAttempts, logins, callbacks, codes, presented,
                 oauthRestarts>>

(* Redis fails under a request: what it has spent stays spent.               *)
storeFails(x) ==
  /\ exchange[x] \in {"issuing", "reading", "deleting", "creating"}
  /\ Responded(x, "error")
  /\ UNCHANGED <<clock, failedAttempts, logins, callbacks, codes, presented,
                 refreshTokens, oauthRestarts>>

oauthRestart_volatile ==
  /\ oauthRestarts < MaxOAuthRestarts
  /\ oauthRestarts' = oauthRestarts + 1
  /\ failedAttempts' = [count |-> 0, since |-> 0]
  /\ login' = [l \in Logins |-> IF login[l] = "pending" THEN "gone" ELSE login[l]]
  /\ callback' = [k \in Callbacks |-> IF callback[k] = "idle" THEN "idle" ELSE "done"]
  /\ code' = [g \in Codes |-> IF code[g] = "live" THEN "gone" ELSE code[g]]
  /\ exchange' = [x \in Exchanges |->
       IF exchange[x] \in {"idle", "answered", "refused"} THEN exchange[x] ELSE "error"]
  /\ refreshTokens' = {}
  /\ UNCHANGED <<clock, loginExpiresAt, callbackOf, calledAt, approvalAt, codeExpiresAt,
                 presented>>

(* The gateway restarts: only Redis remembers.                               *)
oauthRestart ==
  /\ oauthRestarts < MaxOAuthRestarts
  /\ oauthRestarts' = oauthRestarts + 1
  /\ failedAttempts' = [count |-> 0, since |-> 0]
  /\ login' = [l \in Logins |-> IF login[l] = "pending" THEN "gone" ELSE login[l]]
  /\ callback' = [k \in Callbacks |-> IF callback[k] = "idle" THEN "idle" ELSE "done"]
  /\ code' = [g \in Codes |-> IF code[g] = "live" THEN "gone" ELSE code[g]]
  /\ exchange' = [x \in Exchanges |->
       IF exchange[x] \in {"idle", "answered", "refused"} THEN exchange[x] ELSE "error"]
  /\ UNCHANGED <<clock, loginExpiresAt, callbackOf, calledAt, approvalAt, codeExpiresAt,
                 presented, refreshTokens>>

-----------------------------------------------------------------------------
OAuthNext ==
  \/ tick \/ wrongMagicToken \/ oauthRestart
  \/ \E f \in Forms : rightMagicToken(f)
  \/ \E l \in Logins : telegramLogin(l) \/ \E k \in Callbacks : telegramCallback(k, l)
  \/ \E k \in Callbacks : identityVerified(k) \/ loginRefused(k) \/ loginApproved(k)
  \/ \E x \in Exchanges :
       \/ \E g \in Codes, matches \in BOOLEAN : exchangeCode(x, g, matches)
       \/ \E t \in Exchanges : presentRefreshToken(x, t)
       \/ \E matches \in BOOLEAN : getRefreshToken(x, matches)
       \/ deleteRefreshToken(x) \/ issueRefreshToken(x) \/ storeFails(x)

OAuthSpec == OAuthInit /\ [][OAuthNext]_oauthVars

-----------------------------------------------------------------------------
(* Properties.                                                             *)

(* Requests that were let past the check of their code or token.             *)
Granted == {x \in Exchanges : exchange[x] \in {"issuing", "answered"}}

(* A login gives one code at most and a code one answer, whatever requests   *)
(* overlap, are repeated, or fail half-way.                                  *)
GrantSpentOnce ==
  /\ \A j, k \in Callbacks :
       callbackOf[j] = callbackOf[k] /\ code[j] # "none" /\ code[k] # "none" => j = k
  /\ \A x, y \in Granted : presented[x] = presented[y] /\ presented[x] \in Codes => x = y

(* A refresh token that was answered is good until somebody shows it, over   *)
(* restarts, failures of other requests and rotations of other tokens.       *)
HeldTokenIsGood ==
  \A t \in Exchanges :
    exchange[t] = "answered" /\ (\A x \in Exchanges : presented[x] # t)
      => t \in refreshTokens
=============================================================================
