---------------------------- MODULE FeishuToken ----------------------------
(***************************************************************************)
(* The Feishu client's credentials and its cached tenant access token.     *)
(* The report dispatcher and debug requests load the settings and then     *)
(* make calls; each call takes the token from the cache or asks Feishu for *)
(* one, and the cache's mutex is free while it asks.                       *)
(*                                                                         *)
(* Feishu is external: a token belongs to the app it was issued to and     *)
(* lives as long as the answer says, counted from when it was issued; the  *)
(* client counts from when the answer came.                                *)
(***************************************************************************)
EXTENDS DayEndClock

CONSTANTS
  Dispatchers,  \* who makes calls: the loop, and debug requests
  Apps,         \* Feishu's apps: [app, secret]
  Lives,        \* what Feishu answers as "expire"
  Timeout,      \* longest call, report_timeout_seconds
  Skew          \* tokenRefreshSkew

\* The settings page does not bound the timeout: 10 seconds unless changed,
\* where the skew is 30 minutes
ASSUME TokenAssumption ==
  /\ Timeout \in Nat
  /\ Skew \in Nat
  /\ Skew >= 3 * Timeout
  /\ \A life \in Lives : life \in Nat /\ life > 3 * Timeout

VARIABLES
  cache,        \* the client's cachedToken, its expiry, app and secret
  caller        \* what each dispatcher is doing

tokenVars == <<cache, caller>>

NoToken == [app |-> Blank, secret |-> Blank, expires |-> 0]

EmptyCache == [token |-> NoToken, app |-> Blank, secret |-> Blank, expires |-> 0]

NoCall == [pc |-> "idle", app |-> Blank, secret |-> Blank, since |-> 0,
           token |-> NoToken]

TokenInit ==
  /\ cache = EmptyCache
  /\ caller = [c \in Dispatchers |-> NoCall]

\* The longest a dispatcher is busy: creating a flow may take a second call,
\* with the same token, that asks for the flow's id
Longest(pc) == IF pc = "call" THEN 2 * Timeout ELSE Timeout

\* Time passes while calls are under way, but none outlasts its timeout
WithinTimeout ==
  \A c \in Dispatchers :
    caller[c].pc \in {"ask", "call"} => now < caller[c].since + Longest(caller[c].pc)

-----------------------------------------------------------------------------
\* What a dispatcher does next with the settings it has loaded
Busy(c, pc, since, token) ==
  [pc |-> pc, app |-> caller[c].app, secret |-> caller[c].secret,
   since |-> since, token |-> token]

\* loadDispatchSettings: one List gives the app and its secret together.
\* validateFeishuConfig ends the dispatch when either is missing
LoadSettings(c) ==
  /\ caller[c].pc = "idle"
  /\ {AppID, AppSecret} \subseteq DOMAIN settings
  /\ Blank \notin {settings[AppID], settings[AppSecret]}
  /\ caller' = [caller EXCEPT ![c] = [pc |-> "ready", app |-> settings[AppID],
                                      secret |-> settings[AppSecret],
                                      since |-> 0, token |-> NoToken]]
  /\ UNCHANGED cache

\* Mutant: the app and the secret are not compared
CacheHitAny(c) == cache.token # NoToken /\ now + Skew < cache.expires

\* Mutant: the token is used up to its last moment
CacheHitNoSkew(c) ==
  /\ cache.token # NoToken
  /\ now < cache.expires
  /\ cache.app = caller[c].app
  /\ cache.secret = caller[c].secret

CacheHit(c) ==
  /\ cache.token # NoToken
  /\ now + Skew < cache.expires
  /\ cache.app = caller[c].app
  /\ cache.secret = caller[c].secret

UseCachedToken(c) ==
  /\ caller[c].pc = "ready"
  /\ CacheHit(c)
  /\ caller' = [caller EXCEPT ![c] = Busy(c, "call", now, cache.token)]
  /\ UNCHANGED cache

\* Feishu issues a token to an app that gives its secret, at the earliest at
\* once; the answer may take until the timeout
AskForToken(c, life) ==
  /\ caller[c].pc = "ready"
  /\ ~CacheHit(c)
  /\ [app |-> caller[c].app, secret |-> caller[c].secret] \in Apps
  /\ caller' = [caller EXCEPT ![c] = Busy(c, "ask", now,
                [app |-> caller[c].app, secret |-> caller[c].secret,
                 expires |-> now + life])]
  /\ UNCHANGED cache

\* The life Feishu answers, counted from when the answer arrives
ExpiresAt(c) == now + (caller[c].token.expires - caller[c].since)

StoreToken(c) ==
  /\ caller[c].pc = "ask"
  /\ cache' = [token |-> caller[c].token, app |-> caller[c].app,
               secret |-> caller[c].secret, expires |-> ExpiresAt(c)]
  /\ caller' = [caller EXCEPT ![c] = Busy(c, "call", now, caller[c].token)]

\* The call is answered, or it or the one for the token fails; another may
\* follow with the settings as they were loaded
EndCall(c) ==
  /\ caller[c].pc \in {"ask", "call"}
  /\ caller' = [caller EXCEPT ![c] = Busy(c, "ready", 0, NoToken)]
  /\ UNCHANGED cache

EndDispatch(c) ==
  /\ caller[c].pc = "ready"
  /\ caller' = [caller EXCEPT ![c] = NoCall]
  /\ UNCHANGED cache

DispatchStep(c) ==
  \/ LoadSettings(c)
  \/ UseCachedToken(c)
  \/ \E life \in Lives : AskForToken(c, life)
  \/ StoreToken(c)
  \/ EndCall(c) \/ EndDispatch(c)

-----------------------------------------------------------------------------
TokenTypeOK ==
  /\ cache.expires \in Nat /\ cache.token.expires \in Nat
  /\ \A c \in Dispatchers :
       /\ caller[c].pc \in {"idle", "ready", "ask", "call"}
       /\ caller[c].since \in 0..now
       /\ caller[c].token.expires \in Nat

InUse(c) == caller[c].pc = "call"

\* A call is made with a token of the app it is made for, though the settings
\* may have changed since, and another dispatcher have replaced the cache by
\* another app's token
TokenFits ==
  \A c \in Dispatchers :
    InUse(c) => /\ caller[c].token.app = caller[c].app
                /\ caller[c].token.secret = caller[c].secret

\* Whoever dispatches has the app and the secret of one app of Feishu, as long
\* as requests that change the one change the other: he loads them between two
\* rows of a request, or after one that failed, and does not mix two requests
CredentialsOfOneApp ==
  \A c \in Dispatchers :
    caller[c].pc # "idle" =>
      [app |-> caller[c].app, secret |-> caller[c].secret] \in Apps

\* No token dies while a call uses it, be its answer late, be it stored after
\* a younger one's, and be it needed for a second call
TokenAlive == \A c \in Dispatchers : InUse(c) => now < caller[c].token.expires
=============================================================================
