----------------------------- MODULE AuthTokens -----------------------------
(***************************************************************************)
(* Access and refresh tokens of one user: login, rotation, logout, the     *)
(* blacklist in memory, the rate limiter that every other request passes,  *)
(* and the apps' HTTP client, which renews once when it is answered 401.   *)
(*                                                                         *)
(* Tokens are issued in pairs: pair n is an access and a refresh token of  *)
(* the same time.  The calls of an app run side by side and share its      *)
(* stored tokens.  A coroutine only waits at the lookup of the user: the   *)
(* locks of the blacklist and of the limiter are never held at an await.   *)
(***************************************************************************)
EXTENDS Naturals, Sequences, FiniteSets

CONSTANTS
  Apps,          \* devices the user is signed in on
  Calls,         \* calls that can be under way at once
  AccessTTL, RefreshTTL,
  Window,        \* of the limiter (60 s)
  Limit,         \* requests per window
  MaxPairs, MaxTime

ASSUME TimesAssumption ==
  /\ AccessTTL \in Nat /\ RefreshTTL \in Nat /\ Window \in Nat
  /\ Limit \in Nat /\ MaxPairs \in Nat /\ MaxTime \in Nat

VARIABLES
  now,
  issued,        \* how many pairs exist, numbered from 1
  iat,           \* [pair -> when it was issued]
  revoked,       \* <<"access" or "refresh", pair>> in the blacklist
  registered,    \* pairs whose refresh token the blacklist would revoke at logout
  stamps,        \* the limiter's deque: <<number, time>> of the requests it remembers
  app,           \* [Apps -> the pairs of its stored tokens, 0: none]
  call,          \* [Calls -> a call of an app and the request that serves it]
  passed,        \* history: times of the requests the limiter let pass, in order
  dead,          \* history: pairs of this process renewed, or issued before a logout
  boot           \* history: pairs issued before the process started

blacklist == <<revoked, registered>>
authVars == <<now, issued, iat, blacklist, stamps, app, call, passed, dead, boot>>

Pairs == 1 .. MaxPairs
Times == 0 .. MaxTime

CallLabels == {"idle", "login", "saving", "arrive", "limiter", "serve", "leaving",
               "renewal", "renew", "renewed"}

NoCall == [pc |-> "idle", app |-> "none", kind |-> "work", token |-> 0,
           refresh |-> 0, retry |-> FALSE]

AuthInit ==
  /\ now = 0
  /\ issued = 0 /\ iat = [n \in Pairs |-> 0]
  /\ revoked = {} /\ registered = {}
  /\ stamps = {}
  /\ app = [a \in Apps |-> [access |-> 0, refresh |-> 0]]
  /\ call = [c \in Calls |-> NoCall]
  /\ passed = <<>>
  /\ dead = {} /\ boot = 0

CallAt(c, label) == call[c].pc = label
CallGoto(c, label) == call' = [call EXCEPT ![c].pc = label]
Back(c) == call' = [call EXCEPT ![c] = NoCall]

(* _decode: the token of a pair has not expired. *)
Fresh(kind, n) ==
  n # 0 /\ now < iat[n] + (IF kind = "access" THEN AccessTTL ELSE RefreshTTL)

Usable(kind, n) == Fresh(kind, n) /\ <<kind, n>> \notin revoked

(* A new pair; its refresh token is registered for the user. *)
Issue == issued' = issued + 1 /\ iat' = [iat EXCEPT ![issued + 1] = now]

-----------------------------------------------------------------------------
(* Logging in. *)

StartLogin(c, a) ==
  /\ CallAt(c, "idle") /\ app[a].access = 0
  /\ call' = [call EXCEPT ![c] = [NoCall EXCEPT !.pc = "login", !.app = a]]
  /\ UNCHANGED <<now, issued, iat, blacklist, stamps, app, passed, dead, boot>>

Login(c) ==
  /\ CallAt(c, "login")
  /\ \/ /\ issued < MaxPairs
        /\ Issue
        /\ registered' = registered \cup {issued + 1}
        /\ call' = [call EXCEPT ![c].pc = "saving", ![c].token = issued + 1]
     \/ Back(c) /\ UNCHANGED <<issued, iat, registered>>
  /\ UNCHANGED <<now, revoked, stamps, app, passed, dead, boot>>

(* The app saves both tokens, unless the audit entry or the answer is lost. *)
Saved(c) ==
  /\ CallAt(c, "saving")
  /\ \/ app' = [app EXCEPT ![call[c].app] =
                  [access |-> call[c].token, refresh |-> call[c].token]]
     \/ app' = app
  /\ Back(c)
  /\ UNCHANGED <<now, issued, iat, blacklist, stamps, passed, dead, boot>>

-----------------------------------------------------------------------------
(* A call with the stored access token. *)
StartCall(c, a, kind) ==
  /\ CallAt(c, "idle") /\ app[a].access # 0
  /\ call' = [call EXCEPT ![c] = [NoCall EXCEPT !.pc = "arrive", !.app = a, !.kind = kind,
                                              !.token = app[a].access]]
  /\ UNCHANGED <<now, issued, iat, blacklist, stamps, app, passed, dead, boot>>

(* The middleware limits whom it can name; the others are for the endpoint. *)
Arrive(c) ==
  /\ CallAt(c, "arrive")
  /\ IF Usable("access", call[c].token) THEN CallGoto(c, "limiter") ELSE CallGoto(c, "serve")
  /\ UNCHANGED <<now, issued, iat, blacklist, stamps, app, passed, dead, boot>>

(* The call is over for the app; after a logout it clears its tokens,      *)
(* whatever the answer.                                                    *)
Over(c) ==
  /\ Back(c)
  /\ app' = IF call[c].kind = "logout"
            THEN [app EXCEPT ![call[c].app] = [access |-> 0, refresh |-> 0]] ELSE app

InWindowStrict(t) == now < t + Window     \* mutation: a request a window old is forgotten

(* check: forget what has left the window, refuse at the limit, or count.  *)
InWindow(t) == now <= t + Window

CheckLimitOver(c) ==               \* mutation: one request over the limit
  /\ CallAt(c, "limiter")
  /\ LET kept == {s \in stamps : InWindow(s[2])}
     IN  IF Cardinality(kept) > Limit
         THEN stamps' = kept /\ Over(c) /\ UNCHANGED passed
         ELSE /\ stamps' = kept \cup {<<Len(passed) + 1, now>>}
              /\ passed' = Append(passed, now)
              /\ CallGoto(c, "serve")
              /\ UNCHANGED app
  /\ UNCHANGED <<now, issued, iat, blacklist, dead, boot>>

CheckLimit(c) ==
  /\ CallAt(c, "limiter")
  /\ LET kept == {s \in stamps : InWindow(s[2])}
     IN  IF Cardinality(kept) >= Limit
         THEN stamps' = kept /\ Over(c) /\ UNCHANGED passed
         ELSE /\ stamps' = kept \cup {<<Len(passed) + 1, now>>}
              /\ passed' = Append(passed, now)
              /\ CallGoto(c, "serve")
              /\ UNCHANGED app
  /\ UNCHANGED <<now, issued, iat, blacklist, dead, boot>>

(* 401: the client renews, once, if it holds a refresh token. *)
Unauthorized(c) ==
  LET held == app[call[c].app].refresh
  IN  IF ~call[c].retry /\ held # 0
      THEN call' = [call EXCEPT ![c].pc = "renewal", ![c].refresh = held] /\ app' = app
      ELSE Over(c)

(* A user who is blocked or gone is answered 401 with a usable token too. *)
Work(c) ==
  /\ CallAt(c, "serve") /\ call[c].kind = "work"
  /\ \/ Usable("access", call[c].token) /\ Over(c)
     \/ Unauthorized(c)
  /\ UNCHANGED <<now, issued, iat, blacklist, stamps, passed, dead, boot>>

(* Any unexpired access token will do: the blacklist is not asked. *)
Logout(c) ==
  /\ CallAt(c, "serve") /\ call[c].kind = "logout"
  /\ IF Fresh("access", call[c].token)
     THEN /\ revoked' = revoked \cup {<<"access", call[c].token>>}
                                \cup {<<"refresh", n>> : n \in registered}
          /\ registered' = {}
          /\ dead' = dead \cup (boot + 1) .. issued
          /\ CallGoto(c, "leaving") /\ UNCHANGED app
     ELSE Unauthorized(c) /\ UNCHANGED <<blacklist, dead, boot>>
  /\ UNCHANGED <<now, issued, iat, stamps, passed, boot>>

Left(c) ==
  /\ CallAt(c, "leaving")
  /\ Over(c)
  /\ UNCHANGED <<now, issued, iat, blacklist, stamps, passed, dead, boot>>

-----------------------------------------------------------------------------
(* Renewal: the refresh token is checked, the user is looked up, and then  *)
(* the token is revoked and a new pair issued.                             *)
Discard(c) == app' = [app EXCEPT ![call[c].app] = [access |-> 0, refresh |-> 0]]

CheckRefresh(c) ==
  /\ CallAt(c, "renewal")
  /\ IF Usable("refresh", call[c].refresh)
     THEN CallGoto(c, "renew") /\ UNCHANGED app
     ELSE Back(c) /\ Discard(c)
  /\ UNCHANGED <<now, issued, iat, blacklist, stamps, passed, dead, boot>>

RenewUnregistered(c) ==            \* mutation: no register_refresh for the new token
  /\ CallAt(c, "renew")
  /\ issued < MaxPairs
  /\ Issue
  /\ revoked' = revoked \cup {<<"refresh", call[c].refresh>>}
  /\ dead' = dead \cup {call[c].refresh}
  /\ call' = [call EXCEPT ![c].pc = "renewed", ![c].token = issued + 1]
  /\ UNCHANGED <<now, registered, stamps, app, passed, boot>>

Renew(c) ==
  /\ CallAt(c, "renew")
  /\ issued < MaxPairs
  /\ Issue
  /\ revoked' = revoked \cup {<<"refresh", call[c].refresh>>}
  /\ registered' = registered \cup {issued + 1}
  /\ dead' = dead \cup {call[c].refresh}
  /\ call' = [call EXCEPT ![c].pc = "renewed", ![c].token = issued + 1]
  /\ UNCHANGED <<now, stamps, app, passed, boot>>

(* The user is blocked or gone: refused, and the app forgets its tokens. *)
RefuseRenewal(c) ==
  /\ CallAt(c, "renew")
  /\ Back(c) /\ Discard(c)
  /\ UNCHANGED <<now, issued, iat, blacklist, stamps, passed, dead, boot>>

(* The app keeps the new access token, not the new refresh token, and      *)
(* repeats the call; a lost answer leaves the tokens as they were.         *)
Renewed(c) ==
  /\ CallAt(c, "renewed")
  /\ \/ /\ app' = [app EXCEPT ![call[c].app].access = call[c].token]
        /\ call' = [call EXCEPT ![c].pc = "arrive", ![c].refresh = 0, ![c].retry = TRUE]
     \/ Over(c)
  /\ UNCHANGED <<now, issued, iat, blacklist, stamps, passed, dead, boot>>

-----------------------------------------------------------------------------
Tick ==
  /\ now < MaxTime
  /\ now' = now + 1
  /\ UNCHANGED <<issued, iat, blacklist, stamps, app, call, passed, dead, boot>>

(* Blacklist and limiter are lost with the process, and so are the calls:  *)
(* for the client an error of the network, which ends a call.              *)
Restart ==
  /\ revoked' = {} /\ registered' = {}
  /\ stamps' = {} /\ passed' = <<>>
  /\ dead' = {} /\ boot' = issued
  /\ call' = [c \in Calls |-> NoCall]
  /\ app' = [a \in Apps |->
               IF \E c \in Calls : ~CallAt(c, "idle") /\ call[c].app = a /\ call[c].kind = "logout"
               THEN [access |-> 0, refresh |-> 0] ELSE app[a]]
  /\ UNCHANGED <<now, issued, iat>>

AuthNext ==
  \/ \E c \in Calls :
       \/ \E a \in Apps : StartLogin(c, a) \/ (\E k \in {"work", "logout"} : StartCall(c, a, k))
       \/ Login(c) \/ Saved(c)
       \/ Arrive(c) \/ CheckLimit(c) \/ Work(c) \/ Logout(c) \/ Left(c)
       \/ CheckRefresh(c) \/ Renew(c) \/ RefuseRenewal(c) \/ Renewed(c)
  \/ Tick
  \/ Restart

AuthSpec == AuthInit /\ [][AuthNext]_authVars

-----------------------------------------------------------------------------
AuthTypeOK ==
  /\ now \in Times /\ issued \in 0 .. MaxPairs /\ iat \in [Pairs -> 0 .. now]
  /\ revoked \subseteq {"access", "refresh"} \X (1 .. issued)
  /\ registered \subseteq 1 .. issued
  /\ passed \in Seq(Times)
  /\ stamps \subseteq {<<k, passed[k]>> : k \in DOMAIN passed} /\ Cardinality(stamps) <= Limit
  /\ app \in [Apps -> [access : 0 .. issued, refresh : 0 .. issued]]
  /\ call \in [Calls -> [pc : CallLabels, app : Apps \cup {"none"}, kind : {"work", "logout"},
                         token : 0 .. issued, refresh : 0 .. issued, retry : BOOLEAN]]
  /\ boot \in 0 .. issued /\ dead \subseteq 1 .. issued

(* A refresh token that was renewed, or was issued before a logout, is     *)
(* refused from then on: also those issued by renewals the logging out app *)
(* knows nothing of.  A restart forgets what was revoked, and at logout    *)
(* the tokens issued before it are not found.                              *)
DeadStaysDead == \A n \in dead : <<"refresh", n>> \in revoked

(* In no window were more requests let pass than the limit.                *)
WithinLimit ==
  \A t \in Times :
    Cardinality({k \in DOMAIN passed : passed[k] <= t /\ t <= passed[k] + Window}) <= Limit
=============================================================================
