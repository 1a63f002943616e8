------------------------------ MODULE AuthSessions ------------------------------
(***************************************************************************)
(* Sign-in sessions of the v1 API: app/api/v1/auth.py (login with its      *)
(* attempt window, refresh with rotation, logout) and app/core/auth.py     *)
(* (token registry, get_current_user).  Tokens are signed and live outside *)
(* the server; what the server remembers of them, the revoked identifiers  *)
(* and the users marked inactive, is in memory and lost on a restart.      *)
(* Endpoints are synchronous and run on a thread pool: refresh is split at *)
(* its database reads.                                                     *)
(***************************************************************************)
EXTENDS Integers, Sequences

CONSTANTS
    Members,        \* users, all of one tenant
    MaxPairs,       \* bound: token pairs issued
    MaxAttempts,    \* failed logins that close the window (_MAX_ATTEMPTS)
    MaxRestarts     \* bound: restarts of the process

VARIABLES
    accounts,       \* per user: may sign in (UserRecord.is_active)
    tenantOn,       \* the tenant is active
    pairs,          \* token pairs issued, in order: their user and the login they descend from
    registry,       \* TokenRegistry: revoked token ids and inactive users
    failures,       \* failed logins per user still inside the window
    refreshing,     \* pairs whose refresh has been decoded and not yet rotated
    signedOut,      \* history: users who logged out and have not signed in since
    restarts        \* restarts so far

authVars == <<accounts, tenantOn, pairs, registry, failures, refreshing, signedOut, restarts>>

Access(k) == <<"access", k>>
Refresh(k) == <<"refresh", k>>
EmptyRegistry == [revoked |-> {}, inactive |-> {}]
Issued == DOMAIN pairs

AuthInit ==
    /\ accounts = [u \in Members |-> TRUE]
    /\ tenantOn = TRUE
    /\ pairs = <<>>
    /\ registry = EmptyRegistry
    /\ failures = [u \in Members |-> 0]
    /\ refreshing = {}
    /\ signedOut = {}
    /\ restarts = 0

(* issue_tokens: a new pair, and the user is active again.                 *)
Issue(u, revoked) ==
    /\ Len(pairs) < MaxPairs
    /\ pairs' = Append(pairs, u)
    /\ registry' = [revoked |-> registry.revoked \cup revoked,
                    inactive |-> registry.inactive \ {u}]
    /\ signedOut' = signedOut \ {u}

(* _check_rate_limit precedes the password check: even the right password  *)
(* is turned away while the window is full.                                *)
LoginFails(u) ==
    /\ failures[u] < MaxAttempts
    /\ failures' = [failures EXCEPT ![u] = @ + 1]
    /\ UNCHANGED <<accounts, tenantOn, pairs, registry, refreshing, signedOut, restarts>>

Login(u) ==
    /\ failures[u] < MaxAttempts
    /\ accounts[u] /\ tenantOn
    /\ Issue(u, {})
    /\ UNCHANGED <<accounts, tenantOn, failures, refreshing, restarts>>

WindowPasses(u) ==
    /\ failures[u] > 0
    /\ failures' = [failures EXCEPT ![u] = 0]
    /\ UNCHANGED <<accounts, tenantOn, pairs, registry, refreshing, signedOut, restarts>>

(* decode_refresh_token: a revoked token is refused.                       *)
DecodeRefresh(k) ==
    /\ k \in Issued
    /\ Refresh(k) \notin registry.revoked
    /\ refreshing' = refreshing \cup {k}
    /\ UNCHANGED <<accounts, tenantOn, pairs, registry, failures, signedOut, restarts>>

(* The rest of refresh_token: the user and the tenant are read, the old    *)
(* refresh token is revoked and a new pair issued.                         *)
Rotate(k) ==
    /\ k \in refreshing
    /\ accounts[pairs[k]] /\ tenantOn
    /\ Issue(pairs[k], {Refresh(k)})
    /\ refreshing' = refreshing \ {k}
    /\ UNCHANGED <<accounts, tenantOn, failures, restarts>>

RefreshRefused(k) ==
    /\ k \in refreshing
    /\ ~(accounts[pairs[k]] /\ tenantOn)
    /\ refreshing' = refreshing \ {k}
    /\ UNCHANGED <<accounts, tenantOn, pairs, registry, failures, signedOut, restarts>>

(* logout: the refresh token, revoked or not, ends every session of its    *)
(* user; bearer is the set of access tokens the request carries: none or   *)
(* one, of the same client.                                                *)
\* Mutant: only the tokens of the request are revoked.
LogoutOfTokens(k, bearer) ==
    /\ k \in Issued
    /\ registry' = [registry EXCEPT !.revoked = @ \cup {Refresh(k)} \cup bearer]
    /\ signedOut' = signedOut \cup {pairs[k]}
    /\ UNCHANGED <<accounts, tenantOn, pairs, failures, refreshing, restarts>>

Logout(k, bearer) ==
    /\ k \in Issued
    /\ registry' = [revoked |-> registry.revoked \cup {Refresh(k)} \cup bearer,
                    inactive |-> registry.inactive \cup {pairs[k]}]
    /\ signedOut' = signedOut \cup {pairs[k]}
    /\ UNCHANGED <<accounts, tenantOn, pairs, failures, refreshing, restarts>>

(* The administration endpoints switch users and the tenant on and off.    *)
SwitchUser(u) ==
    /\ accounts' = [accounts EXCEPT ![u] = ~@]
    /\ UNCHANGED <<tenantOn, pairs, registry, failures, refreshing, signedOut, restarts>>

SwitchTenant ==
    /\ tenantOn' = ~tenantOn
    /\ UNCHANGED <<accounts, pairs, registry, failures, refreshing, signedOut, restarts>>

Restart ==
    /\ restarts < MaxRestarts
    /\ restarts' = restarts + 1
    /\ registry' = EmptyRegistry
    /\ failures' = [u \in Members |-> 0]
    /\ refreshing' = {}
    /\ signedOut' = {}
    /\ UNCHANGED <<accounts, tenantOn, pairs>>

AuthNext ==
    \/ \E u \in Members : LoginFails(u) \/ Login(u) \/ WindowPasses(u) \/ SwitchUser(u)
    \/ \E k \in Issued : DecodeRefresh(k) \/ Rotate(k) \/ RefreshRefused(k)
    \/ \E k \in Issued : \E bearer \in {{}, {Access(k)}} : Logout(k, bearer)
    \/ SwitchTenant
    \/ Restart

(* get_current_user: whether a request with this access token is served.   *)
Served(k) ==
    /\ Access(k) \notin registry.revoked
    /\ accounts[pairs[k]]
    /\ pairs[k] \notin registry.inactive
    /\ tenantOn

--------------------------------------------------------------------------------
(* Within one life of the process: after a user logs out, no session of    *)
(* that user is served on any device until the user signs in or refreshes  *)
(* again: logout, refresh_token and get_current_user.                      *)
LogoutEndsSessions == \A k \in Issued : pairs[k] \in signedOut => ~Served(k)
================================================================================
