--------------------------- MODULE OAuthConnection ---------------------------
(***************************************************************************)
(* The connection of each mail and calendar provider: an authorization     *)
(* session per login, one stored credential per provider, and the clients  *)
(* that ask for an access token of the connection they were reviewed for.  *)
(*                                                                         *)
(* Every handler runs in a thread of its own with its own database         *)
(* session: it reads, talks to the provider, and writes.  A login stores   *)
(* its tokens under a new reference, so a login names its connection.      *)
(***************************************************************************)
EXTENDS Naturals, FiniteSets

CONSTANTS
    Provider,
    Login,          \* authorization attempts: state, code, credential reference
    ProviderOf,     \* the provider of each login
    Callback,       \* deliveries of the loopback redirect, duplicates included
    Revoker,        \* requests to revoke an access
    Client,         \* callers that need an access token
    Revocable,      \* providers with a revocation endpoint
    MaxRefusals,    \* bound: refused or lost provider and database calls
    Nothing

ASSUME ConnectionAssumption ==
    /\ ProviderOf \in [Login -> Provider]
    /\ Revocable \subseteq Provider
    /\ MaxRefusals \in Nat
    /\ Nothing \notin Login /\ Nothing \notin Provider

VARIABLES
    session,    \* oauth_authorization_sessions: the row of each login
    credential, \* oauth_credentials: the connection of each provider
    stale,      \* its access token is about to expire
    retired,    \* ghost: connections that were stored and are no more
    redeemed,   \* logins whose code the provider exchanged
    grants,     \* connections the provider honours
    callback, revoker, access,
    refusals

stored == <<session, credential, stale, retired>>
remotely == <<redeemed, grants>>
connection == <<stored, remotely, callback, revoker, access, refusals>>

Session == {"none", "pending", "consumed", "replaced"}
Idle == [at |-> "idle", of |-> Nothing]
CallbackState == [at : {"idle", "read", "exchange", "save"}, of : Login \cup {Nothing}]
RevokerState == [at : {"idle", "post", "delete", "done", "refused"},
                 of : Login \cup {Nothing}]
AccessState == [at : {"idle", "refresh", "swap", "token", "denied"},
                of : Login \cup {Nothing}]

ConnectionInit ==
    /\ session = [f \in Login |-> "none"]
    /\ credential = [p \in Provider |-> Nothing]
    /\ stale = [p \in Provider |-> FALSE]
    /\ retired = {} /\ redeemed = {} /\ grants = {}
    /\ callback = [c \in Callback |-> Idle]
    /\ revoker = [v \in Revoker |-> Idle]
    /\ access = [c \in Client |-> Idle]
    /\ refusals = 0

Refusal == refusals < MaxRefusals /\ refusals' = refusals + 1

\* The provider's credential row is replaced by f, or removed.
Store(p, f) ==
    /\ credential' = [credential EXCEPT ![p] = f]
    /\ stale' = [stale EXCEPT ![p] = FALSE]
    /\ retired' = retired \cup ({credential[p]} \ {f, Nothing})

-----------------------------------------------------------------------------
(* Login: start and the loopback callback *)

\* save_authorization_session: a new state replaces the provider's others.
Start(f) ==
    /\ session[f] = "none"
    /\ session' = [g \in Login |->
         IF g = f THEN "pending"
         ELSE IF ProviderOf[g] = ProviderOf[f] /\ session[g] # "none"
              THEN "replaced" ELSE session[g]]
    /\ UNCHANGED <<credential, stale, retired, remotely, callback, revoker,
                   access, refusals>>

CallbackTo(c, at, f) == callback' = [callback EXCEPT ![c] = [at |-> at, of |-> f]]
CallbackEnds(c) == callback' = [callback EXCEPT ![c] = Idle]

\* consume_authorization_session reads an unconsumed row ...
ReceiveCallback(c, f) ==
    /\ callback[c].at = "idle" /\ session[f] = "pending"
    /\ CallbackTo(c, "read", f)
    /\ UNCHANGED <<stored, remotely, revoker, access, refusals>>

\* ... and marks it; the update of a row that was replaced fails.
MarkConsumed(c) ==
    /\ callback[c].at = "read"
    /\ LET f == callback[c].of IN
         \/ /\ session[f] \in {"pending", "consumed"}
            /\ session' = [session EXCEPT ![f] = "consumed"]
            /\ CallbackTo(c, "exchange", f)
         \/ /\ session[f] = "replaced"
            /\ CallbackEnds(c)
            /\ UNCHANGED session
    /\ UNCHANGED <<credential, stale, retired, remotely, revoker, access, refusals>>

\* The provider exchanges a code once.
ExchangeCode(c) ==
    /\ callback[c].at = "exchange" /\ callback[c].of \notin redeemed
    /\ redeemed' = redeemed \cup {callback[c].of}
    /\ grants' = grants \cup {callback[c].of}
    /\ \/ CallbackTo(c, "save", callback[c].of) /\ UNCHANGED refusals
       \/ CallbackEnds(c) /\ Refusal
    /\ UNCHANGED <<stored, revoker, access>>

ExchangeRefused(c) ==
    /\ callback[c].at = "exchange"
    /\ \/ callback[c].of \in redeemed /\ UNCHANGED refusals
       \/ Refusal
    /\ CallbackEnds(c)
    /\ UNCHANGED <<stored, remotely, revoker, access>>

SaveTokens(c) ==
    /\ callback[c].at = "save"
    /\ Store(ProviderOf[callback[c].of], callback[c].of)
    /\ CallbackEnds(c)
    /\ UNCHANGED <<session, remotely, revoker, access, refusals>>

SaveFails(c) ==
    /\ callback[c].at = "save" /\ Refusal
    /\ CallbackEnds(c)
    /\ UNCHANGED <<stored, remotely, revoker, access>>

-----------------------------------------------------------------------------
(* Revocation *)

RevokerTo(v, at, f) == revoker' = [revoker EXCEPT ![v] = [at |-> at, of |-> f]]

\* Only a provider with an endpoint is told.
ReadForRevocation(v, p) ==
    /\ revoker[v].at = "idle" /\ credential[p] # Nothing
    /\ RevokerTo(v, IF p \in Revocable THEN "post" ELSE "delete", credential[p])
    /\ UNCHANGED <<stored, remotely, callback, access, refusals>>

PostRevocation(v) ==
    /\ revoker[v].at = "post" /\ revoker[v].of \in grants
    /\ grants' = grants \ {revoker[v].of}
    /\ RevokerTo(v, "delete", revoker[v].of)
    /\ UNCHANGED <<stored, redeemed, callback, access, refusals>>

\* The provider refuses, or its answer is lost.
RevocationRefused(v) ==
    /\ revoker[v].at = "post"
    /\ \/ revoker[v].of \notin grants /\ UNCHANGED <<grants, refusals>>
       \/ Refusal /\ grants' \in {grants, grants \ {revoker[v].of}}
    /\ RevokerTo(v, "refused", revoker[v].of)
    /\ UNCHANGED <<stored, redeemed, callback, access>>

\* Whatever connection the provider has by now is removed.
DeleteTokens(v) ==
    /\ revoker[v].at = "delete"
    /\ Store(ProviderOf[revoker[v].of], Nothing)
    /\ RevokerTo(v, "done", revoker[v].of)
    /\ UNCHANGED <<session, remotely, callback, access, refusals>>

RevokerReturns(v) ==
    /\ revoker[v].at \in {"done", "refused"}
    /\ revoker' = [revoker EXCEPT ![v] = Idle]
    /\ UNCHANGED <<stored, remotely, callback, access, refusals>>

-----------------------------------------------------------------------------
(* Access tokens of a reviewed connection *)

AccessTo(c, at, f) == access' = [access EXCEPT ![c] = [at |-> at, of |-> f]]
Current(f) == f # Nothing /\ credential[ProviderOf[f]] = f

\* access_token_bound: another connection is refused, a fresh token is used.
RequestToken(c, f) ==
    /\ access[c].at = "idle"
    /\ AccessTo(c, CASE ~Current(f) -> "denied"
                     [] Current(f) /\ stale[ProviderOf[f]] -> "refresh"
                     [] OTHER -> "token", f)
    /\ UNCHANGED <<stored, remotely, callback, revoker, refusals>>

PostRefresh(c) ==
    /\ access[c].at = "refresh" /\ access[c].of \in grants
    /\ AccessTo(c, "swap", access[c].of)
    /\ UNCHANGED <<stored, remotely, callback, revoker, refusals>>

RefreshRefused(c) ==
    /\ access[c].at = "refresh"
    /\ \/ access[c].of \notin grants /\ UNCHANGED refusals
       \/ Refusal
    /\ AccessTo(c, "denied", access[c].of)
    /\ UNCHANGED <<stored, remotely, callback, revoker>>

\* Mutant of SwapTokens: the refreshed tokens are stored unconditionally.
StoreRefreshed(c) ==
    /\ access[c].at = "swap"
    /\ Store(ProviderOf[access[c].of], access[c].of)
    /\ AccessTo(c, "token", access[c].of)
    /\ UNCHANGED <<session, remotely, callback, revoker, refusals>>

\* Mutant of SwapTokens: a connection that changed meanwhile is not an error.
SwapIgnoringLoss(c) ==
    /\ access[c].at = "swap"
    /\ LET p == ProviderOf[access[c].of] IN
         stale' = IF Current(access[c].of) THEN [stale EXCEPT ![p] = FALSE] ELSE stale
    /\ AccessTo(c, "token", access[c].of)
    /\ UNCHANGED <<session, credential, retired, remotely, callback, revoker, refusals>>

\* refresh_tokens_if_current: compare-and-set on the reference.
SwapTokens(c) ==
    /\ access[c].at = "swap"
    /\ LET f == access[c].of
       IN  \/ /\ Current(f)
              /\ stale' = [stale EXCEPT ![ProviderOf[f]] = FALSE]
              /\ AccessTo(c, "token", f)
           \/ ~Current(f) /\ AccessTo(c, "denied", f) /\ UNCHANGED stale
    /\ UNCHANGED <<session, credential, retired, remotely, callback, revoker, refusals>>

ReleaseToken(c) ==
    /\ access[c].at \in {"token", "denied"}
    /\ access' = [access EXCEPT ![c] = Idle]
    /\ UNCHANGED <<stored, remotely, callback, revoker, refusals>>

TokenAges(p) ==
    /\ credential[p] # Nothing /\ ~stale[p]
    /\ stale' = [stale EXCEPT ![p] = TRUE]
    /\ UNCHANGED <<session, credential, retired, remotely, callback, revoker,
                   access, refusals>>

-----------------------------------------------------------------------------
LoginStep(c) ==
    \/ \E f \in Login : ReceiveCallback(c, f)
    \/ MarkConsumed(c) \/ ExchangeCode(c) \/ ExchangeRefused(c)
    \/ SaveTokens(c) \/ SaveFails(c)

RevokeStep(v) ==
    \/ \E p \in Provider : ReadForRevocation(v, p)
    \/ PostRevocation(v) \/ RevocationRefused(v) \/ DeleteTokens(v)
    \/ RevokerReturns(v)

RefreshStep(c) == PostRefresh(c) \/ RefreshRefused(c) \/ SwapTokens(c)

\* What happens to a connection whatever its clients do.
ConnectionStep ==
    \/ \E f \in Login : Start(f)
    \/ \E c \in Callback : LoginStep(c)
    \/ \E v \in Revoker : RevokeStep(v)
    \/ \E p \in Provider : TokenAges(p)

ClientStep ==
    \E c \in Client :
        \/ \E f \in Login : session[f] # "none" /\ RequestToken(c, f)
        \/ RefreshStep(c) \/ ReleaseToken(c)

ConnectionNext == ConnectionStep \/ ClientStep

ConnectionSpec == ConnectionInit /\ [][ConnectionNext]_connection

-----------------------------------------------------------------------------
(* Properties *)

(* Every variable has its type: rows, grants and every actor. *)
ConnectionTypeOK ==
    /\ session \in [Login -> Session]
    /\ credential \in [Provider -> {f \in Login : session[f] \in {"consumed", "replaced"}}
                                    \cup {Nothing}]
    /\ stale \in [Provider -> BOOLEAN]
    /\ retired \subseteq Login /\ redeemed \subseteq Login /\ grants \subseteq redeemed
    /\ callback \in [Callback -> CallbackState]
    /\ revoker \in [Revoker -> RevokerState]
    /\ access \in [Client -> AccessState]
    /\ refusals \in 0..MaxRefusals

(* A connection that was revoked or replaced never comes back: neither a late
   refresh nor a second delivery of its callback stores its tokens again. *)
RetiredStaysRetired == \A p \in Provider : credential[p] \notin retired

(* A client obtains a token only while the connection it was reviewed for is
   the provider's connection; a refresh that lost the race yields nothing. *)
IssuesCurrent(c) ==
    access[c].at # "token" /\ access'[c].at = "token" =>
        credential[ProviderOf[access'[c].of]] = access'[c].of
TokenIsOfCurrentConnection == [][\A c \in Client : IssuesCurrent(c)]_connection

(* Revoking an access always deletes the local credential it was asked for. *)
RevocationDeletes ==
    \A v \in Revoker : \A f \in Login :
        revoker[v].of = f /\ revoker[v].at \in {"done", "refused"} => ~Current(f)

(* What the actors know, and why a connection cannot come back: a code is
   exchanged once, so only one callback holds its tokens, and while it does they
   were never stored. *)
ActorsConsistent ==
    /\ \A c \in Callback : callback[c].at # "idle" =>
         callback[c].of \in Login /\ session[callback[c].of] # "none"
    /\ \A c \in Callback : callback[c].at \in {"exchange", "save"} =>
         session[callback[c].of] \in {"consumed", "replaced"}
    /\ \A v \in Revoker : revoker[v].at # "idle" => revoker[v].of \in Login
    /\ \A c \in Client : access[c].at \in {"refresh", "swap", "token"} =>
         access[c].of \in Login

TokensHeldOnce ==
    /\ \A c \in Callback : callback[c].at = "save" =>
         /\ callback[c].of \in redeemed \ retired
         /\ \A p \in Provider : credential[p] # callback[c].of
    /\ \A b, c \in Callback :
         callback[b].at = "save" /\ callback[c].at = "save" /\ callback[b].of = callback[c].of
           => b = c
    /\ \A p \in Provider : credential[p] # Nothing =>
         credential[p] \in redeemed /\ ProviderOf[credential[p]] = p
    /\ retired \subseteq redeemed

ConnectionInductive ==
    ConnectionTypeOK /\ ActorsConsistent /\ TokensHeldOnce /\ RetiredStaysRetired
=============================================================================
