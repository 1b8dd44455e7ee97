---------------------- MODULE OutboundMutationsProofs ----------------------
(***************************************************************************)
(* What a stored connection holds is current, and what was retired stays   *)
(* retired: for any number of providers, logins, callbacks, revokers and   *)
(* clients and any number of lost calls.  On it, a reviewed draft or plan  *)
(* is attempted once, by the connection it was reviewed with, and its      *)
(* recorded outcome is true: for any number of drafts, keys, confirmations *)
(* and providers, and any number of deaths of the backend.                 *)
(***************************************************************************)
EXTENDS OutboundMutations, TLAPS

-----------------------------------------------------------------------------
(* The stored connections, by themselves. *)

(* Start preserves the inductive invariant. *)
LEMMA StartPreserves ==
    ASSUME ConnectionInductive, NEW f \in Login, Start(f)
    PROVE  ConnectionInductive'
<1> USE ConnectionAssumption DEF ConnectionInductive, Start, stored, remotely, Idle
<1>1. ConnectionTypeOK'
  BY
     DEF ConnectionTypeOK, ActorsConsistent, TokensHeldOnce, Session, CallbackState,
         RevokerState, AccessState
<1>2. ActorsConsistent'
  BY DEF ActorsConsistent, ConnectionTypeOK, Session, CallbackState, RevokerState, AccessState
<1>3. TokensHeldOnce'
  BY DEF TokensHeldOnce, ActorsConsistent, ConnectionTypeOK, RetiredStaysRetired, CallbackState
<1>4. RetiredStaysRetired'
  BY DEF RetiredStaysRetired, TokensHeldOnce, ActorsConsistent, ConnectionTypeOK, CallbackState
<1> QED BY <1>1, <1>2, <1>3, <1>4

(* ReceiveCallback preserves the inductive invariant. *)
LEMMA ReceiveCallbackPreserves ==
    ASSUME ConnectionInductive, NEW c \in Callback, NEW f \in Login, ReceiveCallback(c, f)
    PROVE  ConnectionInductive'
<1> USE ConnectionAssumption
   DEF ConnectionInductive, ReceiveCallback, CallbackTo, stored, remotely, Idle
<1>1. ConnectionTypeOK'
  BY
     DEF ConnectionTypeOK, ActorsConsistent, TokensHeldOnce, Session, CallbackState,
         RevokerState, AccessState
<1>2. ActorsConsistent'
  BY DEF ActorsConsistent, ConnectionTypeOK, Session, CallbackState, RevokerState, AccessState
<1>3. TokensHeldOnce'
  BY DEF TokensHeldOnce, ActorsConsistent, ConnectionTypeOK, RetiredStaysRetired, CallbackState
<1>4. RetiredStaysRetired'
  BY DEF RetiredStaysRetired, TokensHeldOnce, ActorsConsistent, ConnectionTypeOK, CallbackState
<1> QED BY <1>1, <1>2, <1>3, <1>4

(* MarkConsumed preserves the inductive invariant. *)
LEMMA MarkConsumedPreserves ==
    ASSUME ConnectionInductive, NEW c \in Callback, MarkConsumed(c)
    PROVE  ConnectionInductive'
<1> DEFINE f == callback[c].of
<1> USE ConnectionAssumption
   DEF ConnectionInductive, CallbackTo, CallbackEnds, stored, remotely, Idle
<1>1. /\ f \in Login /\ callback[c].at = "read"
      /\ UNCHANGED <<credential, stale, retired, redeemed, grants, revoker, access, refusals>>
  BY DEF MarkConsumed, ActorsConsistent
<1>2. CASE /\ session[f] \in {"pending", "consumed"}
           /\ session' = [session EXCEPT ![f] = "consumed"]
           /\ callback' = [callback EXCEPT ![c] = [at |-> "exchange", of |-> f]]
  <2> USE <1>1, <1>2
  <2> HIDE DEF f
  <2>1. ConnectionTypeOK'
    BY
       DEF ConnectionTypeOK, ActorsConsistent, TokensHeldOnce, Session, CallbackState,
           RevokerState, AccessState
  <2>2. ActorsConsistent'
    BY DEF ActorsConsistent, ConnectionTypeOK, Session, CallbackState, RevokerState, AccessState
  <2>3. TokensHeldOnce'
    BY
       DEF TokensHeldOnce, ActorsConsistent, ConnectionTypeOK, RetiredStaysRetired,
           CallbackState
  <2>4. RetiredStaysRetired'
    BY
       DEF RetiredStaysRetired, TokensHeldOnce, ActorsConsistent, ConnectionTypeOK,
           CallbackState
  <2> QED BY <2>1, <2>2, <2>3, <2>4
<1>3. CASE session' = session /\ callback' = [callback EXCEPT ![c] = Idle]
  <2> USE <1>1, <1>3
  <2> HIDE DEF f
  <2>1. ConnectionTypeOK'
    BY
       DEF ConnectionTypeOK, ActorsConsistent, TokensHeldOnce, Session, CallbackState,
           RevokerState, AccessState
  <2>2. ActorsConsistent'
    BY DEF ActorsConsistent, ConnectionTypeOK, Session, CallbackState, RevokerState, AccessState
  <2>3. TokensHeldOnce'
    BY
       DEF TokensHeldOnce, ActorsConsistent, ConnectionTypeOK, RetiredStaysRetired,
           CallbackState
  <2>4. RetiredStaysRetired'
    BY
       DEF RetiredStaysRetired, TokensHeldOnce, ActorsConsistent, ConnectionTypeOK,
           CallbackState
  <2> QED BY <2>1, <2>2, <2>3, <2>4
<1> QED BY <1>2, <1>3 DEF MarkConsumed

(* ExchangeCode preserves the inductive invariant. *)
LEMMA ExchangeCodePreserves ==
    ASSUME ConnectionInductive, NEW c \in Callback, ExchangeCode(c)
    PROVE  ConnectionInductive'
<1> DEFINE f == callback[c].of
<1> USE ConnectionAssumption
   DEF ConnectionInductive, CallbackTo, CallbackEnds, Refusal, stored, remotely, Idle
<1>1. /\ f \in Login /\ f \notin redeemed /\ callback[c].at = "exchange"
      /\ session[f] \in {"consumed", "replaced"}
      /\ redeemed' = redeemed \cup {f} /\ grants' = grants \cup {f}
      /\ UNCHANGED <<session, credential, stale, retired, revoker, access>>
      /\ refusals' \in 0..MaxRefusals
  BY DEF ExchangeCode, ActorsConsistent, ConnectionTypeOK
<1>2. CASE callback' = [callback EXCEPT ![c] = [at |-> "save", of |-> f]]
  <2> USE <1>1, <1>2
  <2> HIDE DEF f
  <2>1. ConnectionTypeOK'
    BY
       DEF ConnectionTypeOK, ActorsConsistent, TokensHeldOnce, Session, CallbackState,
           RevokerState, AccessState
  <2>2. ActorsConsistent'
    BY DEF ActorsConsistent, ConnectionTypeOK, Session, CallbackState, RevokerState, AccessState
  <2>3. TokensHeldOnce'
    BY
       DEF TokensHeldOnce, ActorsConsistent, ConnectionTypeOK, RetiredStaysRetired,
           CallbackState
  <2>4. RetiredStaysRetired'
    BY
       DEF RetiredStaysRetired, TokensHeldOnce, ActorsConsistent, ConnectionTypeOK,
           CallbackState
  <2> QED BY <2>1, <2>2, <2>3, <2>4
<1>3. CASE callback' = [callback EXCEPT ![c] = Idle]
  <2> USE <1>1, <1>3
  <2> HIDE DEF f
  <2>1. ConnectionTypeOK'
    BY
       DEF ConnectionTypeOK, ActorsConsistent, TokensHeldOnce, Session, CallbackState,
           RevokerState, AccessState
  <2>2. ActorsConsistent'
    BY DEF ActorsConsistent, ConnectionTypeOK, Session, CallbackState, RevokerState, AccessState
  <2>3. TokensHeldOnce'
    BY
       DEF TokensHeldOnce, ActorsConsistent, ConnectionTypeOK, RetiredStaysRetired,
           CallbackState
  <2>4. RetiredStaysRetired'
    BY
       DEF RetiredStaysRetired, TokensHeldOnce, ActorsConsistent, ConnectionTypeOK,
           CallbackState
  <2> QED BY <2>1, <2>2, <2>3, <2>4
<1> QED BY <1>2, <1>3 DEF ExchangeCode

(* ExchangeRefused preserves the inductive invariant. *)
LEMMA ExchangeRefusedPreserves ==
    ASSUME ConnectionInductive, NEW c \in Callback, ExchangeRefused(c)
    PROVE  ConnectionInductive'
<1> USE ConnectionAssumption
   DEF ConnectionInductive, ExchangeRefused, CallbackEnds, Refusal, stored, remotely, Idle
<1>1. ConnectionTypeOK'
  BY
     DEF ConnectionTypeOK, ActorsConsistent, TokensHeldOnce, Session, CallbackState,
         RevokerState, AccessState
<1>2. ActorsConsistent'
  BY DEF ActorsConsistent, ConnectionTypeOK, Session, CallbackState, RevokerState, AccessState
<1>3. TokensHeldOnce'
  BY DEF TokensHeldOnce, ActorsConsistent, ConnectionTypeOK, RetiredStaysRetired, CallbackState
<1>4. RetiredStaysRetired'
  BY DEF RetiredStaysRetired, TokensHeldOnce, ActorsConsistent, ConnectionTypeOK, CallbackState
<1> QED BY <1>1, <1>2, <1>3, <1>4

(* SaveTokens preserves the inductive invariant. *)
LEMMA SaveTokensPreserves ==
    ASSUME ConnectionInductive, NEW c \in Callback, SaveTokens(c)
    PROVE  ConnectionInductive'
<1> USE ConnectionAssumption
   DEF ConnectionInductive, SaveTokens, CallbackEnds, Store, stored, remotely, Idle
<1>1. ConnectionTypeOK'
  BY
     DEF ConnectionTypeOK, ActorsConsistent, TokensHeldOnce, Session, CallbackState,
         RevokerState, AccessState
<1>2. ActorsConsistent'
  BY DEF ActorsConsistent, ConnectionTypeOK, Session, CallbackState, RevokerState, AccessState
<1>3. TokensHeldOnce'
  BY DEF TokensHeldOnce, ActorsConsistent, ConnectionTypeOK, RetiredStaysRetired, CallbackState
<1>4. RetiredStaysRetired'
  BY DEF RetiredStaysRetired, TokensHeldOnce, ActorsConsistent, ConnectionTypeOK, CallbackState
<1> QED BY <1>1, <1>2, <1>3, <1>4

(* SaveFails preserves the inductive invariant. *)
LEMMA SaveFailsPreserves ==
    ASSUME ConnectionInductive, NEW c \in Callback, SaveFails(c)
    PROVE  ConnectionInductive'
<1> USE ConnectionAssumption
   DEF ConnectionInductive, SaveFails, CallbackEnds, Refusal, stored, remotely, Idle
<1>1. ConnectionTypeOK'
  BY
     DEF ConnectionTypeOK, ActorsConsistent, TokensHeldOnce, Session, CallbackState,
         RevokerState, AccessState
<1>2. ActorsConsistent'
  BY DEF ActorsConsistent, ConnectionTypeOK, Session, CallbackState, RevokerState, AccessState
<1>3. TokensHeldOnce'
  BY DEF TokensHeldOnce, ActorsConsistent, ConnectionTypeOK, RetiredStaysRetired, CallbackState
<1>4. RetiredStaysRetired'
  BY DEF RetiredStaysRetired, TokensHeldOnce, ActorsConsistent, ConnectionTypeOK, CallbackState
<1> QED BY <1>1, <1>2, <1>3, <1>4

(* ReadForRevocation preserves the inductive invariant. *)
LEMMA ReadForRevocationPreserves ==
    ASSUME ConnectionInductive, NEW v \in Revoker, NEW p \in Provider, ReadForRevocation(v, p)
    PROVE  ConnectionInductive'
<1> USE ConnectionAssumption
   DEF ConnectionInductive, ReadForRevocation, RevokerTo, stored, remotely, Idle
<1>1. ConnectionTypeOK'
  BY
     DEF ConnectionTypeOK, ActorsConsistent, TokensHeldOnce, Session, CallbackState,
         RevokerState, AccessState
<1>2. ActorsConsistent'
  BY DEF ActorsConsistent, ConnectionTypeOK, Session, CallbackState, RevokerState, AccessState
<1>3. TokensHeldOnce'
  BY DEF TokensHeldOnce, ActorsConsistent, ConnectionTypeOK, RetiredStaysRetired, CallbackState
<1>4. RetiredStaysRetired'
  BY DEF RetiredStaysRetired, TokensHeldOnce, ActorsConsistent, ConnectionTypeOK, CallbackState
<1> QED BY <1>1, <1>2, <1>3, <1>4

(* PostRevocation preserves the inductive invariant. *)
LEMMA PostRevocationPreserves ==
    ASSUME ConnectionInductive, NEW v \in Revoker, PostRevocation(v)
    PROVE  ConnectionInductive'
<1> USE ConnectionAssumption
   DEF ConnectionInductive, PostRevocation, RevokerTo, stored, remotely, Idle
<1>1. ConnectionTypeOK'
  BY
     DEF ConnectionTypeOK, ActorsConsistent, TokensHeldOnce, Session, CallbackState,
         RevokerState, AccessState
<1>2. ActorsConsistent'
  BY DEF ActorsConsistent, ConnectionTypeOK, Session, CallbackState, RevokerState, AccessState
<1>3. TokensHeldOnce'
  BY DEF TokensHeldOnce, ActorsConsistent, ConnectionTypeOK, RetiredStaysRetired, CallbackState
<1>4. RetiredStaysRetired'
  BY DEF RetiredStaysRetired, TokensHeldOnce, ActorsConsistent, ConnectionTypeOK, CallbackState
<1> QED BY <1>1, <1>2, <1>3, <1>4

(* RevocationRefused preserves the inductive invariant. *)
LEMMA RevocationRefusedPreserves ==
    ASSUME ConnectionInductive, NEW v \in Revoker, RevocationRefused(v)
    PROVE  ConnectionInductive'
<1> USE ConnectionAssumption
   DEF ConnectionInductive, RevocationRefused, RevokerTo, Refusal, stored, remotely, Idle
<1>1. ConnectionTypeOK'
  BY
     DEF ConnectionTypeOK, ActorsConsistent, TokensHeldOnce, Session, CallbackState,
         RevokerState, AccessState
<1>2. ActorsConsistent'
  BY DEF ActorsConsistent, ConnectionTypeOK, Session, CallbackState, RevokerState, AccessState
<1>3. TokensHeldOnce'
  BY DEF TokensHeldOnce, ActorsConsistent, ConnectionTypeOK, RetiredStaysRetired, CallbackState
<1>4. RetiredStaysRetired'
  BY DEF RetiredStaysRetired, TokensHeldOnce, ActorsConsistent, ConnectionTypeOK, CallbackState
<1> QED BY <1>1, <1>2, <1>3, <1>4

(* DeleteTokens preserves the inductive invariant. *)
LEMMA DeleteTokensPreserves ==
    ASSUME ConnectionInductive, NEW v \in Revoker, DeleteTokens(v)
    PROVE  ConnectionInductive'
<1> USE ConnectionAssumption
   DEF ConnectionInductive, DeleteTokens, RevokerTo, Store, stored, remotely, Idle
<1>1. ConnectionTypeOK'
  BY
     DEF ConnectionTypeOK, ActorsConsistent, TokensHeldOnce, Session, CallbackState,
         RevokerState, AccessState
<1>2. ActorsConsistent'
  BY DEF ActorsConsistent, ConnectionTypeOK, Session, CallbackState, RevokerState, AccessState
<1>3. TokensHeldOnce'
  BY DEF TokensHeldOnce, ActorsConsistent, ConnectionTypeOK, RetiredStaysRetired, CallbackState
<1>4. RetiredStaysRetired'
  BY DEF RetiredStaysRetired, TokensHeldOnce, ActorsConsistent, ConnectionTypeOK, CallbackState
<1> QED BY <1>1, <1>2, <1>3, <1>4

(* RevokerReturns preserves the inductive invariant. *)
LEMMA RevokerReturnsPreserves ==
    ASSUME ConnectionInductive, NEW v \in Revoker, RevokerReturns(v)
    PROVE  ConnectionInductive'
<1> USE ConnectionAssumption DEF ConnectionInductive, RevokerReturns, stored, remotely, Idle
<1>1. ConnectionTypeOK'
  BY
     DEF ConnectionTypeOK, ActorsConsistent, TokensHeldOnce, Session, CallbackState,
         RevokerState, AccessState
<1>2. ActorsConsistent'
  BY DEF ActorsConsistent, ConnectionTypeOK, Session, CallbackState, RevokerState, AccessState
<1>3. TokensHeldOnce'
  BY DEF TokensHeldOnce, ActorsConsistent, ConnectionTypeOK, RetiredStaysRetired, CallbackState
<1>4. RetiredStaysRetired'
  BY DEF RetiredStaysRetired, TokensHeldOnce, ActorsConsistent, ConnectionTypeOK, CallbackState
<1> QED BY <1>1, <1>2, <1>3, <1>4

(* TokenAges preserves the inductive invariant. *)
LEMMA TokenAgesPreserves ==
    ASSUME ConnectionInductive, NEW p \in Provider, TokenAges(p)
    PROVE  ConnectionInductive'
<1> USE ConnectionAssumption DEF ConnectionInductive, TokenAges, stored, remotely, Idle
<1>1. ConnectionTypeOK'
  BY
     DEF ConnectionTypeOK, ActorsConsistent, TokensHeldOnce, Session, CallbackState,
         RevokerState, AccessState
<1>2. ActorsConsistent'
  BY DEF ActorsConsistent, ConnectionTypeOK, Session, CallbackState, RevokerState, AccessState
<1>3. TokensHeldOnce'
  BY DEF TokensHeldOnce, ActorsConsistent, ConnectionTypeOK, RetiredStaysRetired, CallbackState
<1>4. RetiredStaysRetired'
  BY DEF RetiredStaysRetired, TokensHeldOnce, ActorsConsistent, ConnectionTypeOK, CallbackState
<1> QED BY <1>1, <1>2, <1>3, <1>4

(* RequestToken preserves the inductive invariant. *)
LEMMA RequestTokenPreserves ==
    ASSUME ConnectionInductive, NEW c \in Client, NEW f \in Login \cup {Nothing}, RequestToken(c, f)
    PROVE  ConnectionInductive'
<1> USE ConnectionAssumption
   DEF ConnectionInductive, RequestToken, AccessTo, Current, stored, remotely, Idle
<1>1. ConnectionTypeOK'
  BY
     DEF ConnectionTypeOK, ActorsConsistent, TokensHeldOnce, Session, CallbackState,
         RevokerState, AccessState
<1>2. ActorsConsistent'
  BY DEF ActorsConsistent, ConnectionTypeOK, Session, CallbackState, RevokerState, AccessState
<1>3. TokensHeldOnce'
  BY DEF TokensHeldOnce, ActorsConsistent, ConnectionTypeOK, RetiredStaysRetired, CallbackState
<1>4. RetiredStaysRetired'
  BY DEF RetiredStaysRetired, TokensHeldOnce, ActorsConsistent, ConnectionTypeOK, CallbackState
<1> QED BY <1>1, <1>2, <1>3, <1>4

(* PostRefresh preserves the inductive invariant. *)
LEMMA PostRefreshPreserves ==
    ASSUME ConnectionInductive, NEW c \in Client, PostRefresh(c)
    PROVE  ConnectionInductive'
<1> USE ConnectionAssumption
   DEF ConnectionInductive, PostRefresh, AccessTo, stored, remotely, Idle
<1>1. ConnectionTypeOK'
  BY
     DEF ConnectionTypeOK, ActorsConsistent, TokensHeldOnce, Session, CallbackState,
         RevokerState, AccessState
<1>2. ActorsConsistent'
  BY DEF ActorsConsistent, ConnectionTypeOK, Session, CallbackState, RevokerState, AccessState
<1>3. TokensHeldOnce'
  BY DEF TokensHeldOnce, ActorsConsistent, ConnectionTypeOK, RetiredStaysRetired, CallbackState
<1>4. RetiredStaysRetired'
  BY DEF RetiredStaysRetired, TokensHeldOnce, ActorsConsistent, ConnectionTypeOK, CallbackState
<1> QED BY <1>1, <1>2, <1>3, <1>4

(* RefreshRefused preserves the inductive invariant. *)
LEMMA RefreshRefusedPreserves ==
    ASSUME ConnectionInductive, NEW c \in Client, RefreshRefused(c)
    PROVE  ConnectionInductive'
<1> USE ConnectionAssumption
   DEF ConnectionInductive, RefreshRefused, AccessTo, Refusal, stored, remotely, Idle
<1>1. ConnectionTypeOK'
  BY
     DEF ConnectionTypeOK, ActorsConsistent, TokensHeldOnce, Session, CallbackState,
         RevokerState, AccessState
<1>2. ActorsConsistent'
  BY DEF ActorsConsistent, ConnectionTypeOK, Session, CallbackState, RevokerState, AccessState
<1>3. TokensHeldOnce'
  BY DEF TokensHeldOnce, ActorsConsistent, ConnectionTypeOK, RetiredStaysRetired, CallbackState
<1>4. RetiredStaysRetired'
  BY DEF RetiredStaysRetired, TokensHeldOnce, ActorsConsistent, ConnectionTypeOK, CallbackState
<1> QED BY <1>1, <1>2, <1>3, <1>4

(* SwapTokens preserves the inductive invariant. *)
LEMMA SwapTokensPreserves ==
    ASSUME ConnectionInductive, NEW c \in Client, SwapTokens(c)
    PROVE  ConnectionInductive'
<1> DEFINE f == access[c].of
<1> USE ConnectionAssumption DEF ConnectionInductive, AccessTo, Current, stored, remotely
<1>1. /\ f \in Login
      /\ UNCHANGED <<session, credential, retired, redeemed, grants, callback, revoker, refusals>>
  BY DEF SwapTokens, ActorsConsistent
<1>2. CASE /\ stale' = [stale EXCEPT ![ProviderOf[f]] = FALSE]
           /\ access' = [access EXCEPT ![c] = [at |-> "token", of |-> f]]
  <2> USE <1>1, <1>2
  <2> HIDE DEF f
  <2>1. ConnectionTypeOK'
    BY
       DEF ConnectionTypeOK, ActorsConsistent, TokensHeldOnce, Session, CallbackState,
           RevokerState, AccessState
  <2>2. ActorsConsistent'
    BY DEF ActorsConsistent, ConnectionTypeOK, Session, CallbackState, RevokerState, AccessState
  <2>3. TokensHeldOnce'
    BY
       DEF TokensHeldOnce, ActorsConsistent, ConnectionTypeOK, RetiredStaysRetired,
           CallbackState
  <2>4. RetiredStaysRetired'
    BY
       DEF RetiredStaysRetired, TokensHeldOnce, ActorsConsistent, ConnectionTypeOK,
           CallbackState
  <2> QED BY <2>1, <2>2, <2>3, <2>4
<1>3. CASE stale' = stale /\ access' = [access EXCEPT ![c] = [at |-> "denied", of |-> f]]
  <2> USE <1>1, <1>3
  <2> HIDE DEF f
  <2>1. ConnectionTypeOK'
    BY
       DEF ConnectionTypeOK, ActorsConsistent, TokensHeldOnce, Session, CallbackState,
           RevokerState, AccessState
  <2>2. ActorsConsistent'
    BY DEF ActorsConsistent, ConnectionTypeOK, Session, CallbackState, RevokerState, AccessState
  <2>3. TokensHeldOnce'
    BY
       DEF TokensHeldOnce, ActorsConsistent, ConnectionTypeOK, RetiredStaysRetired,
           CallbackState
  <2>4. RetiredStaysRetired'
    BY
       DEF RetiredStaysRetired, TokensHeldOnce, ActorsConsistent, ConnectionTypeOK,
           CallbackState
  <2> QED BY <2>1, <2>2, <2>3, <2>4
<1> QED BY <1>2, <1>3 DEF SwapTokens

(* ReleaseToken preserves the inductive invariant. *)
LEMMA ReleaseTokenPreserves ==
    ASSUME ConnectionInductive, NEW c \in Client, ReleaseToken(c)
    PROVE  ConnectionInductive'
<1> USE ConnectionAssumption DEF ConnectionInductive, ReleaseToken, stored, remotely, Idle
<1>1. ConnectionTypeOK'
  BY
     DEF ConnectionTypeOK, ActorsConsistent, TokensHeldOnce, Session, CallbackState,
         RevokerState, AccessState
<1>2. ActorsConsistent'
  BY DEF ActorsConsistent, ConnectionTypeOK, Session, CallbackState, RevokerState, AccessState
<1>3. TokensHeldOnce'
  BY DEF TokensHeldOnce, ActorsConsistent, ConnectionTypeOK, RetiredStaysRetired, CallbackState
<1>4. RetiredStaysRetired'
  BY DEF RetiredStaysRetired, TokensHeldOnce, ActorsConsistent, ConnectionTypeOK, CallbackState
<1> QED BY <1>1, <1>2, <1>3, <1>4

(* A call that is refused or lost changes nothing else. *)
LEMMA RefusalPreserves ==
    ASSUME ConnectionInductive, Refusal,
           UNCHANGED <<stored, remotely, callback, revoker, access>>
    PROVE  ConnectionInductive'
BY ConnectionAssumption
   DEF ConnectionInductive, Refusal, stored, remotely, ConnectionTypeOK, ActorsConsistent,
       TokensHeldOnce, RetiredStaysRetired

(* A death of the process forgets what every actor was doing, and nothing else. *)
LEMMA ForgettingPreserves ==
    ASSUME ConnectionInductive, UNCHANGED <<stored, remotely, refusals>>,
           callback' = [c \in Callback |-> Idle],
           revoker' = [v \in Revoker |-> Idle],
           access' = [c \in Client |-> Idle]
    PROVE  ConnectionInductive'
BY ConnectionAssumption
   DEF ConnectionInductive, stored, remotely, ConnectionTypeOK, ActorsConsistent,
       TokensHeldOnce, RetiredStaysRetired, Idle, CallbackState, RevokerState, AccessState

(* Steps that leave the connection alone preserve its invariant. *)
LEMMA ConnectionStutter ==
    ASSUME ConnectionInductive, UNCHANGED connection
    PROVE  ConnectionInductive'
BY DEF ConnectionInductive, connection, stored, remotely, ConnectionTypeOK, ActorsConsistent,
       TokensHeldOnce, RetiredStaysRetired, Session, CallbackState, RevokerState, AccessState

(* Nothing is connected at first. *)
LEMMA ConnectionInitInductive == ConnectionInit => ConnectionInductive
BY ConnectionAssumption
   DEF ConnectionInit, ConnectionInductive, ConnectionTypeOK, ActorsConsistent, TokensHeldOnce,
       RetiredStaysRetired, Session, Idle, CallbackState, RevokerState, AccessState

(* Whatever happens to a connection without its clients preserves the invariant. *)
LEMMA ConnectionStepInductive == ConnectionInductive /\ ConnectionStep => ConnectionInductive'
<1> SUFFICES ASSUME ConnectionInductive, ConnectionStep PROVE ConnectionInductive'
  OBVIOUS
<1>1. ASSUME NEW f \in Login, Start(f) PROVE ConnectionInductive'
  BY <1>1, StartPreserves
<1>2. ASSUME NEW c \in Callback, LoginStep(c) PROVE ConnectionInductive'
  BY <1>2, ReceiveCallbackPreserves, MarkConsumedPreserves, ExchangeCodePreserves,
     ExchangeRefusedPreserves, SaveTokensPreserves, SaveFailsPreserves DEF LoginStep
<1>3. ASSUME NEW v \in Revoker, RevokeStep(v) PROVE ConnectionInductive'
  BY <1>3, ReadForRevocationPreserves, PostRevocationPreserves, RevocationRefusedPreserves,
     DeleteTokensPreserves, RevokerReturnsPreserves DEF RevokeStep
<1>4. ASSUME NEW p \in Provider, TokenAges(p) PROVE ConnectionInductive'
  BY <1>4, TokenAgesPreserves
<1> QED BY <1>1, <1>2, <1>3, <1>4 DEF ConnectionStep

(* So does a step of a refresh ... *)
LEMMA RefreshStepInductive ==
    ASSUME ConnectionInductive, NEW c \in Client, RefreshStep(c)
    PROVE  ConnectionInductive'
BY PostRefreshPreserves, RefreshRefusedPreserves, SwapTokensPreserves DEF RefreshStep

(* ... and every step. *)
LEMMA ConnectionNextInductive ==
    ConnectionInductive /\ [ConnectionNext]_connection => ConnectionInductive'
<1> SUFFICES ASSUME ConnectionInductive, [ConnectionNext]_connection
             PROVE  ConnectionInductive'
  OBVIOUS
<1>1. CASE UNCHANGED connection
  BY <1>1, ConnectionStutter
<1>2. CASE ConnectionStep
  BY <1>2, ConnectionStepInductive
<1>3. CASE ClientStep
  <2>1. ASSUME NEW c \in Client, NEW f \in Login, RequestToken(c, f)
        PROVE  ConnectionInductive'
    BY <2>1, RequestTokenPreserves
  <2>2. ASSUME NEW c \in Client, RefreshStep(c) \/ ReleaseToken(c)
        PROVE  ConnectionInductive'
    BY <2>2, RefreshStepInductive, ReleaseTokenPreserves
  <2> QED BY <1>3, <2>1, <2>2 DEF ClientStep
<1> QED BY <1>1, <1>2, <1>3 DEF ConnectionNext

-----------------------------------------------------------------------------
(* The inductive invariant holds throughout: connections, actors and ghosts
   agree with each other. *)
THEOREM ConnectionInvariant == ConnectionSpec => []ConnectionInductive
<1>1. ConnectionInit => ConnectionInductive
  BY ConnectionInitInductive
<1>2. ConnectionInductive /\ [ConnectionNext]_connection => ConnectionInductive'
  BY ConnectionNextInductive
<1> QED BY <1>1, <1>2, PTL DEF ConnectionSpec

(* Every variable always has its type. *)
THEOREM ConnectionTypeCorrect == ConnectionSpec => []ConnectionTypeOK
<1>1. ConnectionInductive => ConnectionTypeOK
  BY DEF ConnectionInductive
<1> QED BY <1>1, ConnectionInvariant, PTL

(* A revoked or replaced connection never comes back, however late a refresh
   or a redirect arrives. *)
THEOREM RetiredForGood == ConnectionSpec => []RetiredStaysRetired
<1>1. ConnectionInductive => RetiredStaysRetired
  BY DEF ConnectionInductive
<1> QED BY <1>1, ConnectionInvariant, PTL

(* A client obtains a token only of the connection its provider has just then. *)
THEOREM TokensAreCurrent == ConnectionSpec => TokenIsOfCurrentConnection
<1>1. ASSUME ConnectionInductive, [ConnectionNext]_connection
      PROVE  [\A c \in Client : IssuesCurrent(c)]_connection
  <2> SUFFICES ASSUME ConnectionNext PROVE \A c \in Client : IssuesCurrent(c)
    BY <1>1
  <2>1. ASSUME UNCHANGED access PROVE \A c \in Client : IssuesCurrent(c)
    BY <2>1 DEF IssuesCurrent
  <2>2. CASE ConnectionStep
    <3>1. UNCHANGED access
      BY <2>2 DEF ConnectionStep, LoginStep, RevokeStep, Start, ReceiveCallback, MarkConsumed,
         ExchangeCode, ExchangeRefused, SaveTokens, SaveFails, ReadForRevocation,
         PostRevocation, RevocationRefused, DeleteTokens, RevokerReturns, TokenAges
    <3> QED BY <3>1, <2>1
  <2>3. CASE ClientStep
    <3> USE <1>1 DEF ConnectionInductive, ConnectionTypeOK, IssuesCurrent, AccessState
    <3>1. ASSUME NEW c \in Client, NEW f \in Login, RequestToken(c, f)
          PROVE  \A b \in Client : IssuesCurrent(b)
      BY <3>1 DEF RequestToken, AccessTo, Current, stored
    <3>2. ASSUME NEW c \in Client, PostRefresh(c) \/ RefreshRefused(c) \/ ReleaseToken(c)
          PROVE  \A b \in Client : IssuesCurrent(b)
      BY <3>2 DEF PostRefresh, RefreshRefused, ReleaseToken, AccessTo, Idle
    <3>3. ASSUME NEW c \in Client, SwapTokens(c)
          PROVE  \A b \in Client : IssuesCurrent(b)
      BY <3>3 DEF SwapTokens, AccessTo, Current
    <3> QED BY <2>3, <3>1, <3>2, <3>3 DEF ClientStep, RefreshStep
  <2> QED BY <2>2, <2>3 DEF ConnectionNext
<1> QED BY <1>1, ConnectionInvariant, PTL DEF ConnectionSpec, TokenIsOfCurrentConnection

-----------------------------------------------------------------------------
(* The confirmations of reviewed drafts and plans. *)

(* What the confirmations see of the connection. *)
LEMMA ConnectionTypes ==
    ASSUME ConnectionTypeOK
    PROVE  /\ credential \in [Provider -> Login \cup {Nothing}]
           /\ access \in [Client -> AccessState]
BY DEF ConnectionTypeOK

RequestAt == {"new", "found", "check", "claim", "prepare", "token", "wait", "record", "done"}

(* A confirmation that moves on keeps its draft, its key, the connection it saw
   and its outcome, and every other confirmation stays as it is. *)
LEMMA Moves ==
    ASSUME request \in [Request -> RequestState], NEW q \in Request,
           NEW at \in RequestAt, To(q, at)
    PROVE  /\ request' \in [Request -> RequestState]
           /\ request'[q].at = at
           /\ \A r \in Request : r # q => request'[r] = request[r]
           /\ \A r \in Request :
                /\ request'[r].draft = request[r].draft /\ request'[r].key = request[r].key
                /\ request'[r].sees = request[r].sees
                /\ request'[r].outcome = request[r].outcome
BY DEF To, RequestState, RequestAt

(* So does one that learns its outcome. *)
LEMMA Concludes ==
    ASSUME request \in [Request -> RequestState], NEW q \in Request,
           NEW outcome \in Final, Concluded(q, outcome)
    PROVE  /\ request' \in [Request -> RequestState]
           /\ request'[q].at = "record" /\ request'[q].outcome = outcome
           /\ \A r \in Request : r # q => request'[r] = request[r]
           /\ \A r \in Request :
                /\ request'[r].draft = request[r].draft /\ request'[r].key = request[r].key
                /\ request'[r].sees = request[r].sees
BY DEF Concluded, RequestState, Final

(* Outcomes stay true while they and the calls they speak of do not change. *)
LEMMA OutcomesStand ==
    ASSUME OutcomeIsTrue, audit' = audit,
           \A r \in Request : request'[r].draft = request[r].draft,
           \A r \in Request : wire[r].state = "applied" => wire'[r].state = "applied",
           \A r \in Request : wire'[r].state \in {"flying", "applied"} =>
                               wire[r].state \in {"flying", "applied"}
    PROVE  OutcomeIsTrue'
BY DEF OutcomeIsTrue, OnTheWire

(* CreateDraft preserves the inductive invariant. *)
LEMMA CreateDraftPreserves ==
    ASSUME MutationsInductive, NEW d \in Draft, CreateDraft(d)
    PROVE  MutationsInductive'
<1> USE MutationAssumption DEF MutationsInductive, drafts, ledger, CreateDraft
<1>1. ConnectionInductive'
  BY ConnectionStutter DEF connection
<1>2. TypeOK'
  BY <1>1, ConnectionTypes
     DEF TypeOK, ConnectionInductive, Audit, Wire, Final, connection, remotely, stored,
         RequestState
<1>3. \A r \in Request : RequestConsistent(r)'
  BY ConnectionTypes
     DEF RequestConsistent, OwnerConsistent, Owns, Engaged, TypeOK, Wire, Final, connection,
         RequestState
<1>4. \A r \in Request : OwnerConsistent(r)'
  BY ConnectionTypes
     DEF OwnerConsistent, RequestConsistent, Owns, Engaged, TypeOK, Audit, Wire, NoAudit,
         LedgerConsistent, OneOwner, ClaimIsAudited, RequestState
<1>5. LedgerConsistent'
  BY ConnectionTypes
     DEF LedgerConsistent, ClaimIsAudited, OwnerConsistent, Owns, Engaged, RequestConsistent,
         TypeOK, Audit, Final, RequestState
<1>6. OneOwner'
  BY ConnectionTypes
     DEF OneOwner, Owns, Engaged, OwnerConsistent, RequestConsistent, LedgerConsistent, TypeOK,
         Wire, RequestState
<1>7. OutcomeIsTrue'
  BY OutcomesStand DEF TypeOK, Wire, RequestState
<1> QED BY <1>1, <1>2, <1>3, <1>4, <1>5, <1>6, <1>7

(* Receive preserves the inductive invariant. *)
LEMMA ReceivePreserves ==
    ASSUME MutationsInductive, NEW q \in Request, NEW d \in Draft, NEW k \in Key, Receive(q, d, k)
    PROVE  MutationsInductive'
<1> USE MutationAssumption DEF MutationsInductive, drafts, ledger, Receive
<1>1. ConnectionInductive'
  BY ConnectionStutter DEF connection
<1>2. TypeOK'
  BY <1>1, ConnectionTypes
     DEF TypeOK, ConnectionInductive, Audit, Wire, Final, connection, remotely, stored,
         RequestState
<1>3. \A r \in Request : RequestConsistent(r)'
  BY ConnectionTypes
     DEF RequestConsistent, OwnerConsistent, Owns, Engaged, TypeOK, Wire, Final, connection,
         RequestState
<1>4. \A r \in Request : OwnerConsistent(r)'
  BY ConnectionTypes
     DEF OwnerConsistent, RequestConsistent, Owns, Engaged, TypeOK, Audit, Wire, NoAudit,
         LedgerConsistent, OneOwner, ClaimIsAudited, RequestState
<1>5. LedgerConsistent'
  BY ConnectionTypes
     DEF LedgerConsistent, ClaimIsAudited, OwnerConsistent, Owns, Engaged, RequestConsistent,
         TypeOK, Audit, Final, RequestState
<1>6. OneOwner'
  BY ConnectionTypes
     DEF OneOwner, Owns, Engaged, OwnerConsistent, RequestConsistent, LedgerConsistent, TypeOK,
         Wire, RequestState
<1>7. OutcomeIsTrue'
  BY ConnectionTypes
     DEF OutcomeIsTrue, OnTheWire, OneOwner, Owns, Engaged, OwnerConsistent, RequestConsistent,
         LedgerConsistent, ClaimIsAudited, TypeOK, Audit, Wire, Final, RequestState
<1> QED BY <1>1, <1>2, <1>3, <1>4, <1>5, <1>6, <1>7

(* FindReplay preserves the inductive invariant. *)
LEMMA FindReplayPreserves ==
    ASSUME MutationsInductive, NEW q \in Request, FindReplay(q)
    PROVE  MutationsInductive'
<1> USE MutationAssumption DEF MutationsInductive, drafts, ledger, FindReplay
<1>1. ConnectionInductive'
  BY ConnectionStutter DEF connection
<1> PICK at \in {"done", "check"} : To(q, at)
  OBVIOUS
<1>frame.
      /\ request' \in [Request -> RequestState]
      /\ request'[q].at = at
      /\ \A r \in Request : r # q => request'[r] = request[r]
      /\ \A r \in Request :
           /\ request'[r].draft = request[r].draft /\ request'[r].key = request[r].key
           /\ request'[r].sees = request[r].sees
           /\ request'[r].outcome = request[r].outcome
  BY Moves DEF TypeOK, RequestAt
<1>2. TypeOK'
  BY <1>1, <1>frame, ConnectionTypes
     DEF TypeOK, ConnectionInductive, Audit, Wire, Final, connection, remotely, stored
<1>3. \A r \in Request : RequestConsistent(r)'
  BY <1>frame, ConnectionTypes
     DEF RequestConsistent, OwnerConsistent, Owns, Engaged, TypeOK, Wire, Final, connection
<1>4. \A r \in Request : OwnerConsistent(r)'
  BY <1>frame, ConnectionTypes
     DEF OwnerConsistent, RequestConsistent, Owns, Engaged, TypeOK, Audit, Wire, NoAudit,
         LedgerConsistent, OneOwner, ClaimIsAudited
<1>5. LedgerConsistent'
  BY <1>frame, ConnectionTypes
     DEF LedgerConsistent, ClaimIsAudited, OwnerConsistent, Owns, Engaged, RequestConsistent,
         TypeOK, Audit, Final
<1>6. OneOwner'
  BY <1>frame, ConnectionTypes
     DEF OneOwner, Owns, Engaged, OwnerConsistent, RequestConsistent, LedgerConsistent, TypeOK,
         Wire
<1>7. OutcomeIsTrue'
  BY <1>frame, OutcomesStand DEF TypeOK, Wire
<1> QED BY <1>1, <1>2, <1>3, <1>4, <1>5, <1>6, <1>7

(* CheckReview preserves the inductive invariant. *)
LEMMA CheckReviewPreserves ==
    ASSUME MutationsInductive, NEW q \in Request, CheckReview(q)
    PROVE  MutationsInductive'
<1> USE MutationAssumption DEF MutationsInductive, drafts, ledger, CheckReview, Reviewed
<1>1. ConnectionInductive'
  BY ConnectionStutter DEF connection
<1> PICK at \in {"claim", "done"} :
          /\ To(q, at)
          /\ at = "claim" => /\ request[q].draft \in made
                            /\ binding[request[q].draft] = request[q].sees
  OBVIOUS
<1>frame.
      /\ request' \in [Request -> RequestState]
      /\ request'[q].at = at
      /\ \A r \in Request : r # q => request'[r] = request[r]
      /\ \A r \in Request :
           /\ request'[r].draft = request[r].draft /\ request'[r].key = request[r].key
           /\ request'[r].sees = request[r].sees
           /\ request'[r].outcome = request[r].outcome
  BY Moves DEF TypeOK, RequestAt
<1>2. TypeOK'
  BY <1>1, <1>frame, ConnectionTypes
     DEF TypeOK, ConnectionInductive, Audit, Wire, Final, connection, remotely, stored
<1>3. \A r \in Request : RequestConsistent(r)'
  BY <1>frame, ConnectionTypes
     DEF RequestConsistent, OwnerConsistent, Owns, Engaged, TypeOK, Wire, Final, connection
<1>4. \A r \in Request : OwnerConsistent(r)'
  BY <1>frame, ConnectionTypes
     DEF OwnerConsistent, RequestConsistent, Owns, Engaged, TypeOK, Audit, Wire, NoAudit,
         LedgerConsistent, OneOwner, ClaimIsAudited
<1>5. LedgerConsistent'
  BY <1>frame, ConnectionTypes
     DEF LedgerConsistent, ClaimIsAudited, OwnerConsistent, Owns, Engaged, RequestConsistent,
         TypeOK, Audit, Final
<1>6. OneOwner'
  BY <1>frame, ConnectionTypes
     DEF OneOwner, Owns, Engaged, OwnerConsistent, RequestConsistent, LedgerConsistent, TypeOK,
         Wire
<1>7. OutcomeIsTrue'
  BY <1>frame, OutcomesStand DEF TypeOK, Wire
<1> QED BY <1>1, <1>2, <1>3, <1>4, <1>5, <1>6, <1>7

(* ClaimAttempt preserves the inductive invariant. *)
LEMMA ClaimAttemptPreserves ==
    ASSUME MutationsInductive, NEW q \in Request, ClaimAttempt(q)
    PROVE  MutationsInductive'
<1> USE MutationAssumption DEF MutationsInductive, drafts, ledger, ClaimAttempt, Unclaimed
<1>1. ConnectionInductive'
  BY ConnectionStutter DEF connection
<1>frame.
      /\ request' \in [Request -> RequestState]
      /\ request'[q].at = "prepare"
      /\ \A r \in Request : r # q => request'[r] = request[r]
      /\ \A r \in Request :
           /\ request'[r].draft = request[r].draft /\ request'[r].key = request[r].key
           /\ request'[r].sees = request[r].sees
           /\ request'[r].outcome = request[r].outcome
  BY Moves DEF TypeOK, RequestAt
<1>rows. audit' \in [Key -> Audit] /\ claim' \in [Draft -> Key \cup {Nothing}]
  BY DEF TypeOK, RequestConsistent, Audit
<1>2. TypeOK'
  BY <1>1, <1>frame, <1>rows, ConnectionTypes
     DEF TypeOK, ConnectionInductive, Audit, Wire, Final, connection, remotely, stored
<1>3. \A r \in Request : RequestConsistent(r)'
  BY <1>frame, ConnectionTypes
     DEF RequestConsistent, OwnerConsistent, Owns, Engaged, TypeOK, Wire, Final, connection
<1>4. \A r \in Request : OwnerConsistent(r)'
  BY <1>frame, ConnectionTypes
     DEF OwnerConsistent, RequestConsistent, Owns, Engaged, TypeOK, Audit, Wire, NoAudit,
         LedgerConsistent, OneOwner, ClaimIsAudited
<1>5. LedgerConsistent'
  BY <1>frame, ConnectionTypes
     DEF LedgerConsistent, ClaimIsAudited, OwnerConsistent, Owns, Engaged, RequestConsistent,
         TypeOK, Audit, Final
<1>6. OneOwner'
  BY <1>frame, ConnectionTypes
     DEF OneOwner, Owns, Engaged, OwnerConsistent, RequestConsistent, LedgerConsistent, TypeOK,
         Wire
<1>7. OutcomeIsTrue'
  BY <1>frame, ConnectionTypes
     DEF OutcomeIsTrue, OnTheWire, OneOwner, Owns, Engaged, OwnerConsistent, RequestConsistent,
         LedgerConsistent, ClaimIsAudited, TypeOK, Audit, Wire, Final
<1> QED BY <1>1, <1>2, <1>3, <1>4, <1>5, <1>6, <1>7

(* ClaimLost preserves the inductive invariant. *)
LEMMA ClaimLostPreserves ==
    ASSUME MutationsInductive, NEW q \in Request, ClaimLost(q)
    PROVE  MutationsInductive'
<1> USE MutationAssumption DEF MutationsInductive, drafts, ledger, ClaimLost
<1>1. ConnectionInductive'
  BY ConnectionStutter DEF connection
<1>frame.
      /\ request' \in [Request -> RequestState]
      /\ request'[q].at = "done"
      /\ \A r \in Request : r # q => request'[r] = request[r]
      /\ \A r \in Request :
           /\ request'[r].draft = request[r].draft /\ request'[r].key = request[r].key
           /\ request'[r].sees = request[r].sees
           /\ request'[r].outcome = request[r].outcome
  BY Moves DEF TypeOK, RequestAt
<1>2. TypeOK'
  BY <1>1, <1>frame, ConnectionTypes
     DEF TypeOK, ConnectionInductive, Audit, Wire, Final, connection, remotely, stored
<1>3. \A r \in Request : RequestConsistent(r)'
  BY <1>frame, ConnectionTypes
     DEF RequestConsistent, OwnerConsistent, Owns, Engaged, TypeOK, Wire, Final, connection
<1>4. \A r \in Request : OwnerConsistent(r)'
  BY <1>frame, ConnectionTypes
     DEF OwnerConsistent, RequestConsistent, Owns, Engaged, TypeOK, Audit, Wire, NoAudit,
         LedgerConsistent, OneOwner, ClaimIsAudited
<1>5. LedgerConsistent'
  BY <1>frame, ConnectionTypes
     DEF LedgerConsistent, ClaimIsAudited, OwnerConsistent, Owns, Engaged, RequestConsistent,
         TypeOK, Audit, Final
<1>6. OneOwner'
  BY <1>frame, ConnectionTypes
     DEF OneOwner, Owns, Engaged, OwnerConsistent, RequestConsistent, LedgerConsistent, TypeOK,
         Wire
<1>7. OutcomeIsTrue'
  BY <1>frame, OutcomesStand DEF TypeOK, Wire
<1> QED BY <1>1, <1>2, <1>3, <1>4, <1>5, <1>6, <1>7

(* PrepareFails preserves the inductive invariant. *)
LEMMA PrepareFailsPreserves ==
    ASSUME MutationsInductive, NEW q \in Request, PrepareFails(q)
    PROVE  MutationsInductive'
<1> USE MutationAssumption DEF MutationsInductive, drafts, ledger, PrepareFails
<1>1. ConnectionInductive'
  BY RefusalPreserves DEF stored, remotely, connection
<1> PICK outcome \in {"FAILED", "UNCERTAIN"} : Concluded(q, outcome)
  OBVIOUS
<1>frame.
      /\ request' \in [Request -> RequestState]
      /\ request'[q].at = "record" /\ request'[q].outcome = outcome
      /\ \A r \in Request : r # q => request'[r] = request[r]
      /\ \A r \in Request :
           /\ request'[r].draft = request[r].draft /\ request'[r].key = request[r].key
           /\ request'[r].sees = request[r].sees
  BY Concludes DEF TypeOK, Final
<1>2. TypeOK'
  BY <1>1, <1>frame, ConnectionTypes
     DEF TypeOK, ConnectionInductive, Audit, Wire, Final, connection, remotely, stored
<1>3. \A r \in Request : RequestConsistent(r)'
  BY <1>frame, ConnectionTypes
     DEF RequestConsistent, OwnerConsistent, Owns, Engaged, TypeOK, Wire, Final, connection
<1>4. \A r \in Request : OwnerConsistent(r)'
  BY <1>frame, ConnectionTypes
     DEF OwnerConsistent, RequestConsistent, Owns, Engaged, TypeOK, Audit, Wire, NoAudit,
         LedgerConsistent, OneOwner, ClaimIsAudited
<1>5. LedgerConsistent'
  BY <1>frame, ConnectionTypes
     DEF LedgerConsistent, ClaimIsAudited, OwnerConsistent, Owns, Engaged, RequestConsistent,
         TypeOK, Audit, Final
<1>6. OneOwner'
  BY <1>frame, ConnectionTypes
     DEF OneOwner, Owns, Engaged, OwnerConsistent, RequestConsistent, LedgerConsistent, TypeOK,
         Wire
<1>7. OutcomeIsTrue'
  BY <1>frame, OutcomesStand DEF TypeOK, Wire
<1> QED BY <1>1, <1>2, <1>3, <1>4, <1>5, <1>6, <1>7

(* Authorize preserves the inductive invariant. *)
LEMMA AuthorizePreserves ==
    ASSUME MutationsInductive, NEW q \in Request, Authorize(q)
    PROVE  MutationsInductive'
<1> USE MutationAssumption DEF MutationsInductive, drafts, ledger, Authorize
<1>1. ConnectionInductive'
  BY RequestTokenPreserves DEF stored, remotely, connection, TypeOK, RequestState
<1>frame.
      /\ request' \in [Request -> RequestState]
      /\ request'[q].at = "token"
      /\ \A r \in Request : r # q => request'[r] = request[r]
      /\ \A r \in Request :
           /\ request'[r].draft = request[r].draft /\ request'[r].key = request[r].key
           /\ request'[r].sees = request[r].sees
           /\ request'[r].outcome = request[r].outcome
  BY Moves DEF TypeOK, RequestAt
<1>2. TypeOK'
  BY <1>1, <1>frame, ConnectionTypes
     DEF TypeOK, ConnectionInductive, Audit, Wire, Final, connection, remotely, stored,
         RequestToken, AccessTo, AccessState
<1>3. \A r \in Request : RequestConsistent(r)'
  BY <1>frame, ConnectionTypes
     DEF RequestConsistent, OwnerConsistent, Owns, Engaged, TypeOK, Wire, Final, connection,
         RequestToken, AccessTo, AccessState
<1>4. \A r \in Request : OwnerConsistent(r)'
  BY <1>frame, ConnectionTypes
     DEF OwnerConsistent, RequestConsistent, Owns, Engaged, TypeOK, Audit, Wire, NoAudit,
         LedgerConsistent, OneOwner, ClaimIsAudited
<1>5. LedgerConsistent'
  BY <1>frame, ConnectionTypes
     DEF LedgerConsistent, ClaimIsAudited, OwnerConsistent, Owns, Engaged, RequestConsistent,
         TypeOK, Audit, Final
<1>6. OneOwner'
  BY <1>frame, ConnectionTypes
     DEF OneOwner, Owns, Engaged, OwnerConsistent, RequestConsistent, LedgerConsistent, TypeOK,
         Wire
<1>7. OutcomeIsTrue'
  BY <1>frame, OutcomesStand DEF TypeOK, Wire
<1> QED BY <1>1, <1>2, <1>3, <1>4, <1>5, <1>6, <1>7

(* RefreshToken preserves the inductive invariant. *)
LEMMA RefreshTokenPreserves ==
    ASSUME MutationsInductive, NEW q \in Request, RefreshToken(q)
    PROVE  MutationsInductive'
<1> USE MutationAssumption DEF MutationsInductive, drafts, ledger, RefreshToken
<1>1. ConnectionInductive'
  BY RefreshStepInductive DEF stored, remotely, connection
<1>frame.
      /\ access'[q].of = access[q].of
      /\ \A r \in Request : r # q => access'[r] = access[r]
  BY ConnectionTypes DEF RefreshStep, PostRefresh, RefreshRefused, SwapTokens, AccessTo,
     ConnectionInductive, AccessState
<1>2. TypeOK'
  BY <1>1, <1>frame, ConnectionTypes
     DEF TypeOK, ConnectionInductive, Audit, Wire, Final, connection, remotely, stored,
         RequestState
<1>3. \A r \in Request : RequestConsistent(r)'
  BY <1>frame, ConnectionTypes
     DEF RequestConsistent, OwnerConsistent, Owns, Engaged, TypeOK, Wire, Final, connection,
         RequestState
<1>4. \A r \in Request : OwnerConsistent(r)'
  BY <1>frame, ConnectionTypes
     DEF OwnerConsistent, RequestConsistent, Owns, Engaged, TypeOK, Audit, Wire, NoAudit,
         LedgerConsistent, OneOwner, ClaimIsAudited, RequestState
<1>5. LedgerConsistent'
  BY <1>frame, ConnectionTypes
     DEF LedgerConsistent, ClaimIsAudited, OwnerConsistent, Owns, Engaged, RequestConsistent,
         TypeOK, Audit, Final, RequestState
<1>6. OneOwner'
  BY <1>frame, ConnectionTypes
     DEF OneOwner, Owns, Engaged, OwnerConsistent, RequestConsistent, LedgerConsistent, TypeOK,
         Wire, RequestState
<1>7. OutcomeIsTrue'
  BY <1>frame, OutcomesStand DEF TypeOK, Wire, RequestState
<1> QED BY <1>1, <1>2, <1>3, <1>4, <1>5, <1>6, <1>7

(* AuthorizationFails preserves the inductive invariant. *)
LEMMA AuthorizationFailsPreserves ==
    ASSUME MutationsInductive, NEW q \in Request, AuthorizationFails(q)
    PROVE  MutationsInductive'
<1> USE MutationAssumption DEF MutationsInductive, drafts, ledger, AuthorizationFails
<1>1. ConnectionInductive'
  BY ConnectionStutter DEF connection
<1>frame.
      /\ request' \in [Request -> RequestState]
      /\ request'[q].at = "record" /\ request'[q].outcome = "FAILED"
      /\ \A r \in Request : r # q => request'[r] = request[r]
      /\ \A r \in Request :
           /\ request'[r].draft = request[r].draft /\ request'[r].key = request[r].key
           /\ request'[r].sees = request[r].sees
  BY Concludes DEF TypeOK, Final
<1>2. TypeOK'
  BY <1>1, <1>frame, ConnectionTypes
     DEF TypeOK, ConnectionInductive, Audit, Wire, Final, connection, remotely, stored
<1>3. \A r \in Request : RequestConsistent(r)'
  BY <1>frame, ConnectionTypes
     DEF RequestConsistent, OwnerConsistent, Owns, Engaged, TypeOK, Wire, Final, connection
<1>4. \A r \in Request : OwnerConsistent(r)'
  BY <1>frame, ConnectionTypes
     DEF OwnerConsistent, RequestConsistent, Owns, Engaged, TypeOK, Audit, Wire, NoAudit,
         LedgerConsistent, OneOwner, ClaimIsAudited
<1>5. LedgerConsistent'
  BY <1>frame, ConnectionTypes
     DEF LedgerConsistent, ClaimIsAudited, OwnerConsistent, Owns, Engaged, RequestConsistent,
         TypeOK, Audit, Final
<1>6. OneOwner'
  BY <1>frame, ConnectionTypes
     DEF OneOwner, Owns, Engaged, OwnerConsistent, RequestConsistent, LedgerConsistent, TypeOK,
         Wire
<1>7. OutcomeIsTrue'
  BY <1>frame, OutcomesStand DEF TypeOK, Wire
<1> QED BY <1>1, <1>2, <1>3, <1>4, <1>5, <1>6, <1>7

(* Post preserves the inductive invariant. *)
LEMMA PostPreserves ==
    ASSUME MutationsInductive, NEW q \in Request, Post(q)
    PROVE  MutationsInductive'
<1> USE MutationAssumption DEF MutationsInductive, drafts, ledger, Post
<1>1. ConnectionInductive'
  BY ConnectionStutter DEF connection
<1>frame.
      /\ request' \in [Request -> RequestState]
      /\ request'[q].at = "wait"
      /\ \A r \in Request : r # q => request'[r] = request[r]
      /\ \A r \in Request :
           /\ request'[r].draft = request[r].draft /\ request'[r].key = request[r].key
           /\ request'[r].sees = request[r].sees
           /\ request'[r].outcome = request[r].outcome
  BY Moves DEF TypeOK, RequestAt
<1>2. TypeOK'
  BY <1>1, <1>frame, ConnectionTypes
     DEF TypeOK, ConnectionInductive, Audit, Wire, Final, connection, remotely, stored,
         AccessState
<1>3. \A r \in Request : RequestConsistent(r)'
  BY <1>frame, ConnectionTypes
     DEF RequestConsistent, OwnerConsistent, Owns, Engaged, TypeOK, Wire, Final, connection,
         AccessState
<1>4. \A r \in Request : OwnerConsistent(r)'
  BY <1>frame, ConnectionTypes
     DEF OwnerConsistent, RequestConsistent, Owns, Engaged, TypeOK, Audit, Wire, NoAudit,
         LedgerConsistent, OneOwner, ClaimIsAudited
<1>5. LedgerConsistent'
  BY <1>frame, ConnectionTypes
     DEF LedgerConsistent, ClaimIsAudited, OwnerConsistent, Owns, Engaged, RequestConsistent,
         TypeOK, Audit, Final
<1>6. OneOwner'
  BY <1>frame, ConnectionTypes
     DEF OneOwner, Owns, Engaged, OwnerConsistent, RequestConsistent, LedgerConsistent, TypeOK,
         Wire
<1>7. OutcomeIsTrue'
  BY <1>frame, ConnectionTypes
     DEF OutcomeIsTrue, OnTheWire, OneOwner, Owns, Engaged, OwnerConsistent, RequestConsistent,
         LedgerConsistent, ClaimIsAudited, TypeOK, Audit, Wire, Final
<1> QED BY <1>1, <1>2, <1>3, <1>4, <1>5, <1>6, <1>7

(* ProviderApplies preserves the inductive invariant. *)
LEMMA ProviderAppliesPreserves ==
    ASSUME MutationsInductive, NEW q \in Request, ProviderApplies(q)
    PROVE  MutationsInductive'
<1> USE MutationAssumption DEF MutationsInductive, drafts, ledger, ProviderApplies
<1>1. ConnectionInductive'
  BY ConnectionStutter DEF connection
<1>2. TypeOK'
  BY <1>1, ConnectionTypes
     DEF TypeOK, ConnectionInductive, Audit, Wire, Final, connection, remotely, stored,
         RequestState
<1>3. \A r \in Request : RequestConsistent(r)'
  BY ConnectionTypes
     DEF RequestConsistent, OwnerConsistent, Owns, Engaged, TypeOK, Wire, Final, connection,
         RequestState
<1>4. \A r \in Request : OwnerConsistent(r)'
  BY ConnectionTypes
     DEF OwnerConsistent, RequestConsistent, Owns, Engaged, TypeOK, Audit, Wire, NoAudit,
         LedgerConsistent, OneOwner, ClaimIsAudited, RequestState
<1>5. LedgerConsistent'
  BY ConnectionTypes
     DEF LedgerConsistent, ClaimIsAudited, OwnerConsistent, Owns, Engaged, RequestConsistent,
         TypeOK, Audit, Final, RequestState
<1>6. OneOwner'
  BY ConnectionTypes
     DEF OneOwner, Owns, Engaged, OwnerConsistent, RequestConsistent, LedgerConsistent, TypeOK,
         Wire, RequestState
<1>7. OutcomeIsTrue'
  BY ConnectionTypes
     DEF OutcomeIsTrue, OnTheWire, OneOwner, Owns, Engaged, OwnerConsistent, RequestConsistent,
         LedgerConsistent, ClaimIsAudited, TypeOK, Audit, Wire, Final, RequestState
<1> QED BY <1>1, <1>2, <1>3, <1>4, <1>5, <1>6, <1>7

(* ProviderLoses preserves the inductive invariant. *)
LEMMA ProviderLosesPreserves ==
    ASSUME MutationsInductive, NEW q \in Request, ProviderLoses(q)
    PROVE  MutationsInductive'
<1> USE MutationAssumption DEF MutationsInductive, drafts, ledger, ProviderLoses
<1>1. ConnectionInductive'
  BY ConnectionStutter DEF connection
<1>2. TypeOK'
  BY <1>1, ConnectionTypes
     DEF TypeOK, ConnectionInductive, Audit, Wire, Final, connection, remotely, stored,
         RequestState
<1>3. \A r \in Request : RequestConsistent(r)'
  BY ConnectionTypes
     DEF RequestConsistent, OwnerConsistent, Owns, Engaged, TypeOK, Wire, Final, connection,
         RequestState
<1>4. \A r \in Request : OwnerConsistent(r)'
  BY ConnectionTypes
     DEF OwnerConsistent, RequestConsistent, Owns, Engaged, TypeOK, Audit, Wire, NoAudit,
         LedgerConsistent, OneOwner, ClaimIsAudited, RequestState
<1>5. LedgerConsistent'
  BY ConnectionTypes
     DEF LedgerConsistent, ClaimIsAudited, OwnerConsistent, Owns, Engaged, RequestConsistent,
         TypeOK, Audit, Final, RequestState
<1>6. OneOwner'
  BY ConnectionTypes
     DEF OneOwner, Owns, Engaged, OwnerConsistent, RequestConsistent, LedgerConsistent, TypeOK,
         Wire, RequestState
<1>7. OutcomeIsTrue'
  BY OutcomesStand DEF TypeOK, Wire, RequestState
<1> QED BY <1>1, <1>2, <1>3, <1>4, <1>5, <1>6, <1>7

(* Accepted preserves the inductive invariant. *)
LEMMA AcceptedPreserves ==
    ASSUME MutationsInductive, NEW q \in Request, Accepted(q)
    PROVE  MutationsInductive'
<1> USE MutationAssumption DEF MutationsInductive, drafts, ledger, Accepted
<1>1. ConnectionInductive'
  BY ConnectionStutter DEF connection
<1>frame.
      /\ request' \in [Request -> RequestState]
      /\ request'[q].at = "record" /\ request'[q].outcome = "ACCEPTED"
      /\ \A r \in Request : r # q => request'[r] = request[r]
      /\ \A r \in Request :
           /\ request'[r].draft = request[r].draft /\ request'[r].key = request[r].key
           /\ request'[r].sees = request[r].sees
  BY Concludes DEF TypeOK, Final
<1>2. TypeOK'
  BY <1>1, <1>frame, ConnectionTypes
     DEF TypeOK, ConnectionInductive, Audit, Wire, Final, connection, remotely, stored
<1>3. \A r \in Request : RequestConsistent(r)'
  BY <1>frame, ConnectionTypes
     DEF RequestConsistent, OwnerConsistent, Owns, Engaged, TypeOK, Wire, Final, connection
<1>4. \A r \in Request : OwnerConsistent(r)'
  BY <1>frame, ConnectionTypes
     DEF OwnerConsistent, RequestConsistent, Owns, Engaged, TypeOK, Audit, Wire, NoAudit,
         LedgerConsistent, OneOwner, ClaimIsAudited
<1>5. LedgerConsistent'
  BY <1>frame, ConnectionTypes
     DEF LedgerConsistent, ClaimIsAudited, OwnerConsistent, Owns, Engaged, RequestConsistent,
         TypeOK, Audit, Final
<1>6. OneOwner'
  BY <1>frame, ConnectionTypes
     DEF OneOwner, Owns, Engaged, OwnerConsistent, RequestConsistent, LedgerConsistent, TypeOK,
         Wire
<1>7. OutcomeIsTrue'
  BY <1>frame, OutcomesStand DEF TypeOK, Wire
<1> QED BY <1>1, <1>2, <1>3, <1>4, <1>5, <1>6, <1>7

(* Rejected preserves the inductive invariant. *)
LEMMA RejectedPreserves ==
    ASSUME MutationsInductive, NEW q \in Request, Rejected(q)
    PROVE  MutationsInductive'
<1> USE MutationAssumption DEF MutationsInductive, drafts, ledger, Rejected
<1>1. ConnectionInductive'
  BY ConnectionStutter DEF connection
<1>frame.
      /\ request' \in [Request -> RequestState]
      /\ request'[q].at = "record" /\ request'[q].outcome = "FAILED"
      /\ \A r \in Request : r # q => request'[r] = request[r]
      /\ \A r \in Request :
           /\ request'[r].draft = request[r].draft /\ request'[r].key = request[r].key
           /\ request'[r].sees = request[r].sees
  BY Concludes DEF TypeOK, Final
<1>2. TypeOK'
  BY <1>1, <1>frame, ConnectionTypes
     DEF TypeOK, ConnectionInductive, Audit, Wire, Final, connection, remotely, stored
<1>3. \A r \in Request : RequestConsistent(r)'
  BY <1>frame, ConnectionTypes
     DEF RequestConsistent, OwnerConsistent, Owns, Engaged, TypeOK, Wire, Final, connection
<1>4. \A r \in Request : OwnerConsistent(r)'
  BY <1>frame, ConnectionTypes
     DEF OwnerConsistent, RequestConsistent, Owns, Engaged, TypeOK, Audit, Wire, NoAudit,
         LedgerConsistent, OneOwner, ClaimIsAudited
<1>5. LedgerConsistent'
  BY <1>frame, ConnectionTypes
     DEF LedgerConsistent, ClaimIsAudited, OwnerConsistent, Owns, Engaged, RequestConsistent,
         TypeOK, Audit, Final
<1>6. OneOwner'
  BY <1>frame, ConnectionTypes
     DEF OneOwner, Owns, Engaged, OwnerConsistent, RequestConsistent, LedgerConsistent, TypeOK,
         Wire
<1>7. OutcomeIsTrue'
  BY <1>frame, OutcomesStand DEF TypeOK, Wire
<1> QED BY <1>1, <1>2, <1>3, <1>4, <1>5, <1>6, <1>7

(* Unanswered preserves the inductive invariant. *)
LEMMA UnansweredPreserves ==
    ASSUME MutationsInductive, NEW q \in Request, Unanswered(q)
    PROVE  MutationsInductive'
<1> USE MutationAssumption DEF MutationsInductive, drafts, ledger, Unanswered
<1>same. UNCHANGED <<wire, audit, claim>>
  OBVIOUS
<1>1. ConnectionInductive'
  BY RefusalPreserves, ConnectionStutter DEF stored, remotely, connection, connection
<1>frame.
      /\ request' \in [Request -> RequestState]
      /\ request'[q].at = "record" /\ request'[q].outcome = "UNCERTAIN"
      /\ \A r \in Request : r # q => request'[r] = request[r]
      /\ \A r \in Request :
           /\ request'[r].draft = request[r].draft /\ request'[r].key = request[r].key
           /\ request'[r].sees = request[r].sees
  BY Concludes DEF TypeOK, Final
<1>2. TypeOK'
  BY <1>1, <1>frame, ConnectionTypes
     DEF TypeOK, ConnectionInductive, Audit, Wire, Final, connection, remotely, stored
<1>3. \A r \in Request : RequestConsistent(r)'
  BY <1>frame, ConnectionTypes
     DEF RequestConsistent, OwnerConsistent, Owns, Engaged, TypeOK, Wire, Final, connection
<1>4. \A r \in Request : OwnerConsistent(r)'
  BY <1>frame, ConnectionTypes
     DEF OwnerConsistent, RequestConsistent, Owns, Engaged, TypeOK, Audit, Wire, NoAudit,
         LedgerConsistent, OneOwner, ClaimIsAudited
<1>5. LedgerConsistent'
  BY <1>frame, ConnectionTypes
     DEF LedgerConsistent, ClaimIsAudited, OwnerConsistent, Owns, Engaged, RequestConsistent,
         TypeOK, Audit, Final
<1>6. OneOwner'
  BY <1>frame, <1>same
     DEF OneOwner, Owns, Engaged, OwnerConsistent, RequestConsistent, LedgerConsistent, TypeOK,
         Wire
<1>7. OutcomeIsTrue'
  BY <1>frame, OutcomesStand DEF TypeOK, Wire
<1> QED BY <1>1, <1>2, <1>3, <1>4, <1>5, <1>6, <1>7

(* Record preserves the inductive invariant. *)
LEMMA RecordPreserves ==
    ASSUME MutationsInductive, NEW q \in Request, Record(q)
    PROVE  MutationsInductive'
<1> USE MutationAssumption DEF MutationsInductive, drafts, ledger, Record
<1>1. ConnectionInductive'
  BY ConnectionStutter DEF connection
<1>frame.
      /\ request' \in [Request -> RequestState]
      /\ request'[q].at = "done"
      /\ \A r \in Request : r # q => request'[r] = request[r]
      /\ \A r \in Request :
           /\ request'[r].draft = request[r].draft /\ request'[r].key = request[r].key
           /\ request'[r].sees = request[r].sees
           /\ request'[r].outcome = request[r].outcome
  BY Moves DEF TypeOK, RequestAt
<1>rows. audit' \in [Key -> Audit]
  <2> DEFINE row == [audit[request[q].key] EXCEPT !.status = request[q].outcome]
  <2>1. request[q].key \in Key /\ request[q].outcome \in Final
    BY DEF RequestConsistent
  <2>2. audit[request[q].key] \in Audit
    BY <2>1 DEF TypeOK
  <2>3. row \in Audit
    BY <2>1, <2>2 DEF Audit, Final
  <2>4. audit' = [audit EXCEPT ![request[q].key] = row]
    OBVIOUS
  <2> HIDE DEF row
  <2> QED BY <2>1, <2>3, <2>4 DEF TypeOK
<1>2. TypeOK'
  BY <1>1, <1>frame, <1>rows, ConnectionTypes
     DEF TypeOK, ConnectionInductive, Audit, Wire, Final, connection, remotely, stored
<1>3. \A r \in Request : RequestConsistent(r)'
  BY <1>frame, ConnectionTypes
     DEF RequestConsistent, OwnerConsistent, Owns, Engaged, TypeOK, Wire, Final, connection
<1>4. \A r \in Request : OwnerConsistent(r)'
  BY <1>frame, ConnectionTypes
     DEF OwnerConsistent, RequestConsistent, Owns, Engaged, TypeOK, Audit, Wire, NoAudit,
         LedgerConsistent, OneOwner, ClaimIsAudited
<1>5. LedgerConsistent'
  BY <1>frame, ConnectionTypes
     DEF LedgerConsistent, ClaimIsAudited, OwnerConsistent, Owns, Engaged, RequestConsistent,
         TypeOK, Audit, Final
<1>6. OneOwner'
  BY <1>frame, ConnectionTypes
     DEF OneOwner, Owns, Engaged, OwnerConsistent, RequestConsistent, LedgerConsistent, TypeOK,
         Wire
<1>7. OutcomeIsTrue'
  BY <1>frame, ConnectionTypes
     DEF OutcomeIsTrue, OnTheWire, OneOwner, Owns, Engaged, OwnerConsistent, RequestConsistent,
         LedgerConsistent, ClaimIsAudited, TypeOK, Audit, Wire, Final
<1> QED BY <1>1, <1>2, <1>3, <1>4, <1>5, <1>6, <1>7

(* RecordFails preserves the inductive invariant. *)
LEMMA RecordFailsPreserves ==
    ASSUME MutationsInductive, NEW q \in Request, RecordFails(q)
    PROVE  MutationsInductive'
<1> USE MutationAssumption DEF MutationsInductive, drafts, ledger, RecordFails
<1>1. ConnectionInductive'
  BY RefusalPreserves DEF stored, remotely, connection
<1>frame.
      /\ request' \in [Request -> RequestState]
      /\ request'[q].at = "done"
      /\ \A r \in Request : r # q => request'[r] = request[r]
      /\ \A r \in Request :
           /\ request'[r].draft = request[r].draft /\ request'[r].key = request[r].key
           /\ request'[r].sees = request[r].sees
           /\ request'[r].outcome = request[r].outcome
  BY Moves DEF TypeOK, RequestAt
<1>2. TypeOK'
  BY <1>1, <1>frame, ConnectionTypes
     DEF TypeOK, ConnectionInductive, Audit, Wire, Final, connection, remotely, stored
<1>3. \A r \in Request : RequestConsistent(r)'
  BY <1>frame, ConnectionTypes
     DEF RequestConsistent, OwnerConsistent, Owns, Engaged, TypeOK, Wire, Final, connection
<1>4. \A r \in Request : OwnerConsistent(r)'
  BY <1>frame, ConnectionTypes
     DEF OwnerConsistent, RequestConsistent, Owns, Engaged, TypeOK, Audit, Wire, NoAudit,
         LedgerConsistent, OneOwner, ClaimIsAudited
<1>5. LedgerConsistent'
  BY <1>frame, ConnectionTypes
     DEF LedgerConsistent, ClaimIsAudited, OwnerConsistent, Owns, Engaged, RequestConsistent,
         TypeOK, Audit, Final
<1>6. OneOwner'
  BY <1>frame, ConnectionTypes
     DEF OneOwner, Owns, Engaged, OwnerConsistent, RequestConsistent, LedgerConsistent, TypeOK,
         Wire
<1>7. OutcomeIsTrue'
  BY <1>frame, OutcomesStand DEF TypeOK, Wire
<1> QED BY <1>1, <1>2, <1>3, <1>4, <1>5, <1>6, <1>7

(* Crash preserves the inductive invariant. *)
LEMMA CrashPreserves ==
    ASSUME MutationsInductive, Crash
    PROVE  MutationsInductive'
<1> USE MutationAssumption DEF MutationsInductive, drafts, ledger, Crash
<1>1. ConnectionInductive'
  BY ForgettingPreserves DEF stored, remotely, connection
<1>frame.
      /\ request' \in [Request -> RequestState]
      /\ \A r \in Request : request'[r] = request[r] \/ request'[r].at = "done"
      /\ \A r \in Request :
           request'[r].draft = request[r].draft /\ request'[r].key = request[r].key
      /\ \A r \in Request : request[r].at = "new" => request'[r] = request[r]
  <2>1. ASSUME NEW r \in Request
        PROVE  [request[r] EXCEPT !.at = "done"] \in RequestState
    BY DEF TypeOK, RequestState
  <2>2. \A r \in Request : request[r] \in RequestState
    BY DEF TypeOK
  <2>3. request' \in [Request -> RequestState]
    BY <2>1, <2>2
  <2>4. ASSUME NEW r \in Request
        PROVE  /\ request'[r] = request[r] \/ request'[r].at = "done"
               /\ request'[r].draft = request[r].draft /\ request'[r].key = request[r].key
               /\ request[r].at = "new" => request'[r] = request[r]
    BY <2>2 DEF RequestState
  <2> QED BY <2>3, <2>4
<1>2. TypeOK'
  BY <1>1, <1>frame, ConnectionTypes
     DEF TypeOK, ConnectionInductive, Audit, Wire, Final, connection, remotely, stored
<1>3. \A r \in Request : RequestConsistent(r)'
  BY <1>frame, ConnectionTypes
     DEF RequestConsistent, OwnerConsistent, Owns, Engaged, TypeOK, Wire, Final, connection
<1>4. \A r \in Request : OwnerConsistent(r)'
  BY <1>frame, ConnectionTypes
     DEF OwnerConsistent, RequestConsistent, Owns, Engaged, TypeOK, Audit, Wire, NoAudit,
         LedgerConsistent, OneOwner, ClaimIsAudited
<1>5. LedgerConsistent'
  BY <1>frame, ConnectionTypes
     DEF LedgerConsistent, ClaimIsAudited, OwnerConsistent, Owns, Engaged, RequestConsistent,
         TypeOK, Audit, Final
<1>6. OneOwner'
  BY <1>frame, ConnectionTypes
     DEF OneOwner, Owns, Engaged, OwnerConsistent, RequestConsistent, LedgerConsistent, TypeOK,
         Wire
<1>7. OutcomeIsTrue'
  BY <1>frame, OutcomesStand DEF TypeOK, Wire
<1> QED BY <1>1, <1>2, <1>3, <1>4, <1>5, <1>6, <1>7

-----------------------------------------------------------------------------
(* No draft exists and no key is used at first. *)
LEMMA InitInductive == Init => MutationsInductive
BY ConnectionInitInductive, MutationAssumption
   DEF Init, MutationsInductive, TypeOK, ConnectionInductive, RequestConsistent, OwnerConsistent,
       Owns, Engaged, LedgerConsistent, ClaimIsAudited, OneOwner, OutcomeIsTrue, NoAudit, Audit,
       RequestState, Wire

(* Only the connection changes. *)
LEMMA ConnectionAlonePreserves ==
    ASSUME MutationsInductive, ConnectionInductive', access' = access,
           UNCHANGED <<drafts, ledger, request, wire, crashes>>
    PROVE  MutationsInductive'
BY
   DEF MutationsInductive, TypeOK, ConnectionInductive, RequestConsistent, OwnerConsistent,
       Owns,
       Engaged, LedgerConsistent, ClaimIsAudited, OneOwner, OutcomeIsTrue, OnTheWire, drafts,
       ledger

(* A step of a connection's own leaves its clients alone. *)
LEMMA ConnectionStepKeepsAccess == ConnectionStep => access' = access
BY
   DEF ConnectionStep, LoginStep, RevokeStep, Start, ReceiveCallback, MarkConsumed,
       ExchangeCode,
       ExchangeRefused, SaveTokens, SaveFails, ReadForRevocation, PostRevocation,
       RevocationRefused, DeleteTokens, RevokerReturns, TokenAges

(* Every step preserves the inductive invariant. *)
LEMMA NextInductive == MutationsInductive /\ [Next]_vars => MutationsInductive'
<1> SUFFICES ASSUME MutationsInductive, [Next]_vars PROVE MutationsInductive'
  OBVIOUS
<1>1. CASE UNCHANGED vars
  <2>1. ConnectionInductive'
    BY <1>1, ConnectionStutter DEF vars, MutationsInductive
  <2> QED BY <1>1, <2>1, ConnectionAlonePreserves DEF vars, connection
<1>2. ASSUME NEW d \in Draft, CreateDraft(d) PROVE MutationsInductive'
  BY <1>2, CreateDraftPreserves
<1>3. ASSUME NEW q \in Request, RequestStep(q) PROVE MutationsInductive'
  BY <1>3, ReceivePreserves, FindReplayPreserves, CheckReviewPreserves, ClaimAttemptPreserves,
     ClaimLostPreserves, PrepareFailsPreserves, AuthorizePreserves, RefreshTokenPreserves,
     AuthorizationFailsPreserves, PostPreserves, AcceptedPreserves, RejectedPreserves,
     UnansweredPreserves, RecordPreserves, RecordFailsPreserves DEF RequestStep
<1>4. ASSUME NEW q \in Request, ProviderApplies(q) \/ ProviderLoses(q)
      PROVE  MutationsInductive'
  BY <1>4, ProviderAppliesPreserves, ProviderLosesPreserves
<1>5. CASE ConnectionStep /\ UNCHANGED <<drafts, ledger, request, wire, crashes>>
  <2>1. ConnectionInductive'
    BY <1>5, ConnectionStepInductive DEF MutationsInductive
  <2> QED BY <1>5, <2>1, ConnectionAlonePreserves, ConnectionStepKeepsAccess
<1>6. CASE Crash
  BY <1>6, CrashPreserves
<1> QED BY <1>1, <1>2, <1>3, <1>4, <1>5, <1>6 DEF Next

(* The inductive invariant holds throughout. *)
THEOREM MutationsInvariant == Spec => []MutationsInductive
<1> QED BY InitInductive, NextInductive, PTL DEF Spec

(* Every variable always has its type. *)
THEOREM MutationsTypeCorrect == Spec => []TypeOK
<1>1. MutationsInductive => TypeOK
  BY DEF MutationsInductive
<1> QED BY <1>1, MutationsInvariant, PTL

(* No two provider calls carry the same draft. *)
THEOREM AtMostOneCall == Spec => []OneCallPerDraft
<1>1. MutationsInductive => OneCallPerDraft
  BY DEF MutationsInductive, OneOwner, Engaged, OneCallPerDraft, OnTheWire
<1> QED BY <1>1, MutationsInvariant, PTL

(* A call carries the token of the connection its draft was reviewed with. *)
THEOREM CallsAsReviewed == Spec => []SentAsReviewed
<1>1. MutationsInductive => SentAsReviewed
  BY DEF MutationsInductive, OwnerConsistent, SentAsReviewed, OnTheWire
<1> QED BY <1>1, MutationsInvariant, PTL

(* What is recorded of an attempt is true of the provider. *)
THEOREM OutcomesAreTrue == Spec => []OutcomeIsTrue
<1>1. MutationsInductive => OutcomeIsTrue
  BY DEF MutationsInductive
<1> QED BY <1>1, MutationsInvariant, PTL

(* A claim and the audit of its key name the same draft. *)
THEOREM ClaimsAreAudited == Spec => []ClaimIsAudited
<1>1. MutationsInductive => ClaimIsAudited
  BY DEF MutationsInductive, LedgerConsistent
<1> QED BY <1>1, MutationsInvariant, PTL

-----------------------------------------------------------------------------
(* The abstract attempt of each draft stands still while the ledger does and no
   call takes effect. *)
LEMMA AttemptsStutter ==
    ASSUME UNCHANGED <<audit, claim>>,
           \A r \in Request : wire'[r].state = "applied" <=> wire[r].state = "applied",
           \A r \in Request :
               wire[r].state = "applied" => request'[r].draft = request[r].draft
    PROVE  UNCHANGED Attempts!vars
BY DEF Attempts!vars

(* Winning the claim is the attempt. *)
LEMMA ClaimIsAttempt ==
    ASSUME MutationsInductive, NEW q \in Request, ClaimAttempt(q),
           NEW d \in Draft, d = request[q].draft
    PROVE  Attempts!Attempt(d)
<1> DEFINE k == request[q].key
<1> USE DEF MutationsInductive
<1>1. k \in Key /\ claim[d] = Nothing /\ audit[k].status = "none"
  BY DEF ClaimAttempt, Unclaimed, RequestConsistent
<1>2. claim' = [claim EXCEPT ![d] = k] /\ audit'[k].status = "PLANNED" /\ k # Nothing
      /\ \A j \in Key : j # k => audit'[j] = audit[j]
  BY <1>1, MutationAssumption DEF ClaimAttempt, TypeOK
<1>3. \A e \in Draft : claim[e] # Nothing => claim[e] # k /\ claim[e] \in Key
  BY <1>1 DEF LedgerConsistent, TypeOK
<1>4. \A e \in Draft : e # d => claim'[e] = claim[e]
  BY <1>1, <1>2 DEF TypeOK
<1>5. claim'[d] = k
  BY <1>1, <1>2 DEF TypeOK
<1>6. /\ \A r \in Request : request'[r].draft = request[r].draft
      /\ wire' = wire
  BY Moves DEF ClaimAttempt, TypeOK, RequestAt
<1> HIDE DEF k
<1>7. \A e \in Draft :
        (IF claim'[e] = Nothing THEN "open" ELSE audit'[claim'[e]].status)
        = IF e = d THEN "PLANNED"
          ELSE IF claim[e] = Nothing THEN "open" ELSE audit[claim[e]].status
  BY <1>1, <1>2, <1>3, <1>4, <1>5
<1> QED BY <1>1, <1>6, <1>7 DEF Attempts!Attempt

(* The provider applying a call is the effect. *)
LEMMA ApplyingIsEffect ==
    ASSUME MutationsInductive, NEW q \in Request, ProviderApplies(q),
           NEW d \in Draft, d = request[q].draft
    PROVE  Attempts!TakeEffect(d, q)
<1> USE DEF MutationsInductive
<1>1. /\ claim[d] = request[q].key /\ claim[d] \in Key
      /\ wire[q].state = "flying"
  BY DEF ProviderApplies, OwnerConsistent, Engaged
<1>2. \A r \in Request : request[r].draft = d /\ wire[r].state = "applied" => FALSE
  BY <1>1 DEF OneOwner, Engaged
<1>3. claim[d] # Nothing /\ audit[claim[d]].of = d
  BY <1>1, MutationAssumption DEF LedgerConsistent, ClaimIsAudited
<1>4. audit[claim[d]].status \in {"PLANNED", "UNCERTAIN"}
  <2>1. audit[claim[d]].status # "ACCEPTED"
    BY <1>1, <1>2, <1>3 DEF OutcomeIsTrue, OnTheWire
  <2>2. audit[claim[d]].status # "FAILED"
    BY <1>1, <1>3 DEF OutcomeIsTrue, OnTheWire
  <2>3. audit[claim[d]].status # "none" /\ audit[claim[d]] \in Audit
    BY <1>1, <1>3 DEF LedgerConsistent, TypeOK
  <2> QED BY <2>1, <2>2, <2>3 DEF Audit, Final
<1>5. /\ wire'[q].state = "applied" /\ \A r \in Request : r # q => wire'[r] = wire[r]
      /\ UNCHANGED <<request, audit, claim>>
  BY DEF ProviderApplies, TypeOK, Wire, ledger
<1>6. \A e \in Draft :
        {r \in Request : request'[r].draft = e /\ wire'[r].state = "applied"}
        = IF e = d THEN {q}
          ELSE {r \in Request : request[r].draft = e /\ wire[r].state = "applied"}
  BY <1>2, <1>5, <1>1
<1>7. /\ claim[d] # Nothing /\ UNCHANGED <<audit, claim>>
      /\ {r \in Request : request[r].draft = d /\ wire[r].state = "applied"} = {}
  BY <1>2, <1>3, <1>5
<1> QED BY <1>1, <1>4, <1>6, <1>7 DEF Attempts!TakeEffect

(* Recording an outcome concludes the attempt. *)
LEMMA RecordIsConclusion ==
    ASSUME MutationsInductive, NEW q \in Request, Record(q),
           NEW d \in Draft, d = request[q].draft,
           NEW o \in Final, o = request[q].outcome
    PROVE  Attempts!Conclude(d, o)
<1> DEFINE k == request[q].key
<1> USE DEF MutationsInductive
<1>1. /\ k \in Key /\ claim[d] = k /\ k # Nothing
      /\ audit[k].status = "PLANNED" /\ audit[k].of = d
  BY MutationAssumption
     DEF Record, OwnerConsistent, RequestConsistent, Engaged, Owns, LedgerConsistent,
         ClaimIsAudited
<1>2. /\ o = "ACCEPTED" => wire[q].state = "applied"
      /\ o = "FAILED" => \A r \in Request :
           ~(request[r].draft = d /\ wire[r].state = "applied")
  BY DEF Record, RequestConsistent, OneOwner, Engaged, Owns
<1>3. /\ audit'[k].status = o /\ \A j \in Key : j # k => audit'[j] = audit[j]
      /\ claim' = claim /\ wire' = wire
  <2>1. audit[k] \in Audit
    BY <1>1 DEF TypeOK
  <2> QED BY <1>1, <2>1 DEF Record, TypeOK, Audit
<1>4. \A e \in Draft : e # d /\ claim[e] # Nothing => claim[e] \in Key /\ claim[e] # k
  BY <1>1 DEF LedgerConsistent, ClaimIsAudited, TypeOK
<1>5. \A r \in Request : request'[r].draft = request[r].draft
  BY Moves DEF Record, TypeOK, RequestAt
<1> HIDE DEF k
<1>6. \A e \in Draft :
        (IF claim'[e] = Nothing THEN "open" ELSE audit'[claim'[e]].status)
        = IF e = d THEN o
          ELSE IF claim[e] = Nothing THEN "open" ELSE audit[claim[e]].status
  BY <1>1, <1>3, <1>4
<1>7. o = "ACCEPTED" =>
        q \in {r \in Request : request[r].draft = d /\ wire[r].state = "applied"}
  BY <1>2
<1> QED BY <1>1, <1>2, <1>3, <1>5, <1>6, <1>7 DEF Attempts!Conclude

(* Every step is a step of one attempt, or no step at all. *)
LEMMA StepRefines ==
    ASSUME MutationsInductive, [Next]_vars
    PROVE  [Attempts!Next]_(Attempts!vars)
<1> USE DEF MutationsInductive
<1>1. CASE UNCHANGED vars
  BY <1>1, AttemptsStutter DEF vars, ledger
<1>2. ASSUME NEW d \in Draft, CreateDraft(d) PROVE UNCHANGED Attempts!vars
  BY <1>2, AttemptsStutter DEF CreateDraft, ledger
<1>3. ASSUME NEW q \in Request, RequestStep(q) PROVE [Attempts!Next]_(Attempts!vars)
  <2>1. ASSUME NEW d \in Draft, NEW k \in Key, Receive(q, d, k)
        PROVE  UNCHANGED Attempts!vars
    BY <2>1, AttemptsStutter DEF Receive, ledger, RequestConsistent, TypeOK
  <2>2. CASE FindReplay(q) \/ CheckReview(q) \/ ClaimLost(q) \/ Authorize(q) \/ RecordFails(q)
    <3>1. PICK at \in RequestAt : To(q, at)
      BY <2>2 DEF FindReplay, CheckReview, ClaimLost, Authorize, RecordFails, RequestAt
    <3>2. UNCHANGED <<ledger, wire>>
      BY <2>2 DEF FindReplay, CheckReview, ClaimLost, Authorize, RecordFails
    <3> QED BY <3>1, <3>2, Moves, AttemptsStutter DEF TypeOK, ledger
  <2>3. CASE PrepareFails(q) \/ AuthorizationFails(q) \/ Accepted(q) \/ Unanswered(q)
    <3>1. PICK outcome \in Final : Concluded(q, outcome)
      BY <2>3 DEF PrepareFails, AuthorizationFails, Accepted, Unanswered, Final
    <3>2. UNCHANGED <<ledger, wire>>
      BY <2>3 DEF PrepareFails, AuthorizationFails, Accepted, Unanswered
    <3> QED BY <3>1, <3>2, Concludes, AttemptsStutter DEF TypeOK, ledger
  <2>4. CASE Rejected(q)
    <3>1. Concluded(q, "FAILED") /\ UNCHANGED ledger
      BY <2>4 DEF Rejected
    <3>2. \A r \in Request : wire'[r].state = "applied" <=> wire[r].state = "applied"
      BY <2>4 DEF Rejected, TypeOK, Wire
    <3> QED BY <3>1, <3>2, Concludes, AttemptsStutter DEF TypeOK, ledger, Final
  <2>5. CASE Post(q)
    <3>1. To(q, "wait") /\ UNCHANGED ledger
      BY <2>5 DEF Post
    <3>2. \A r \in Request : wire'[r].state = "applied" <=> wire[r].state = "applied"
      BY <2>5 DEF Post, TypeOK, RequestConsistent
    <3> QED BY <3>1, <3>2, Moves, AttemptsStutter DEF TypeOK, ledger, RequestAt
  <2>6. CASE RefreshToken(q)
    BY <2>6, AttemptsStutter DEF RefreshToken, ledger
  <2>7. CASE ClaimAttempt(q)
    <3>1. PICK d \in Draft : d = request[q].draft
      BY <2>7 DEF ClaimAttempt, RequestConsistent
    <3>2. Attempts!Attempt(d)
      BY <2>7, <3>1, ClaimIsAttempt
    <3> QED BY <3>2 DEF Attempts!Next
  <2>8. CASE Record(q)
    <3>1. PICK d \in Draft : d = request[q].draft
      BY <2>8 DEF Record, RequestConsistent
    <3>2. PICK o \in Final : o = request[q].outcome
      BY <2>8 DEF Record, RequestConsistent
    <3>3. Attempts!Conclude(d, o)
      BY <2>8, <3>1, <3>2, RecordIsConclusion
    <3> QED BY <3>3 DEF Attempts!Next, Attempts!Final, Final
  <2> QED BY <1>3, <2>1, <2>2, <2>3, <2>4, <2>5, <2>6, <2>7, <2>8 DEF RequestStep
<1>4. ASSUME NEW q \in Request, ProviderApplies(q) PROVE Attempts!Next
  <2>1. PICK d \in Draft : d = request[q].draft
    BY <1>4 DEF ProviderApplies, OwnerConsistent, Engaged
  <2>2. Attempts!TakeEffect(d, q)
    BY <1>4, <2>1, ApplyingIsEffect
  <2> QED BY <2>2 DEF Attempts!Next
<1>5. ASSUME NEW q \in Request, ProviderLoses(q) PROVE UNCHANGED Attempts!vars
  <2>1. \A r \in Request : wire'[r].state = "applied" <=> wire[r].state = "applied"
    BY <1>5 DEF ProviderLoses, TypeOK, Wire
  <2> QED BY <1>5, <2>1, AttemptsStutter DEF ProviderLoses, ledger
<1>6. CASE UNCHANGED <<drafts, ledger, request, wire, crashes>>
  BY <1>6, AttemptsStutter DEF ledger
<1>7. CASE Crash
  <2>1. \A r \in Request : request'[r].draft = request[r].draft
    BY <1>7 DEF Crash, TypeOK, RequestState
  <2> QED BY <1>7, <2>1, AttemptsStutter DEF Crash, ledger
<1> QED BY <1>1, <1>2, <1>3, <1>4, <1>5, <1>6, <1>7 DEF Next

(* Confirmations implement the abstract specification: each draft is attempted
   once, takes effect at most once, and its outcome is true and final. *)
THEOREM MutationsRefineOneAttempt == Spec => ImplementsOneAttempt
<1>1. Init => Attempts!Init
  BY DEF Init, Attempts!Init
<1>2. MutationsInductive /\ [Next]_vars => [Attempts!Next]_(Attempts!vars)
  BY StepRefines
<1> QED BY <1>1, <1>2, MutationsInvariant, PTL DEF Spec, ImplementsOneAttempt, Attempts!Spec
=============================================================================
