--------------------------- MODULE SocialAccounts ---------------------------
(***************************************************************************)
(* The social account of a product on one platform: the OAuth session that *)
(* leads to it (connect, callback), the tokens it holds, the refresh of    *)
(* these tokens by handlers of the execution worker, and disconnect.       *)
(*                                                                         *)
(* Callbacks and YouTube's disconnect are coroutines of one event loop:    *)
(* what they do between two awaits is not interleaved with another         *)
(* coroutine.  The other disconnects run in the thread pool and the        *)
(* refreshes in worker processes, so a row may change between the load of  *)
(* a run and its flush, and SQLAlchemy writes only the columns whose value *)
(* differs from the loaded one.                                            *)
(*                                                                         *)
(* A token is the number of the grant that issued it; 0 is a NULL column.  *)
(***************************************************************************)
EXTENDS Integers

CONSTANTS
  Callers,    \* callbacks, disconnects and refreshes that run at a time
  States,     \* OAuth states handed out by connect
  Browsers,   \* values of the social_oauth_browser cookie
  MaxTokens   \* bound: grants that the platform issues

ASSUME TokensAssumption == MaxTokens \in Nat

Networks == {"youtube", "instagram", "tiktok", "pinterest"}
Renewing  == {"youtube", "tiktok"}     \* platforms whose handlers refresh tokens
Tokens    == 0..MaxTokens

VARIABLES
  network,   \* the platform this account belongs to
  oauth,      \* the rows of oauth_sessions
  account,    \* the row of social_accounts
  issued,     \* number of grants of the platform
  valid,      \* refresh tokens that the platform accepts
  aged,       \* grants whose access token has run out
  exchanged,  \* per state, how often a callback sent a code to the platform
  lost,       \* a grant or a revocation that the platform made and the row missed
  crossed,    \* the flushes that found another row than the one their run loaded
  caller      \* what each run knows and does next

accountVars == <<network, oauth, account, issued, valid, aged, exchanged, lost,
                 crossed, caller>>
granted == <<issued, valid, lost>>

\* The columns that matter of a row of social_accounts.
AccountRow ==
  [status  : {"NONE", "CONNECTED", "EXPIRED", "DISCONNECTED"},
   access  : Tokens,
   refresh : Tokens,
   expires : Tokens]

NoRow == [status |-> "NONE", access |-> 0, refresh |-> 0, expires |-> 0]

OAuthSession ==
  [state : States, browser : Browsers, status : {"open", "used", "expired"}]

\* asked: the state of a callback; seen: the row as loaded; access and refresh: the
\* tokens that the platform sent.
CallerRun ==
  [pc      : {"idle", "check", "exchange", "look", "grant", "revoke", "clear", "erase",
              "refresh", "keep", "expire"},
   asked   : SUBSET States,
   seen    : AccountRow,
   access  : Tokens,
   refresh : Tokens]

IdleCaller == [pc |-> "idle", asked |-> {}, seen |-> NoRow, access |-> 0, refresh |-> 0]

AccountTypeOK ==
  /\ network \in Networks
  /\ oauth \subseteq OAuthSession
  /\ account \in AccountRow
  /\ issued \in Tokens
  /\ valid \subseteq 1..MaxTokens
  /\ aged \subseteq 1..MaxTokens
  /\ exchanged \in [States -> Nat]
  /\ lost \in BOOLEAN
  /\ crossed \subseteq {"grant", "clear", "erase", "keep", "expire"}
  /\ caller \in [Callers -> CallerRun]

AccountInit ==
  /\ network \in Networks
  /\ oauth = {}
  /\ account = NoRow
  /\ issued = 0
  /\ valid = {}
  /\ aged = {}
  /\ exchanged = [s \in States |-> 0]
  /\ lost = FALSE
  /\ crossed = {}
  /\ caller = [c \in Callers |-> IdleCaller]

-----------------------------------------------------------------------------
(* Sessions of the ORM and the event loop *)

CallerAt(c, pc) == caller[c].pc = pc

\* Mutant: a route that the thread pool runs.
NotInTheLoop(c) == TRUE
\* A coroutine that has loaded a row and not yet flushed it has not reached an
\* await: no other coroutine runs.
LoopFree(c) ==
  \A d \in Callers \ {c} :
    ~(CallerAt(d, "check") \/ CallerAt(d, "grant") \/ (network = "youtube" /\ CallerAt(d, "clear")))

Load(c, pc) ==
  caller' = [caller EXCEPT ![c] = [@ EXCEPT !.pc = pc, !.seen = account]]

\* The flush of a session: of the assigned columns it writes those that differ
\* from the loaded row.  An encrypted token always does, Fernet salts it.
Flush(c, values) ==
  LET dirty(k) == /\ k \in DOMAIN values
                  /\ \/ values[k] # caller[c].seen[k]
                     \/ k \in {"access", "refresh"} /\ values[k] # 0
  IN /\ account' = [k \in DOMAIN NoRow |-> IF dirty(k) THEN values[k] ELSE account[k]]
     /\ crossed' = IF caller[c].seen = account THEN crossed
                   ELSE crossed \cup {caller[c].pc}
     /\ caller' = [caller EXCEPT ![c] = IdleCaller]

\* The platform issues the next grant.
Issue(c, pc, renewable) ==
  /\ issued < MaxTokens
  /\ issued' = issued + 1
  /\ \E r \in renewable :
       caller' = [caller EXCEPT ![c] =
         [@ EXCEPT !.pc = pc, !.access = issued + 1, !.refresh = r]]

-----------------------------------------------------------------------------
(* connect: a new OAuth state, bound to the browser that asked for it *)

Opens(p, s, b) ==
  /\ network = p
  /\ \A row \in oauth : row.state # s
  /\ oauth' = oauth \cup {[state |-> s, browser |-> b, status |-> "open"]}
  /\ UNCHANGED <<network, account, crossed, aged, exchanged, caller, granted>>

ConnectYouTube(s, b)   == Opens("youtube", s, b)
ConnectInstagram(s, b) == Opens("instagram", s, b)
ConnectTikTok(s, b)    == Opens("tiktok", s, b)
ConnectPinterest(s, b) == Opens("pinterest", s, b)

-----------------------------------------------------------------------------
(* callback: the state is checked and consumed before anything is awaited *)

Accepts(s, b) == [state |-> s, browser |-> b, status |-> "open"] \in oauth

Checks(p, c, s, b) ==
  /\ network = p
  /\ CallerAt(c, "idle")
  /\ Accepts(s, b)
  /\ LoopFree(c)
  /\ caller' = [caller EXCEPT ![c] = [IdleCaller EXCEPT !.pc = "check", !.asked = {s}]]
  /\ UNCHANGED <<network, oauth, account, crossed, aged, exchanged, granted>>

Used(row) == [row EXCEPT !.status = "used"]

\* consumed_at is set, whatever it was when the row was loaded.
Consumed(c) == {IF row.state \in caller[c].asked THEN Used(row) ELSE row : row \in oauth}

Consume(c) ==
  /\ CallerAt(c, "check")
  /\ oauth' = Consumed(c)
  /\ \/ caller' = [caller EXCEPT ![c].pc = "exchange"]
     \/ caller' = [caller EXCEPT ![c] = IdleCaller]    \* access was denied
  /\ UNCHANGED <<network, account, crossed, aged, exchanged, granted>>

CallbackYouTube(c, s, b)   == Checks("youtube", c, s, b)
CallbackInstagram(c, s, b) == Checks("instagram", c, s, b)
CallbackTikTok(c, s, b)    == Checks("tiktok", c, s, b)
CallbackPinterest(c, s, b) == Checks("pinterest", c, s, b)

\* The code is exchanged and the profile is read.  A code is good once.
Exchange(c, renewable) ==
  /\ CallerAt(c, "exchange")
  /\ LoopFree(c)
  /\ exchanged' = [s \in States |->
                    exchanged[s] + (IF s \in caller[c].asked THEN 1 ELSE 0)]
  /\ \/ /\ \A s \in caller[c].asked : exchanged[s] = 0
        /\ Issue(c, "look", renewable)
        /\ valid' = valid \cup {issued + 1}
        /\ UNCHANGED lost
     \/ /\ caller' = [caller EXCEPT ![c] = IdleCaller]
        /\ UNCHANGED granted
  /\ UNCHANGED <<network, oauth, account, crossed, aged>>

\* The refresh token of an answer: Google sends one with the first consent only,
\* Meta never, TikTok and (as a reader of the answer) Pinterest always.
GoogleSends    == {0, issued + 1}
MetaSends      == {0}
TikTokSends    == {issued + 1}
PinterestSends == {issued + 1}

ExchangeYouTube(c)   == network = "youtube"   /\ Exchange(c, GoogleSends)
ExchangeInstagram(c) == network = "instagram" /\ Exchange(c, MetaSends)
ExchangeTikTok(c)    == network = "tiktok"    /\ Exchange(c, TikTokSends)
ExchangePinterest(c) == network = "pinterest" /\ Exchange(c, PinterestSends)

\* The account of the identity the platform named, if there is one.
LookUp(c) ==
  /\ CallerAt(c, "look")
  /\ LoopFree(c)
  /\ Load(c, "grant")
  /\ UNCHANGED <<network, oauth, account, crossed, aged, exchanged, granted>>

Granted(c) ==
  [status |-> "CONNECTED", access |-> caller[c].access, expires |-> caller[c].access]

Stores(p, c, values) ==
  /\ network = p
  /\ CallerAt(c, "grant")
  /\ Flush(c, values)
  /\ UNCHANGED <<network, oauth, aged, exchanged, granted>>

WithRefresh(c) ==
  [status |-> "CONNECTED", access |-> caller[c].access, refresh |-> caller[c].refresh,
   expires |-> caller[c].access]

\* YouTube keeps the stored refresh token when the answer brings none.
WithRefreshIfSent(c) == IF caller[c].refresh = 0 THEN Granted(c) ELSE WithRefresh(c)

StoreYouTube(c) == Stores("youtube", c, WithRefreshIfSent(c))
StoreInstagram(c) == Stores("instagram", c, WithRefresh(c))
StoreTikTok(c)    == Stores("tiktok", c, WithRefresh(c))
StorePinterest(c) == Stores("pinterest", c, WithRefresh(c))

-----------------------------------------------------------------------------
(* disconnect *)

\* Mutant: the tokens stay.
ClearedStatusOnly == [status |-> "DISCONNECTED"]
Cleared == [status |-> "DISCONNECTED", access |-> 0, refresh |-> 0, expires |-> 0]

Clears(p, c) ==
  /\ network = p
  /\ CallerAt(c, "clear") \/ CallerAt(c, "erase")
  /\ Flush(c, Cleared)
  /\ UNCHANGED <<network, oauth, aged, exchanged, granted>>

\* A request of the thread pool loads the row and clears it.
LoadToDisconnect(c) ==
  /\ network # "youtube"
  /\ CallerAt(c, "idle")
  /\ account # NoRow
  /\ Load(c, "clear")
  /\ UNCHANGED <<network, oauth, account, crossed, aged, exchanged, granted>>

DisconnectInstagram(c) == Clears("instagram", c)
DisconnectTikTok(c)    == Clears("tiktok", c)
DisconnectPinterest(c) == Clears("pinterest", c)

\* YouTube's is a coroutine that may first ask Google to revoke the stored
\* token: the refresh token if there is one, else the access token.
LoadToDisconnectYouTube(c) ==
  /\ network = "youtube"
  /\ CallerAt(c, "idle")
  /\ account # NoRow
  /\ LoopFree(c)
  /\ \/ Load(c, "clear")
     \/ /\ account.access # 0 \/ account.refresh # 0
        /\ Load(c, "revoke")
  /\ UNCHANGED <<network, oauth, account, crossed, aged, exchanged, granted>>

\* A revocation that fails leaves the row as it is, even when Google revoked
\* the token and only the answer was lost.
Revoke(c) ==
  /\ CallerAt(c, "revoke")
  /\ LoopFree(c)
  /\ LET stored == IF caller[c].seen.refresh # 0 THEN caller[c].seen.refresh
                   ELSE caller[c].seen.access
     IN \/ /\ valid' = valid \ {stored}
           /\ caller' = [caller EXCEPT ![c].pc = "erase"]
           /\ UNCHANGED lost
        \/ /\ valid' \in {valid, valid \ {stored}}
           /\ caller' = [caller EXCEPT ![c] = IdleCaller]
           /\ lost' = (lost \/ valid' # valid)
  /\ UNCHANGED <<network, oauth, account, crossed, issued, aged, exchanged>>

DisconnectYouTube(c) == Clears("youtube", c)

-----------------------------------------------------------------------------
(* The access token of a handler: refreshed when it is about to run out *)

\* YouTube: whatever the status of the row, if it holds an access token that is due.
AccessTokenYouTube(c) ==
  /\ network = "youtube"
  /\ CallerAt(c, "idle")
  /\ account.access # 0
  /\ account.expires \in aged
  /\ Load(c, IF account.refresh = 0 THEN "expire" ELSE "refresh")
  /\ UNCHANGED <<network, oauth, account, crossed, aged, exchanged, granted>>

\* TikTok: only of a CONNECTED row; a token without a known expiry is due.
AccessTokenTikTok(c) ==
  /\ network = "tiktok"
  /\ CallerAt(c, "idle")
  /\ account.status = "CONNECTED"
  /\ account.access # 0
  /\ account.expires \in aged \cup {0}
  /\ Load(c, IF account.refresh = 0 THEN "expire" ELSE "refresh")
  /\ UNCHANGED <<network, oauth, account, crossed, aged, exchanged, granted>>

\* The provider refuses, cannot be reached, or its answer is lost or names
\* another identity: the handler takes the authorization for expired.
RefreshFails(c) ==
  /\ caller' = [caller EXCEPT ![c].pc = "expire"]
  /\ UNCHANGED granted

\* Google accepts its refresh token again and again.
RenewYouTube(c) ==
  /\ network = "youtube"
  /\ CallerAt(c, "refresh")
  /\ \/ RefreshFails(c)
     \/ /\ caller[c].seen.refresh \in valid
        /\ Issue(c, "keep", {0})
        /\ UNCHANGED <<valid, lost>>
  /\ UNCHANGED <<network, oauth, account, crossed, aged, exchanged>>

\* TikTok replaces it: the old one is void, even if the answer never arrives.
RenewTikTok(c) ==
  /\ network = "tiktok"
  /\ CallerAt(c, "refresh")
  /\ \/ RefreshFails(c)
     \/ /\ caller[c].seen.refresh \in valid
        /\ issued < MaxTokens
        /\ valid' = (valid \ {caller[c].seen.refresh}) \cup {issued + 1}
        /\ \/ Issue(c, "keep", {issued + 1}) /\ UNCHANGED lost
           \/ /\ caller' = [caller EXCEPT ![c].pc = "expire"]
              /\ lost' = TRUE
              /\ issued' = issued + 1
  /\ UNCHANGED <<network, oauth, account, crossed, aged, exchanged>>

Keeps(p, c, values) ==
  /\ network = p
  /\ CallerAt(c, "keep")
  /\ Flush(c, values)
  /\ UNCHANGED <<network, oauth, aged, exchanged, granted>>

KeepYouTube(c) == Keeps("youtube", c, WithRefreshIfSent(c))

\* Mutant: the rotated refresh token is dropped.
KeepTikTokAccess(c) ==
  Keeps("tiktok", c, [access |-> caller[c].access, expires |-> caller[c].access])
\* TikTok's refresh leaves the status alone.
KeepTikTok(c) ==
  Keeps("tiktok", c, [access |-> caller[c].access, refresh |-> caller[c].refresh,
                      expires |-> caller[c].access])

MarkExpired(c) ==
  /\ network \in Renewing
  /\ CallerAt(c, "expire")
  /\ Flush(c, [status |-> "EXPIRED"])
  /\ UNCHANGED <<network, oauth, aged, exchanged, granted>>

-----------------------------------------------------------------------------
(* Failures and time *)

\* The process of a run dies, its lease is lost before the call, or its commit
\* fails: what the platform has granted to it is lost.
Abandon(c) ==
  /\ ~CallerAt(c, "idle")
  /\ lost' = (lost \/ CallerAt(c, "keep") \/ CallerAt(c, "erase"))
  /\ caller' = [caller EXCEPT ![c] = IdleCaller]
  /\ UNCHANGED <<network, oauth, account, crossed, issued, valid, aged, exchanged>>

TokenAges ==
  /\ account.expires \in 1..MaxTokens \ aged
  /\ aged' = aged \cup {account.expires}
  /\ UNCHANGED <<network, oauth, account, crossed, exchanged, caller, granted>>

StateExpires(s) ==
  /\ \E row \in oauth :
       /\ row.state = s /\ row.status = "open"
       /\ oauth' = (oauth \ {row}) \cup {[row EXCEPT !.status = "expired"]}
  /\ \A c \in Callers : ~CallerAt(c, "check")
  /\ UNCHANGED <<network, account, crossed, aged, exchanged, caller, granted>>

AccountNext ==
  \/ \E s \in States, b \in Browsers :
       \/ ConnectYouTube(s, b) \/ ConnectInstagram(s, b)
       \/ ConnectTikTok(s, b) \/ ConnectPinterest(s, b)
  \/ \E c \in Callers, s \in States, b \in Browsers :
       \/ CallbackYouTube(c, s, b) \/ CallbackInstagram(c, s, b)
       \/ CallbackTikTok(c, s, b) \/ CallbackPinterest(c, s, b)
  \/ \E c \in Callers :
       \/ ExchangeYouTube(c) \/ ExchangeInstagram(c)
       \/ ExchangeTikTok(c) \/ ExchangePinterest(c)
       \/ Consume(c) \/ LookUp(c)
       \/ StoreYouTube(c) \/ StoreInstagram(c) \/ StoreTikTok(c) \/ StorePinterest(c)
       \/ LoadToDisconnect(c) \/ LoadToDisconnectYouTube(c) \/ Revoke(c)
       \/ DisconnectYouTube(c) \/ DisconnectInstagram(c)
       \/ DisconnectTikTok(c) \/ DisconnectPinterest(c)
       \/ AccessTokenYouTube(c) \/ AccessTokenTikTok(c)
       \/ RenewYouTube(c) \/ RenewTikTok(c)
       \/ KeepYouTube(c) \/ KeepTikTok(c) \/ MarkExpired(c)
       \/ Abandon(c)
  \/ TokenAges
  \/ \E s \in States : StateExpires(s)

AccountSpec == AccountInit /\ [][AccountNext]_accountVars

-----------------------------------------------------------------------------
(* Properties *)

\* A state leads to at most one exchange of a code, however many callbacks
\* arrive for it: it is consumed before the first await of a callback.
StateUsedOnce == \A s \in States : exchanged[s] <= 1

\* A disconnected account becomes connected by a callback, i.e. by a new
\* consent of the user, and never by a refresh that was under way when it was
\* disconnected.  The exceptions are YouTube's refresh of a row that it loaded
\* EXPIRED, since only then is its CONNECTED a change the session writes, and of a
\* row in which an earlier crossing left tokens.
OnlyConsentConnects ==
  [][account.status = "DISCONNECTED" /\ account'.status = "CONNECTED" =>
       \E c \in Callers :
         \/ CallerAt(c, "grant") /\ account'.access = caller[c].access
         \/ KeepYouTube(c) /\ (caller[c].seen.status = "EXPIRED" \/ crossed # {})]_accountVars

\* A disconnected row holds no token, unless a run stored the tokens of an earlier or
\* a later grant around a disconnect it did not know of.  The refresh token of a
\* connected row is one that the platform accepts when no run is about to store what
\* the platform did, no answer of the platform was lost and no two runs crossed:
\* neither a callback nor a refresh drops the token that replaces the one it uses up.
TokensFollowTheStatus ==
  /\ account.status = "DISCONNECTED" /\ crossed \subseteq {"expire"} =>
       account.access = 0 /\ account.refresh = 0
  /\ /\ account.status = "CONNECTED" /\ account.refresh # 0
     /\ ~lost /\ crossed = {}
     /\ \A c \in Callers : ~CallerAt(c, "erase") /\ ~CallerAt(c, "keep")
     => account.refresh \in valid
=============================================================================
