------------------------ MODULE SocialAccountsProofs ------------------------
(***************************************************************************)
(* Proofs about SocialAccounts, for any number of concurrent callbacks,     *)
(* disconnects and refreshes, of OAuth states, browsers and grants.         *)
(*                                                                          *)
(* A state is fresh until a callback has consumed it, which it does before  *)
(* its first await: no two callbacks hold the same state (CodesOnce).  A    *)
(* grant is known to the run it was issued to and to nobody else until this *)
(* run has flushed it (GrantsAreFresh), so that no other run can use up or  *)
(* revoke the refresh token that a row is about to hold; and runs that do   *)
(* not cross leave a row as they would alone (ClearedRows, RefreshIsGood).  *)
(***************************************************************************)
EXTENDS SocialAccounts, TLAPS

\* The sessions of the coroutines: a state has one row.
OneRowEach == \A r1, r2 \in oauth : r1.state = r2.state => r1 = r2
OneChecks == \A c, d \in Callers : CallerAt(c, "check") /\ CallerAt(d, "check") => c = d

Fresh(s) == \A row \in oauth : row.state = s => row.status # "used"
HasRow(s) == \E row \in oauth : row.state = s

CodesOnce ==
  \A s \in States :
    /\ Fresh(s) => exchanged[s] = 0
    /\ \A c \in Callers : s \in caller[c].asked =>
         /\ CallerAt(c, "check") => Fresh(s) /\ HasRow(s)
         /\ CallerAt(c, "exchange") =>
              /\ ~Fresh(s) /\ exchanged[s] = 0
              /\ \A d \in Callers :
                   CallerAt(d, "exchange") /\ s \in caller[d].asked => c = d

\* Runs that hold a grant which the row does not have yet.
Holding(c) == caller[c].pc \in {"look", "grant", "keep"}
NotIn(row, token) == row.access # token /\ row.refresh # token

KnownTokens ==
  /\ account.access <= issued /\ account.refresh <= issued
  /\ \A c \in Callers : caller[c].seen.access <= issued /\ caller[c].seen.refresh <= issued

GrantsAreFresh ==
  \A c \in Callers : Holding(c) =>
    /\ caller[c].access \in 1..issued
    /\ caller[c].refresh \in {0, caller[c].access}
    /\ caller[c].refresh # 0 => caller[c].refresh \in valid
    /\ NotIn(account, caller[c].access)
    /\ \A d \in Callers : NotIn(caller[d].seen, caller[c].access)
    /\ \A d \in Callers : d # c /\ Holding(d) => caller[d].access # caller[c].access

\* What a run that is to refresh loaded.
DueRows ==
  \A c \in Callers : caller[c].pc \in {"refresh", "keep", "expire"} =>
    /\ caller[c].seen.access # 0
    /\ network = "tiktok" => caller[c].seen.status = "CONNECTED"

\* A row that does not exist was seen by nobody.
NoRowIsSeen ==
  /\ account.status = "NONE" =>
       account.access = 0 /\ \A c \in Callers : caller[c].seen.status = "NONE"
  /\ \A c \in Callers : caller[c].seen.status = "NONE" => caller[c].seen.access = 0

NoTokens(row) == row.status = "DISCONNECTED" => row.access = 0 /\ row.refresh = 0

ClearedRows ==
  crossed \subseteq {"expire"} =>
    NoTokens(account) /\ \A c \in Callers : NoTokens(caller[c].seen)

\* Runs that are about to store what the platform did to the refresh token.
Replacing(c) == CallerAt(c, "erase") \/ (network = "tiktok" /\ CallerAt(c, "keep"))

RefreshIsGood ==
  ~lost /\ crossed = {} /\ account.refresh # 0 =>
    account.refresh \in valid \/ \E c \in Callers : Replacing(c)

StateInv == OneRowEach /\ OneChecks /\ CodesOnce /\ StateUsedOnce
TokenInv == KnownTokens /\ GrantsAreFresh /\ DueRows /\ NoRowIsSeen /\ ClearedRows
            /\ RefreshIsGood
AInv == AccountTypeOK /\ StateInv /\ TokenInv

-----------------------------------------------------------------------------
(***************************************************************************)
(* What a flush makes of the row.                                           *)
(***************************************************************************)
Columns == {"status", "access", "refresh", "expires"}

LEMMA Rows ==
  /\ NoRow \in AccountRow /\ IdleCaller \in CallerRun
  /\ NoRow.status = "NONE" /\ NoRow.access = 0 /\ NoRow.refresh = 0
  /\ IdleCaller.pc = "idle" /\ IdleCaller.asked = {} /\ IdleCaller.seen = NoRow
  /\ DOMAIN NoRow = Columns
<1>1. 0 \in Tokens
  BY TokensAssumption DEF Tokens
<1>2. NoRow \in AccountRow
  BY <1>1 DEF NoRow, AccountRow
<1> QED BY <1>1, <1>2 DEF IdleCaller, CallerRun, NoRow, Columns

LEMMA CallerSet ==
  ASSUME AccountTypeOK, NEW c \in Callers, NEW x \in CallerRun,
         caller' = [caller EXCEPT ![c] = x]
  PROVE  /\ caller' \in [Callers -> CallerRun] /\ caller'[c] = x
         /\ \A d \in Callers : d # c => caller'[d] = caller[d]
BY DEF AccountTypeOK

LEMMA FlushedRow ==
  ASSUME AccountTypeOK, NEW c \in Callers, NEW values, Flush(c, values),
         DOMAIN values \subseteq Columns,
         "status" \in DOMAIN values =>
           values["status"] \in {"CONNECTED", "EXPIRED", "DISCONNECTED"},
         \A k \in DOMAIN values \ {"status"} : values[k] \in Tokens
  PROVE  /\ account' \in AccountRow
         /\ account'.status =
              IF "status" \in DOMAIN values /\ values["status"] # caller[c].seen.status
              THEN values["status"] ELSE account.status
         /\ account'.access =
              IF /\ "access" \in DOMAIN values
                 /\ values["access"] # caller[c].seen.access \/ values["access"] # 0
              THEN values["access"] ELSE account.access
         /\ account'.refresh =
              IF /\ "refresh" \in DOMAIN values
                 /\ values["refresh"] # caller[c].seen.refresh \/ values["refresh"] # 0
              THEN values["refresh"] ELSE account.refresh
<1> DEFINE dirty(k) == /\ k \in DOMAIN values
                       /\ \/ values[k] # caller[c].seen[k]
                          \/ k \in {"access", "refresh"} /\ values[k] # 0
<1>1. account' = [k \in Columns |-> IF dirty(k) THEN values[k] ELSE account[k]]
  BY Rows DEF Flush
<1> HIDE DEF dirty
<1>2. /\ account'["status"] = IF dirty("status") THEN values["status"] ELSE account["status"]
      /\ account'["access"] = IF dirty("access") THEN values["access"] ELSE account["access"]
      /\ account'["refresh"] =
           IF dirty("refresh") THEN values["refresh"] ELSE account["refresh"]
      /\ account'["expires"] =
           IF dirty("expires") THEN values["expires"] ELSE account["expires"]
  BY <1>1 DEF Columns
<1>3. account \in AccountRow
  BY DEF AccountTypeOK
<1>4. account' = [status |-> account'["status"], access |-> account'["access"],
                  refresh |-> account'["refresh"], expires |-> account'["expires"]]
  BY <1>1 DEF Columns
<1>5. /\ account'["status"] \in {"NONE", "CONNECTED", "EXPIRED", "DISCONNECTED"}
      /\ account'["access"] \in Tokens /\ account'["refresh"] \in Tokens
      /\ account'["expires"] \in Tokens
  BY <1>2, <1>3 DEF dirty, AccountRow
<1>6. account' \in AccountRow
  BY <1>4, <1>5 DEF AccountRow
<1> QED BY <1>2, <1>6 DEF dirty

\* The actions that flush a row, and what they all do to it.
FlushStep(c) ==
  \/ StoreYouTube(c) \/ StoreInstagram(c) \/ StoreTikTok(c) \/ StorePinterest(c)
  \/ DisconnectYouTube(c) \/ DisconnectInstagram(c)
  \/ DisconnectTikTok(c) \/ DisconnectPinterest(c)
  \/ KeepYouTube(c) \/ KeepTikTok(c) \/ MarkExpired(c)

Flushes(c) ==
  /\ UNCHANGED <<network, oauth, aged, exchanged, issued, valid, lost>>
  /\ caller' = [caller EXCEPT ![c] = IdleCaller]
  /\ caller[c].pc \in {"grant", "clear", "erase", "keep", "expire"}
  /\ \/ caller[c].seen = account /\ crossed' = crossed
     \/ crossed' = crossed \cup {caller[c].pc}

TakesTokens(c) ==
  /\ account' \in AccountRow
  /\ \/ account'.access \in {0, account.access}
     \/ Holding(c) /\ account'.access = caller[c].access
  /\ \/ account'.refresh \in {0, account.refresh}
     \/ Holding(c) /\ account'.refresh = caller[c].refresh

LeavesRowTrue(c) ==
  /\ account'.status # "NONE"
  /\ (caller[c].seen = account \/ CallerAt(c, "expire")) /\ NoTokens(account) =>
       NoTokens(account')
  /\ caller[c].seen = account =>
       \/ account'.refresh = 0
       \/ account'.refresh = account.refresh /\ ~Replacing(c)
       \/ Holding(c) /\ account'.refresh = caller[c].refresh

Reconnects(c) ==
  account.status = "DISCONNECTED" /\ account'.status = "CONNECTED" =>
    \/ CallerAt(c, "grant") /\ account'.access = caller[c].access
    \/ /\ CallerAt(c, "keep") /\ network = "youtube"
       /\ caller[c].seen.status = "EXPIRED" \/ crossed # {}

\* The values that a callback or YouTube's refresh assigns.
LEMMA GrantFlushed ==
  ASSUME AccountTypeOK, TokenInv, NEW c \in Callers,
         \/ CallerAt(c, "grant")
         \/ CallerAt(c, "keep") /\ network = "youtube",
         Flush(c, WithRefresh(c)) \/ (Flush(c, Granted(c)) /\ caller[c].refresh = 0)
  PROVE  TakesTokens(c) /\ LeavesRowTrue(c) /\ Reconnects(c)
<1>1. /\ caller[c] \in CallerRun /\ caller[c].access \in Tokens /\ caller[c].refresh \in Tokens
      /\ caller[c].seen \in AccountRow
  BY DEF AccountTypeOK, CallerRun
<1>2. Holding(c) /\ ~Replacing(c) /\ ~CallerAt(c, "expire")
  BY DEF Holding, Replacing, CallerAt
<1>3. caller[c].access # 0 /\ caller[c].refresh \in {0, caller[c].access}
  BY <1>2 DEF TokenInv, GrantsAreFresh
<1>4. /\ account' \in AccountRow
      /\ account'.status = IF caller[c].seen.status # "CONNECTED" THEN "CONNECTED"
                           ELSE account.status
      /\ account'.access = caller[c].access
      /\ account'.refresh \in {account.refresh, caller[c].refresh}
  <2>1. CASE Flush(c, WithRefresh(c))
    <3> DEFINE values == WithRefresh(c)
    <3>1. /\ DOMAIN values = Columns
          /\ values["status"] = "CONNECTED" /\ values["access"] = caller[c].access
          /\ values["refresh"] = caller[c].refresh /\ values["expires"] = caller[c].access
      BY DEF WithRefresh, Columns
    <3>2. Flush(c, values)
      BY <2>1
    <3> HIDE DEF values
    <3> QED BY <1>1, <1>3, <3>1, <3>2, FlushedRow DEF Columns
  <2>2. CASE Flush(c, Granted(c))
    <3> DEFINE values == Granted(c)
    <3>1. /\ DOMAIN values = {"status", "access", "expires"}
          /\ values["status"] = "CONNECTED" /\ values["access"] = caller[c].access
          /\ values["expires"] = caller[c].access
      BY DEF Granted
    <3>2. Flush(c, values)
      BY <2>2
    <3> HIDE DEF values
    <3> QED BY <1>1, <1>3, <3>1, <3>2, FlushedRow DEF Columns
  <2> QED BY <2>1, <2>2
<1>5. account.status = "NONE" => caller[c].seen.status = "NONE"
  BY DEF TokenInv, NoRowIsSeen
<1>6. TakesTokens(c)
  BY <1>2, <1>4 DEF TakesTokens
<1>7. LeavesRowTrue(c)
  BY <1>2, <1>4, <1>5 DEF LeavesRowTrue, NoTokens
<1>8. Reconnects(c)
  <2>1. CASE CallerAt(c, "keep") /\ network = "youtube" /\ account.status = "DISCONNECTED"
             /\ account'.status = "CONNECTED"
    <3>1. caller[c].seen.access # 0 /\ caller[c].seen.status # "CONNECTED"
      BY <1>4, <2>1 DEF TokenInv, DueRows, CallerAt
    <3>2. crossed = {} => caller[c].seen.status # "DISCONNECTED"
      BY <3>1 DEF TokenInv, ClearedRows, NoTokens
    <3>3. crossed = {} => caller[c].seen.status # "NONE"
      BY <3>1 DEF TokenInv, NoRowIsSeen
    <3> QED BY <1>1, <2>1, <3>1, <3>2, <3>3 DEF Reconnects, AccountRow
  <2> QED BY <1>4, <2>1 DEF Reconnects
<1> QED BY <1>6, <1>7, <1>8

LEMMA ClearFlushed ==
  ASSUME AccountTypeOK, TokenInv, NEW c \in Callers,
         CallerAt(c, "clear") \/ CallerAt(c, "erase"),
         Flush(c, Cleared)
  PROVE  TakesTokens(c) /\ LeavesRowTrue(c) /\ Reconnects(c)
<1>1. caller[c].seen \in AccountRow /\ account \in AccountRow
  BY DEF AccountTypeOK, CallerRun
<1> DEFINE values == Cleared
<1>2. /\ DOMAIN values = Columns
      /\ values["status"] = "DISCONNECTED" /\ values["access"] = 0
      /\ values["refresh"] = 0 /\ values["expires"] = 0 /\ 0 \in Tokens
  BY TokensAssumption DEF Cleared, Columns, Tokens
<1>3. Flush(c, values)
  OBVIOUS
<1> HIDE DEF values
<1>4. /\ account' \in AccountRow
      /\ account'.status = IF caller[c].seen.status # "DISCONNECTED" THEN "DISCONNECTED"
                           ELSE account.status
      /\ account'.access = IF caller[c].seen.access # 0 THEN 0 ELSE account.access
      /\ account'.refresh = IF caller[c].seen.refresh # 0 THEN 0 ELSE account.refresh
  BY <1>2, <1>3, FlushedRow DEF Columns
<1>5. caller[c].seen = account =>
        account'.status = "DISCONNECTED" /\ account'.access = 0 /\ account'.refresh = 0
  BY <1>4
<1>6. account.status = "NONE" => caller[c].seen.status = "NONE"
  BY DEF TokenInv, NoRowIsSeen
<1> QED BY <1>4, <1>5, <1>6 DEF TakesTokens, LeavesRowTrue, Reconnects, NoTokens, CallerAt

LEMMA TikTokFlushed ==
  ASSUME AccountTypeOK, TokenInv, NEW c \in Callers, KeepTikTok(c)
  PROVE  TakesTokens(c) /\ LeavesRowTrue(c) /\ Reconnects(c)
<1>1. /\ CallerAt(c, "keep") /\ network = "tiktok" /\ Holding(c)
      /\ caller[c].access \in Tokens /\ caller[c].refresh \in Tokens
      /\ caller[c].seen \in AccountRow /\ account \in AccountRow
  BY DEF KeepTikTok, Keeps, AccountTypeOK, CallerRun, Holding, CallerAt
<1>2. caller[c].access # 0 /\ caller[c].seen.status = "CONNECTED"
  BY <1>1 DEF TokenInv, GrantsAreFresh, DueRows, CallerAt
<1> DEFINE values == [access |-> caller[c].access, refresh |-> caller[c].refresh,
                      expires |-> caller[c].access]
<1>3. /\ DOMAIN values = {"access", "refresh", "expires"}
      /\ values["access"] = caller[c].access /\ values["expires"] = caller[c].access
      /\ values["refresh"] = caller[c].refresh
  OBVIOUS
<1>4. Flush(c, values)
  BY DEF KeepTikTok, Keeps
<1> HIDE DEF values
<1>5. /\ account' \in AccountRow /\ account'.status = account.status
      /\ account'.access = caller[c].access
      /\ account'.refresh =
           IF caller[c].refresh # caller[c].seen.refresh \/ caller[c].refresh # 0
           THEN caller[c].refresh ELSE account.refresh
  BY <1>1, <1>2, <1>3, <1>4, FlushedRow DEF Columns
<1>6. account.status # "NONE" /\ (caller[c].seen = account => account.status = "CONNECTED")
  BY <1>2 DEF TokenInv, NoRowIsSeen
<1>7. ~CallerAt(c, "expire")
  BY <1>1 DEF CallerAt
<1>8. TakesTokens(c)
  BY <1>1, <1>5 DEF TakesTokens
<1>9. LeavesRowTrue(c)
  BY <1>1, <1>5, <1>6, <1>7 DEF LeavesRowTrue, NoTokens
<1> QED BY <1>5, <1>8, <1>9 DEF Reconnects

LEMMA ExpireFlushed ==
  ASSUME AccountTypeOK, TokenInv, NEW c \in Callers, CallerAt(c, "expire"),
         Flush(c, [status |-> "EXPIRED"])
  PROVE  TakesTokens(c) /\ LeavesRowTrue(c) /\ Reconnects(c)
<1>1. caller[c].seen \in AccountRow /\ account \in AccountRow
  BY DEF AccountTypeOK, CallerRun
<1> DEFINE values == [status |-> "EXPIRED"]
<1>2. DOMAIN values = {"status"} /\ values["status"] = "EXPIRED"
  OBVIOUS
<1>3. Flush(c, values)
  OBVIOUS
<1> HIDE DEF values
<1>4. /\ account' \in AccountRow
      /\ account'.status = IF caller[c].seen.status # "EXPIRED" THEN "EXPIRED"
                           ELSE account.status
      /\ account'.access = account.access /\ account'.refresh = account.refresh
  BY <1>2, <1>3, FlushedRow DEF Columns
<1>5. /\ account.status = "NONE" => caller[c].seen.status = "NONE"
      /\ ~Replacing(c)
  BY DEF TokenInv, NoRowIsSeen, Replacing, CallerAt
<1> QED BY <1>4, <1>5 DEF TakesTokens, LeavesRowTrue, Reconnects, NoTokens

LEMMA FlushStepsFlush ==
  ASSUME AccountTypeOK, TokenInv, NEW c \in Callers, FlushStep(c)
  PROVE  Flushes(c) /\ TakesTokens(c) /\ LeavesRowTrue(c) /\ Reconnects(c)
<1>1. CASE \/ StoreYouTube(c) \/ StoreInstagram(c) \/ StoreTikTok(c) \/ StorePinterest(c)
           \/ KeepYouTube(c)
  <2>1. /\ CallerAt(c, "grant") \/ (CallerAt(c, "keep") /\ network = "youtube")
        /\ Flush(c, WithRefresh(c)) \/ (Flush(c, Granted(c)) /\ caller[c].refresh = 0)
    BY <1>1 DEF StoreYouTube, StoreInstagram, StoreTikTok, StorePinterest, KeepYouTube,
       Stores, Keeps, WithRefreshIfSent
  <2>2. UNCHANGED <<network, oauth, aged, exchanged, issued, valid, lost>>
    BY <1>1 DEF StoreYouTube, StoreInstagram, StoreTikTok, StorePinterest, KeepYouTube,
       Stores, Keeps, granted
  <2>3. Flushes(c)
    BY <2>1, <2>2 DEF Flushes, Flush, CallerAt
  <2> QED BY <2>1, <2>3, GrantFlushed
<1>2. CASE \/ DisconnectYouTube(c) \/ DisconnectInstagram(c)
           \/ DisconnectTikTok(c) \/ DisconnectPinterest(c)
  <2>1. /\ CallerAt(c, "clear") \/ CallerAt(c, "erase")
        /\ Flush(c, Cleared)
        /\ UNCHANGED <<network, oauth, aged, exchanged, issued, valid, lost>>
    BY <1>2 DEF DisconnectYouTube, DisconnectInstagram, DisconnectTikTok,
       DisconnectPinterest, Clears, granted
  <2>2. Flushes(c)
    BY <2>1 DEF Flushes, Flush, CallerAt
  <2> QED BY <2>1, <2>2, ClearFlushed
<1>3. CASE KeepTikTok(c)
  <2>1. Flushes(c)
    BY <1>3 DEF KeepTikTok, Keeps, Flushes, Flush, CallerAt, granted
  <2> QED BY <1>3, <2>1, TikTokFlushed
<1>4. CASE MarkExpired(c)
  <2>1. Flushes(c)
    BY <1>4 DEF MarkExpired, Flushes, Flush, CallerAt, granted
  <2>2. CallerAt(c, "expire") /\ Flush(c, [status |-> "EXPIRED"])
    BY <1>4 DEF MarkExpired
  <2> QED BY <2>1, <2>2, ExpireFlushed
<1> QED BY <1>1, <1>2, <1>3, <1>4 DEF FlushStep

-----------------------------------------------------------------------------
(***************************************************************************)
(* The tokens, whatever step is taken.                                      *)
(***************************************************************************)
LEMMA FlushesKeepTokenInv ==
  ASSUME AccountTypeOK, TokenInv, NEW c \in Callers, Flushes(c), TakesTokens(c),
         LeavesRowTrue(c)
  PROVE  AccountTypeOK' /\ TokenInv'
<1>1. /\ KnownTokens /\ GrantsAreFresh /\ DueRows /\ NoRowIsSeen /\ ClearedRows
      /\ RefreshIsGood
  BY DEF TokenInv
<1>2. /\ network' = network /\ issued' = issued /\ valid' = valid /\ lost' = lost
      /\ oauth' = oauth /\ aged' = aged /\ exchanged' = exchanged
      /\ caller[c].pc \in {"grant", "clear", "erase", "keep", "expire"}
  BY DEF Flushes
<1>3. /\ caller' \in [Callers -> CallerRun] /\ caller'[c] = IdleCaller
      /\ \A d \in Callers : d # c => caller'[d] = caller[d]
  BY CallerSet, Rows DEF Flushes
<1>4. \/ caller[c].seen = account /\ crossed' = crossed
      \/ crossed' = crossed \cup {caller[c].pc}
  BY DEF Flushes
<1>5. ~Holding(c)' /\ ~Replacing(c)' /\ IdleCaller.pc = "idle"
      /\ IdleCaller.seen.status = "NONE"
      /\ IdleCaller.seen.access = 0 /\ IdleCaller.seen.refresh = 0
  BY <1>3, Rows DEF Holding, Replacing, CallerAt
<1>6. \A d \in Callers : d # c => /\ Holding(d)' <=> Holding(d)
                                  /\ Replacing(d)' <=> Replacing(d)
  BY <1>2, <1>3 DEF Holding, Replacing, CallerAt
<1>7. AccountTypeOK'
  BY <1>2, <1>3, <1>4 DEF AccountTypeOK, TakesTokens
<1>8. account'.access \in Tokens /\ account'.refresh \in Tokens /\ issued \in Tokens
      /\ account.access \in Tokens /\ account.refresh \in Tokens
      /\ caller[c].refresh \in Tokens /\ caller[c].access \in Tokens
  BY <1>7 DEF AccountTypeOK, AccountRow, CallerRun
<1>9. KnownTokens'
  <2>1. account'.access <= issued /\ account'.refresh <= issued
    BY <1>1, <1>8 DEF KnownTokens, GrantsAreFresh, TakesTokens, Tokens
  <2> QED BY <1>1, <1>2, <1>3, <1>5, <1>8, <2>1 DEF KnownTokens, Tokens
<1>10. GrantsAreFresh'
  <2>1. SUFFICES ASSUME NEW d \in Callers, Holding(d)'
                 PROVE  /\ caller'[d].access \in 1..issued
                        /\ caller'[d].refresh \in {0, caller'[d].access}
                        /\ caller'[d].refresh # 0 => caller'[d].refresh \in valid
                        /\ NotIn(account', caller'[d].access)
                        /\ \A e \in Callers : NotIn(caller'[e].seen, caller'[d].access)
                        /\ \A e \in Callers : e # d /\ Holding(e)' =>
                             caller'[e].access # caller'[d].access
    BY <1>2 DEF GrantsAreFresh
  <2>2. d # c /\ caller'[d] = caller[d] /\ Holding(d)
    BY <1>3, <1>5, <1>6, <2>1
  <2>3. /\ caller[d].access \in 1..issued
        /\ caller[d].refresh \in {0, caller[d].access}
        /\ caller[d].refresh # 0 => caller[d].refresh \in valid
        /\ NotIn(account, caller[d].access)
        /\ \A e \in Callers : NotIn(caller[e].seen, caller[d].access)
        /\ \A e \in Callers : e # d /\ Holding(e) => caller[e].access # caller[d].access
    BY <1>1, <2>2 DEF GrantsAreFresh
  <2>4. Holding(c) => caller[c].access # caller[d].access
                      /\ caller[c].refresh \in {0, caller[c].access}
    BY <1>1, <2>2, <2>3 DEF GrantsAreFresh
  <2>5. caller[d].access # 0
    BY <2>3, <1>8 DEF Tokens
  <2>6. NotIn(account', caller[d].access)
    BY <2>3, <2>4, <2>5 DEF NotIn, TakesTokens
  <2>7. \A e \in Callers : NotIn(caller'[e].seen, caller[d].access)
    BY <1>3, <1>5, <2>3, <2>5 DEF NotIn
  <2> QED BY <1>3, <1>5, <1>6, <2>2, <2>3, <2>6, <2>7
<1>11. DueRows'
  BY <1>1, <1>2, <1>3, <1>5 DEF DueRows
<1>12. NoRowIsSeen'
  BY <1>1, <1>3, <1>5 DEF NoRowIsSeen, LeavesRowTrue
<1>13. ClearedRows'
  <2>1. ASSUME crossed' \subseteq {"expire"}
        PROVE  /\ crossed \subseteq {"expire"}
               /\ caller[c].seen = account \/ CallerAt(c, "expire")
    BY <1>4, <2>1 DEF CallerAt
  <2> QED BY <1>1, <1>3, <1>5, <2>1 DEF ClearedRows, LeavesRowTrue, NoTokens
<1>14. RefreshIsGood'
  <2>1. SUFFICES ASSUME ~lost, crossed' = {}, account'.refresh # 0
                 PROVE  account'.refresh \in valid \/ \E d \in Callers : Replacing(d)'
    BY <1>2 DEF RefreshIsGood
  <2>2. crossed = {} /\ caller[c].seen = account
    BY <1>4, <2>1
  <2>3. CASE Holding(c) /\ account'.refresh = caller[c].refresh
    BY <1>1, <2>1, <2>3 DEF GrantsAreFresh
  <2>4. CASE account'.refresh = account.refresh /\ ~Replacing(c)
    BY <1>1, <1>6, <2>1, <2>2, <2>4 DEF RefreshIsGood
  <2> QED BY <2>1, <2>2, <2>3, <2>4 DEF LeavesRowTrue
<1> QED BY <1>7, <1>9, <1>10, <1>11, <1>12, <1>13, <1>14 DEF TokenInv

\* A step that leaves the row alone.  The run goes on as x; it may load the row, be
\* given the next grant, or make the platform void a token of the row it loaded.
Works(c, x) ==
  /\ account' = account /\ crossed' = crossed /\ network' = network
  /\ caller' = [caller EXCEPT ![c] = x]
  /\ issued' \in {issued, issued + 1} /\ issued' <= MaxTokens
  /\ lost' \in BOOLEAN /\ (lost => lost')
  /\ valid' \subseteq 1..MaxTokens
  /\ x.seen \in {caller[c].seen, account, NoRow}
  /\ x.pc \in {"look", "grant", "keep"} =>
       \/ /\ Holding(c)
          /\ x.access = caller[c].access /\ x.refresh = caller[c].refresh
       \/ /\ issued' = issued + 1 /\ x.access = issued + 1 /\ x.refresh \in {0, issued + 1}
          /\ x.refresh # 0 => issued + 1 \in valid'
  /\ \A t \in valid : \/ t \in valid'
                      \/ /\ t \in {caller[c].seen.access, caller[c].seen.refresh}
                         /\ lost' \/ Replacing(c)'
  /\ Replacing(c) => lost' \/ Replacing(c)'
  /\ x.pc \in {"refresh", "keep", "expire"} =>
       /\ x.seen.access # 0
       /\ network = "tiktok" => x.seen.status = "CONNECTED"

LEMMA WorksKeepsTokenInv ==
  ASSUME AccountTypeOK, TokenInv, NEW c \in Callers, NEW x \in CallerRun, Works(c, x)
  PROVE  TokenInv'
<1>1. /\ KnownTokens /\ GrantsAreFresh /\ DueRows /\ NoRowIsSeen /\ ClearedRows
      /\ RefreshIsGood
  BY DEF TokenInv
<1>2. /\ account' = account /\ crossed' = crossed /\ network' = network
      /\ issued' \in {issued, issued + 1} /\ (lost => lost')
      /\ x.seen \in {caller[c].seen, account, NoRow}
  BY DEF Works
<1>3. /\ caller' \in [Callers -> CallerRun] /\ caller'[c] = x
      /\ \A d \in Callers : d # c => caller'[d] = caller[d]
  BY CallerSet DEF Works
<1>4. /\ issued \in Nat /\ issued' \in Nat /\ issued <= issued'
      /\ account.access \in Nat /\ account.refresh \in Nat /\ valid \subseteq Nat
      /\ \A d \in Callers : /\ caller[d].seen.access \in Nat /\ caller[d].seen.refresh \in Nat
                            /\ caller[d].access \in Nat /\ caller[d].refresh \in Nat
  BY <1>2, TokensAssumption DEF AccountTypeOK, AccountRow, CallerRun, Tokens
<1>5. \A d \in Callers : d # c => /\ Holding(d)' <=> Holding(d)
                                  /\ Replacing(d)' <=> Replacing(d)
  BY <1>2, <1>3 DEF Holding, Replacing, CallerAt
<1>6. \A d \in Callers : caller'[d].seen \in {caller[d].seen, account, NoRow}
  BY <1>2, <1>3
<1>7. NoRow.status = "NONE" /\ NoRow.access = 0 /\ NoRow.refresh = 0
  BY Rows
<1>8. KnownTokens'
  BY <1>1, <1>2, <1>4, <1>6, <1>7 DEF KnownTokens
<1>9. Holding(c)' =>
        \/ /\ Holding(c)
           /\ x.access = caller[c].access /\ x.refresh = caller[c].refresh
        \/ /\ issued' = issued + 1 /\ x.access = issued + 1 /\ x.refresh \in {0, issued + 1}
           /\ x.refresh # 0 => issued + 1 \in valid'
  BY <1>3 DEF Works, Holding
<1>10. GrantsAreFresh'
  <2>1. \A d \in Callers : Holding(d) =>
          /\ caller[d].access \in 1..issued'
          /\ caller[d].refresh \in {0, caller[d].access}
          /\ caller[d].refresh # 0 => caller[d].refresh \in valid'
          /\ NotIn(account, caller[d].access)
          /\ \A e \in Callers : NotIn(caller'[e].seen, caller[d].access)
          /\ caller[d].access # issued + 1
          /\ \A e \in Callers : e # d /\ Holding(e) => caller[e].access # caller[d].access
    <3>1. SUFFICES ASSUME NEW d \in Callers, Holding(d)
                   PROVE  /\ caller[d].access \in 1..issued'
                          /\ caller[d].refresh \in {0, caller[d].access}
                          /\ caller[d].refresh # 0 => caller[d].refresh \in valid'
                          /\ NotIn(account, caller[d].access)
                          /\ \A e \in Callers : NotIn(caller'[e].seen, caller[d].access)
                          /\ caller[d].access # issued + 1
                          /\ \A e \in Callers : e # d /\ Holding(e) =>
                               caller[e].access # caller[d].access
      OBVIOUS
    <3>2. /\ caller[d].access \in 1..issued
          /\ caller[d].refresh \in {0, caller[d].access}
          /\ caller[d].refresh # 0 => caller[d].refresh \in valid
          /\ NotIn(account, caller[d].access)
          /\ \A e \in Callers : NotIn(caller[e].seen, caller[d].access)
          /\ \A e \in Callers : e # d /\ Holding(e) => caller[e].access # caller[d].access
      BY <1>1, <3>1 DEF GrantsAreFresh
    <3>3. caller[d].access \in 1..issued' /\ caller[d].access # issued + 1
          /\ caller[d].access # 0
      BY <1>4, <3>2
    <3>4. caller[d].refresh # 0 => caller[d].refresh \in valid'
      <4>1. NotIn(caller[c].seen, caller[d].access)
        BY <3>2
      <4> QED BY <3>2, <4>1 DEF NotIn, Works
    <3>5. \A e \in Callers : NotIn(caller'[e].seen, caller[d].access)
      BY <1>6, <1>7, <3>2, <3>3 DEF NotIn
    <3> QED BY <3>2, <3>3, <3>4, <3>5
  <2>2. NotIn(account, issued + 1)
        /\ \A e \in Callers : NotIn(caller'[e].seen, issued + 1)
    <3>1. \A row \in {account, NoRow} \cup {caller[e].seen : e \in Callers} :
            NotIn(row, issued + 1)
      BY <1>1, <1>4, <1>7 DEF KnownTokens, NotIn
    <3> QED BY <1>6, <3>1
  <2>3. ASSUME NEW d \in Callers, Holding(d)'
        PROVE  /\ caller'[d].access \in 1..issued'
               /\ caller'[d].refresh \in {0, caller'[d].access}
               /\ caller'[d].refresh # 0 => caller'[d].refresh \in valid'
               /\ NotIn(account, caller'[d].access)
               /\ \A e \in Callers : NotIn(caller'[e].seen, caller'[d].access)
    <3>1. CASE Holding(d) /\ caller'[d].access = caller[d].access
               /\ caller'[d].refresh = caller[d].refresh
      BY <2>1, <3>1
    <3>2. CASE /\ issued' = issued + 1 /\ caller'[d].access = issued + 1
               /\ caller'[d].refresh \in {0, issued + 1}
               /\ caller'[d].refresh # 0 => issued + 1 \in valid'
      BY <1>4, <2>2, <3>2
    <3> QED BY <1>3, <1>5, <1>9, <2>3, <3>1, <3>2
  <2>4. ASSUME NEW d \in Callers, NEW e \in Callers, d # e, Holding(d)', Holding(e)'
        PROVE  caller'[e].access # caller'[d].access
    BY <1>3, <1>5, <1>9, <2>1, <2>4
  <2> QED BY <1>2, <2>3, <2>4 DEF GrantsAreFresh
<1>11. DueRows'
  BY <1>1, <1>2, <1>3 DEF DueRows, Works
<1>12. NoRowIsSeen'
  BY <1>1, <1>2, <1>6, <1>7 DEF NoRowIsSeen
<1>13. ClearedRows'
  BY <1>1, <1>2, <1>6, <1>7 DEF ClearedRows, NoTokens
<1>14. RefreshIsGood'
  <2>1. SUFFICES ASSUME ~lost', crossed = {}, account.refresh # 0
                 PROVE  account.refresh \in valid' \/ \E d \in Callers : Replacing(d)'
    BY <1>2 DEF RefreshIsGood
  <2>2. ~lost
    BY <1>2, <2>1
  <2>3. account.refresh \in valid => account.refresh \in valid' \/ Replacing(c)'
    BY <2>1 DEF Works
  <2>4. \A d \in Callers : Replacing(d) => Replacing(d)'
    BY <1>5, <2>1 DEF Works
  <2> QED BY <1>1, <2>1, <2>2, <2>3, <2>4 DEF RefreshIsGood
<1> QED BY <1>8, <1>10, <1>11, <1>12, <1>13, <1>14 DEF TokenInv

\* What becomes of a run whose place is set.
RunPlaces == {"idle", "check", "exchange", "look", "grant", "revoke", "clear", "erase",
              "refresh", "keep", "expire"}

LEMMA PlaceSet ==
  ASSUME NEW r \in CallerRun, NEW pc \in RunPlaces
  PROVE  /\ [r EXCEPT !.pc = pc] \in CallerRun /\ [r EXCEPT !.pc = pc].pc = pc
         /\ [r EXCEPT !.pc = pc].seen = r.seen /\ [r EXCEPT !.pc = pc].asked = r.asked
BY DEF CallerRun, RunPlaces

Steady == UNCHANGED <<network, account, crossed>>

\* A run that goes on or ends, without a grant, a load or a call.
LEMMA GoingOnWorks ==
  ASSUME AccountTypeOK, TokenInv, NEW c \in Callers, Steady,
         issued' \in {issued, issued + 1}, issued' <= MaxTokens,
         lost' \in BOOLEAN, lost => lost', valid' \subseteq 1..MaxTokens,
         NEW pc \in {"idle", "exchange", "erase", "expire"},
         \/ caller' = [caller EXCEPT ![c].pc = pc]
         \/ pc = "idle" /\ caller' = [caller EXCEPT ![c] = IdleCaller],
         \A t \in valid : \/ t \in valid'
                          \/ /\ t \in {caller[c].seen.access, caller[c].seen.refresh}
                             /\ lost' \/ pc = "erase",
         Replacing(c) => lost',
         pc = "expire" => caller[c].pc = "refresh"
  PROVE  \E x \in CallerRun : Works(c, x) /\ x.pc = pc
<1>1. caller[c] \in CallerRun /\ account \in AccountRow /\ 0 \in Tokens
      /\ pc \in RunPlaces
  BY TokensAssumption DEF AccountTypeOK, Tokens, RunPlaces
<1>2. \E x \in CallerRun : /\ caller' = [caller EXCEPT ![c] = x] /\ x.pc = pc
                           /\ x.seen \in {caller[c].seen, NoRow}
                           /\ pc # "idle" => x.seen = caller[c].seen
  <2>1. CASE caller' = [caller EXCEPT ![c].pc = pc]
    <3> DEFINE x == [caller[c] EXCEPT !.pc = pc]
    <3>1. x \in CallerRun /\ x.pc = pc /\ x.seen = caller[c].seen
      BY <1>1, PlaceSet
    <3>2. caller' = [caller EXCEPT ![c] = x]
      BY <2>1
    <3> QED BY <3>1, <3>2
  <2>2. CASE pc = "idle" /\ caller' = [caller EXCEPT ![c] = IdleCaller]
    BY <2>2, Rows
  <2> QED BY <2>1, <2>2
<1>3. PICK x \in CallerRun : /\ caller' = [caller EXCEPT ![c] = x] /\ x.pc = pc
                             /\ x.seen \in {caller[c].seen, NoRow}
                             /\ pc # "idle" => x.seen = caller[c].seen
  BY <1>2
<1>4. caller'[c] = x
  BY <1>3, CallerSet
<1>5. pc = "erase" => Replacing(c)'
  BY <1>3, <1>4 DEF Replacing, CallerAt
<1>6. x.pc = "expire" => /\ x.seen.access # 0
                         /\ network = "tiktok" => x.seen.status = "CONNECTED"
  BY <1>3 DEF TokenInv, DueRows
<1> QED BY <1>3, <1>5, <1>6 DEF Works, Steady

LEMMA LoadingWorks ==
  ASSUME AccountTypeOK, TokenInv, NEW c \in Callers, Steady,
         UNCHANGED <<issued, valid, lost>>,
         NEW pc \in {"grant", "revoke", "clear", "refresh", "expire"}, Load(c, pc),
         caller[c].pc \in {"idle", "look"}, pc = "grant" => caller[c].pc = "look",
         pc \in {"refresh", "expire"} =>
           /\ account.access # 0
           /\ network = "tiktok" => account.status = "CONNECTED"
  PROVE  \E x \in CallerRun : Works(c, x) /\ x.pc = pc
<1>1. caller[c] \in CallerRun /\ account \in AccountRow /\ 0 \in Tokens
      /\ issued \in Tokens /\ lost \in BOOLEAN /\ valid \subseteq 1..MaxTokens
      /\ pc \in RunPlaces
  BY TokensAssumption DEF AccountTypeOK, Tokens, RunPlaces
<1> DEFINE x == [caller[c] EXCEPT !.pc = pc, !.seen = account]
<1>2. /\ x \in CallerRun /\ x.pc = pc /\ x.seen = account
      /\ x.access = caller[c].access /\ x.refresh = caller[c].refresh
  BY <1>1 DEF CallerRun, RunPlaces
<1>3. caller' = [caller EXCEPT ![c] = x]
  BY DEF Load
<1> HIDE DEF x
<1>4. ~Replacing(c) /\ (pc = "grant" => Holding(c))
  BY DEF Replacing, CallerAt, Holding
<1>5. issued <= MaxTokens
  BY <1>1, TokensAssumption DEF Tokens
<1>6. Works(c, x)
  BY <1>1, <1>2, <1>3, <1>4, <1>5 DEF Works, Steady
<1> QED BY <1>2, <1>6

\* A grant that reaches the run; a refresh token of it is good.
LEMMA IssuingWorks ==
  ASSUME AccountTypeOK, TokenInv, NEW c \in Callers, Steady, lost' = lost,
         NEW pc \in {"look", "keep"}, NEW renewable, Issue(c, pc, renewable),
         renewable \subseteq {0, issued + 1},
         caller[c].pc \in {"exchange", "refresh"},
         pc = "keep" => caller[c].pc = "refresh",
         valid' \subseteq 1..MaxTokens, renewable = {0} \/ issued + 1 \in valid',
         \A t \in valid : \/ t \in valid'
                          \/ t = caller[c].seen.refresh /\ network = "tiktok" /\ pc = "keep"
  PROVE  \E x \in CallerRun : Works(c, x) /\ x.pc = pc
<1>1. /\ caller[c] \in CallerRun /\ account \in AccountRow /\ 0 \in Tokens
      /\ issued \in Nat /\ lost \in BOOLEAN /\ pc \in RunPlaces
  BY TokensAssumption DEF AccountTypeOK, Tokens, RunPlaces
<1>2. issued + 1 \in Tokens /\ issued' = issued + 1 /\ issued' <= MaxTokens
  BY <1>1, TokensAssumption DEF Issue, Tokens
<1>3. PICK t \in renewable :
        caller' = [caller EXCEPT ![c] =
                     [caller[c] EXCEPT !.pc = pc, !.access = issued + 1, !.refresh = t]]
  BY DEF Issue
<1> DEFINE x == [caller[c] EXCEPT !.pc = pc, !.access = issued + 1, !.refresh = t]
<1>4. t \in Tokens /\ t \in {0, issued + 1}
  BY <1>1, <1>2
<1>5. /\ x \in CallerRun /\ x.pc = pc /\ x.seen = caller[c].seen
      /\ x.access = issued + 1 /\ x.refresh = t
  BY <1>1, <1>2, <1>4 DEF CallerRun, RunPlaces
<1>6. caller' = [caller EXCEPT ![c] = x]
  BY <1>3
<1> HIDE DEF x
<1>7. caller'[c] = x
  BY <1>5, <1>6, CallerSet
<1>8. ~Replacing(c) /\ (network = "tiktok" /\ pc = "keep" => Replacing(c)')
  BY <1>5, <1>7 DEF Replacing, CallerAt, Steady
<1>9. pc = "keep" => /\ x.seen.access # 0
                     /\ network = "tiktok" => x.seen.status = "CONNECTED"
  BY <1>5 DEF TokenInv, DueRows
<1>10. t # 0 => issued + 1 \in valid'
  OBVIOUS
<1>11. Works(c, x)
  BY <1>1, <1>2, <1>4, <1>5, <1>6, <1>8, <1>9, <1>10 DEF Works, Steady
<1> QED BY <1>5, <1>11

\* The actions of a run between its start and its flush.
CallbackStep(c) ==
  \/ \E s \in States, b \in Browsers :
       \/ CallbackYouTube(c, s, b) \/ CallbackInstagram(c, s, b)
       \/ CallbackTikTok(c, s, b) \/ CallbackPinterest(c, s, b)
  \/ Consume(c)
  \/ ExchangeYouTube(c) \/ ExchangeInstagram(c)
  \/ ExchangeTikTok(c) \/ ExchangePinterest(c)

WorkStep(c) ==
  \/ LookUp(c) \/ LoadToDisconnect(c) \/ LoadToDisconnectYouTube(c) \/ Revoke(c)
  \/ AccessTokenYouTube(c) \/ AccessTokenTikTok(c)
  \/ RenewYouTube(c) \/ RenewTikTok(c) \/ Abandon(c)

LEMMA TokenBounds ==
  ASSUME AccountTypeOK
  PROVE  /\ issued \in {issued, issued + 1} /\ issued <= MaxTokens /\ issued \in Nat
         /\ lost \in BOOLEAN /\ valid \subseteq 1..MaxTokens /\ MaxTokens \in Nat
BY TokensAssumption DEF AccountTypeOK, Tokens

LEMMA AnyExchange ==
  ASSUME NEW c \in Callers,
         \/ ExchangeYouTube(c) \/ ExchangeInstagram(c)
         \/ ExchangeTikTok(c) \/ ExchangePinterest(c)
  PROVE  \E renewable \in SUBSET {0, issued + 1} : Exchange(c, renewable)
<1>1. CASE ExchangeYouTube(c)
  <2>1. Exchange(c, {0, issued + 1})
    BY <1>1 DEF ExchangeYouTube, GoogleSends
  <2> QED BY <2>1
<1>2. CASE ExchangeInstagram(c)
  <2>1. Exchange(c, {0})
    BY <1>2 DEF ExchangeInstagram, MetaSends
  <2> QED BY <2>1
<1>3. CASE ExchangeTikTok(c) \/ ExchangePinterest(c)
  <2>1. Exchange(c, {issued + 1})
    BY <1>3 DEF ExchangeTikTok, TikTokSends, ExchangePinterest, PinterestSends
  <2> QED BY <2>1
<1> QED BY <1>1, <1>2, <1>3

LEMMA CallbackStepsWork ==
  ASSUME AccountTypeOK, TokenInv, NEW c \in Callers, CallbackStep(c)
  PROVE  \E x \in CallerRun : Works(c, x)
<1>1. /\ issued \in {issued, issued + 1} /\ issued <= MaxTokens /\ issued \in Nat
      /\ lost \in BOOLEAN /\ valid \subseteq 1..MaxTokens /\ MaxTokens \in Nat
  BY TokenBounds
<1>2. ASSUME NEW s \in States, CallerAt(c, "idle"),
             caller' = [caller EXCEPT ![c] = [IdleCaller EXCEPT !.pc = "check",
                                                                !.asked = {s}]],
             UNCHANGED <<network, account, crossed, issued, valid, lost>>
      PROVE  \E x \in CallerRun : Works(c, x)
  <2> DEFINE x == [IdleCaller EXCEPT !.pc = "check", !.asked = {s}]
  <2>1. x \in CallerRun /\ x.pc = "check" /\ x.seen = NoRow
    BY Rows DEF CallerRun
  <2>2. caller' = [caller EXCEPT ![c] = x]
    BY <1>2
  <2> HIDE DEF x
  <2>3. ~Replacing(c)
    BY <1>2 DEF Replacing, CallerAt
  <2> QED BY <1>1, <1>2, <2>1, <2>2, <2>3 DEF Works
<1>3. CASE Consume(c)
  <2>1. ~Replacing(c) /\ Steady /\ UNCHANGED <<issued, valid, lost>>
    BY <1>3 DEF Consume, Replacing, CallerAt, Steady, granted
  <2>2. CASE caller' = [caller EXCEPT ![c].pc = "exchange"]
    BY <1>1, <2>1, <2>2, GoingOnWorks
  <2>3. CASE caller' = [caller EXCEPT ![c] = IdleCaller]
    BY <1>1, <2>1, <2>3, GoingOnWorks
  <2> QED BY <1>3, <2>2, <2>3 DEF Consume
<1>4. ASSUME NEW renewable \in SUBSET {0, issued + 1}, Exchange(c, renewable)
      PROVE  \E x \in CallerRun : Works(c, x)
  <2>1. ~Replacing(c) /\ Steady /\ caller[c].pc = "exchange"
    BY <1>4 DEF Exchange, Replacing, CallerAt, Steady
  <2>2. CASE /\ Issue(c, "look", renewable)
             /\ valid' = valid \cup {issued + 1}
             /\ UNCHANGED lost
    <3>1. valid' \subseteq 1..MaxTokens
      BY <1>1, <2>2 DEF Issue
    <3> QED BY <1>4, <2>1, <2>2, <3>1, IssuingWorks
  <2>3. CASE caller' = [caller EXCEPT ![c] = IdleCaller] /\ UNCHANGED <<issued, valid, lost>>
    BY <1>1, <2>1, <2>3, GoingOnWorks
  <2> QED BY <1>4, <2>2, <2>3 DEF Exchange, granted
<1>5. CASE \E s \in States, b \in Browsers :
             \/ CallbackYouTube(c, s, b) \/ CallbackInstagram(c, s, b)
             \/ CallbackTikTok(c, s, b) \/ CallbackPinterest(c, s, b)
  BY <1>2, <1>5 DEF CallbackYouTube, CallbackInstagram, CallbackTikTok, CallbackPinterest,
     Checks, granted
<1> QED BY <1>3, <1>4, <1>5, AnyExchange DEF CallbackStep

LEMMA WorkStepsWork ==
  ASSUME AccountTypeOK, TokenInv, NEW c \in Callers, WorkStep(c)
  PROVE  \E x \in CallerRun : Works(c, x) /\ x.pc \notin {"check", "exchange"}
<1>1. /\ issued \in {issued, issued + 1} /\ issued <= MaxTokens /\ issued \in Nat
      /\ lost \in BOOLEAN /\ valid \subseteq 1..MaxTokens /\ MaxTokens \in Nat
  BY TokenBounds
<1>2. CASE LookUp(c)
  <2>1. Steady /\ UNCHANGED <<issued, valid, lost>> /\ caller[c].pc = "look"
        /\ Load(c, "grant")
    BY <1>2 DEF LookUp, Steady, granted, CallerAt
  <2> QED BY <2>1, LoadingWorks
<1>3. CASE LoadToDisconnect(c) \/ LoadToDisconnectYouTube(c)
  <2>1. /\ Steady /\ UNCHANGED <<issued, valid, lost>> /\ caller[c].pc = "idle"
        /\ \E pc \in {"clear", "revoke"} : Load(c, pc)
    BY <1>3 DEF LoadToDisconnect, LoadToDisconnectYouTube, Steady, granted, CallerAt
  <2> QED BY <2>1, LoadingWorks
<1>4. CASE AccessTokenYouTube(c) \/ AccessTokenTikTok(c)
  <2>1. /\ Steady /\ UNCHANGED <<issued, valid, lost>> /\ caller[c].pc = "idle"
        /\ \E pc \in {"expire", "refresh"} : Load(c, pc)
        /\ account.access # 0 /\ (network = "tiktok" => account.status = "CONNECTED")
    BY <1>4 DEF AccessTokenYouTube, AccessTokenTikTok, Steady, granted, CallerAt
  <2> QED BY <2>1, LoadingWorks
<1>5. CASE Revoke(c)
  <2>1. Steady /\ UNCHANGED issued /\ caller[c].pc = "revoke" /\ ~Replacing(c)
    BY <1>5 DEF Revoke, Steady, CallerAt, Replacing
  <2>2. PICK stored \in {caller[c].seen.access, caller[c].seen.refresh} :
          \/ /\ valid' = valid \ {stored}
             /\ caller' = [caller EXCEPT ![c].pc = "erase"]
             /\ lost' = lost
          \/ /\ valid' \in {valid, valid \ {stored}}
             /\ caller' = [caller EXCEPT ![c] = IdleCaller]
             /\ lost' = (lost \/ valid' # valid)
    BY <1>5 DEF Revoke
  <2>3. CASE /\ valid' = valid \ {stored}
             /\ caller' = [caller EXCEPT ![c].pc = "erase"]
             /\ lost' = lost
    BY <1>1, <2>1, <2>3, GoingOnWorks
  <2>4. CASE /\ valid' \in {valid, valid \ {stored}}
             /\ caller' = [caller EXCEPT ![c] = IdleCaller]
             /\ lost' = (lost \/ valid' # valid)
    <3>1. /\ lost' \in BOOLEAN /\ (lost => lost') /\ valid' \subseteq 1..MaxTokens
          /\ \A t \in valid : t \in valid' \/ (t = stored /\ lost')
      BY <1>1, <2>4
    <3> QED BY <1>1, <2>1, <2>4, <3>1, GoingOnWorks
  <2> QED BY <2>2, <2>3, <2>4
<1>6. CASE RenewYouTube(c)
  <2>1. Steady /\ caller[c].pc = "refresh" /\ ~Replacing(c)
    BY <1>6 DEF RenewYouTube, Steady, CallerAt, Replacing
  <2>2. CASE RefreshFails(c)
    BY <1>1, <2>1, <2>2, GoingOnWorks DEF RefreshFails, granted
  <2>3. CASE Issue(c, "keep", {0}) /\ UNCHANGED <<valid, lost>>
    BY <1>1, <2>1, <2>3, IssuingWorks
  <2> QED BY <1>6, <2>2, <2>3 DEF RenewYouTube
<1>7. CASE RenewTikTok(c)
  <2>1. Steady /\ caller[c].pc = "refresh" /\ ~Replacing(c) /\ network = "tiktok"
    BY <1>7 DEF RenewTikTok, Steady, CallerAt, Replacing
  <2>2. CASE RefreshFails(c)
    BY <1>1, <2>1, <2>2, GoingOnWorks DEF RefreshFails, granted
  <2>3. CASE /\ issued < MaxTokens
             /\ valid' = (valid \ {caller[c].seen.refresh}) \cup {issued + 1}
    <3> DEFINE token == caller[c].seen.refresh
               new == issued + 1
    <3>0. valid' = (valid \ {token}) \cup {new} /\ new \in 1..MaxTokens /\ new <= MaxTokens
      BY <1>1, <2>3
    <3>1. valid' \subseteq 1..MaxTokens /\ issued + 1 \in valid'
          /\ issued + 1 <= MaxTokens
          /\ \A t \in valid : t \in valid' \/ t = caller[c].seen.refresh
      <4> HIDE DEF token, new
      <4>1. /\ valid' \subseteq 1..MaxTokens /\ new \in valid'
            /\ \A t \in valid : t \in valid' \/ t = token
        BY <1>1, <3>0
      <4> QED BY <3>0, <4>1 DEF token, new
    <3>2. CASE Issue(c, "keep", {issued + 1}) /\ UNCHANGED lost
      BY <2>1, <3>1, <3>2, IssuingWorks
    <3>3. CASE /\ caller' = [caller EXCEPT ![c].pc = "expire"]
               /\ lost' = TRUE
               /\ issued' = issued + 1
      BY <2>1, <3>1, <3>3, GoingOnWorks
    <3> QED BY <1>7, <2>2, <3>2, <3>3 DEF RenewTikTok
  <2> QED BY <1>7, <2>2, <2>3 DEF RenewTikTok
<1>8. CASE Abandon(c)
  <2>1. /\ Steady /\ UNCHANGED <<issued, valid>>
        /\ caller' = [caller EXCEPT ![c] = IdleCaller]
        /\ lost' \in BOOLEAN /\ (lost => lost') /\ (Replacing(c) => lost')
    BY <1>1, <1>8 DEF Abandon, Steady, Replacing
  <2> QED BY <1>1, <2>1, GoingOnWorks
<1> QED BY <1>2, <1>3, <1>4, <1>5, <1>6, <1>7, <1>8 DEF WorkStep

LEMMA WorksKeepsTypes ==
  ASSUME AccountTypeOK, NEW c \in Callers, NEW x \in CallerRun, Works(c, x),
         oauth' \subseteq OAuthSession, exchanged' \in [States -> Nat],
         aged' \subseteq 1..MaxTokens
  PROVE  AccountTypeOK'
<1>1. caller' \in [Callers -> CallerRun]
  BY CallerSet DEF Works
<1>2. issued' \in Tokens
  BY TokenBounds DEF Works, Tokens
<1> QED BY <1>1, <1>2 DEF Works, AccountTypeOK

-----------------------------------------------------------------------------
(***************************************************************************)
(* The OAuth states, whatever step is taken.                                *)
(***************************************************************************)
CheckingOrExchanging(c) == caller[c].pc \in {"check", "exchange"}

\* Nothing that a callback does before its exchange is over.
Elsewhere ==
  /\ oauth' = oauth /\ exchanged' = exchanged
  /\ \A c \in Callers : CheckingOrExchanging(c)' => caller'[c] = caller[c]

LEMMA ElsewhereKeepsStateInv ==
  ASSUME StateInv, Elsewhere
  PROVE  StateInv'
<1>1. OneRowEach' /\ StateUsedOnce'
  BY DEF StateInv, OneRowEach, StateUsedOnce, Elsewhere
<1>2. \A c \in Callers : /\ CallerAt(c, "check")' => CallerAt(c, "check")
                         /\ CallerAt(c, "exchange")' => CallerAt(c, "exchange")
                         /\ CheckingOrExchanging(c)' => caller'[c] = caller[c]
  BY DEF Elsewhere, CheckingOrExchanging, CallerAt
<1>3. OneChecks'
  BY <1>2 DEF StateInv, OneChecks
<1>4. \A s \in States : Fresh(s)' = Fresh(s) /\ HasRow(s)' = HasRow(s)
  BY DEF Elsewhere, Fresh, HasRow
<1>5. CodesOnce'
  <2>1. SUFFICES ASSUME NEW s \in States
                 PROVE  /\ Fresh(s) => exchanged[s] = 0
                        /\ \A c \in Callers : s \in caller'[c].asked =>
                             /\ CallerAt(c, "check")' => Fresh(s) /\ HasRow(s)
                             /\ CallerAt(c, "exchange")' =>
                                  /\ ~Fresh(s) /\ exchanged[s] = 0
                                  /\ \A d \in Callers :
                                       CallerAt(d, "exchange")' /\ s \in caller'[d].asked
                                       => c = d
    BY <1>4 DEF CodesOnce, Elsewhere
  <2> QED BY <1>2 DEF StateInv, CodesOnce, CheckingOrExchanging, CallerAt
<1> QED BY <1>1, <1>3, <1>5 DEF StateInv

\* A state is handed out, or runs out.
LEMMA OpensKeepsStateInv ==
  ASSUME StateInv, AccountTypeOK, NEW s \in States, NEW b \in Browsers,
         \/ ConnectYouTube(s, b) \/ ConnectInstagram(s, b)
         \/ ConnectTikTok(s, b) \/ ConnectPinterest(s, b)
  PROVE  StateInv' /\ oauth' \subseteq OAuthSession
<1> DEFINE new == [state |-> s, browser |-> b, status |-> "open"]
<1>1. /\ \A row \in oauth : row.state # s
      /\ oauth' = oauth \cup {new} /\ exchanged' = exchanged /\ caller' = caller
  BY DEF ConnectYouTube, ConnectInstagram, ConnectTikTok, ConnectPinterest, Opens
<1>2. new \in OAuthSession /\ new.state = s /\ new.status = "open"
  BY DEF OAuthSession
<1> HIDE DEF new
<1>3. oauth' \subseteq OAuthSession
  BY <1>1, <1>2 DEF AccountTypeOK
<1>4. OneRowEach'
  BY <1>1, <1>2 DEF StateInv, OneRowEach
<1>5. \A t \in States : (Fresh(t)' <=> Fresh(t)) /\ (HasRow(t) => HasRow(t)')
  BY <1>1, <1>2 DEF Fresh, HasRow
<1>6. CodesOnce'
  BY <1>1, <1>5 DEF StateInv, CodesOnce, CallerAt
<1>7. OneChecks' /\ StateUsedOnce'
  BY <1>1 DEF StateInv, OneChecks, StateUsedOnce, CallerAt
<1> QED BY <1>3, <1>4, <1>6, <1>7 DEF StateInv

LEMMA ExpiryKeepsStateInv ==
  ASSUME StateInv, AccountTypeOK, NEW s \in States, StateExpires(s)
  PROVE  StateInv' /\ oauth' \subseteq OAuthSession
<1>1. PICK row \in oauth :
        /\ row.state = s /\ row.status = "open"
        /\ oauth' = (oauth \ {row}) \cup {[row EXCEPT !.status = "expired"]}
  BY DEF StateExpires
<1>2. exchanged' = exchanged /\ caller' = caller
  BY DEF StateExpires
<1> DEFINE old == [row EXCEPT !.status = "expired"]
<1>3. old \in OAuthSession /\ old.state = s /\ old.status = "expired"
  BY <1>1 DEF AccountTypeOK, OAuthSession
<1>4. oauth' = (oauth \ {row}) \cup {old}
  BY <1>1
<1> HIDE DEF old
<1>5. oauth' \subseteq OAuthSession
  BY <1>3, <1>4 DEF AccountTypeOK
<1>6. OneRowEach'
  BY <1>1, <1>3, <1>4 DEF StateInv, OneRowEach
<1>7. \A t \in States : (Fresh(t)' <=> Fresh(t)) /\ (HasRow(t) => HasRow(t)')
  BY <1>1, <1>3, <1>4 DEF Fresh, HasRow
<1>8. CodesOnce'
  BY <1>2, <1>7 DEF StateInv, CodesOnce, CallerAt
<1>9. OneChecks' /\ StateUsedOnce'
  BY <1>2 DEF StateInv, OneChecks, StateUsedOnce, CallerAt
<1> QED BY <1>5, <1>6, <1>8, <1>9 DEF StateInv

LEMMA ChecksKeepsStateInv ==
  ASSUME StateInv, AccountTypeOK, NEW c \in Callers, NEW s \in States, NEW b \in Browsers,
         \/ CallbackYouTube(c, s, b) \/ CallbackInstagram(c, s, b)
         \/ CallbackTikTok(c, s, b) \/ CallbackPinterest(c, s, b)
  PROVE  StateInv' /\ oauth' = oauth /\ exchanged' = exchanged /\ aged' = aged
<1> DEFINE x == [IdleCaller EXCEPT !.pc = "check", !.asked = {s}]
<1>1. /\ CallerAt(c, "idle") /\ Accepts(s, b) /\ LoopFree(c)
      /\ caller' = [caller EXCEPT ![c] = x]
      /\ oauth' = oauth /\ exchanged' = exchanged /\ aged' = aged
  BY DEF CallbackYouTube, CallbackInstagram, CallbackTikTok, CallbackPinterest, Checks
<1>2. x \in CallerRun /\ x.pc = "check" /\ x.asked = {s}
  BY Rows DEF CallerRun
<1> HIDE DEF x
<1>3. caller'[c] = x /\ \A d \in Callers : d # c => caller'[d] = caller[d]
  BY <1>1, <1>2, CallerSet
<1>4. \A d \in Callers : d # c => ~CallerAt(d, "check")
  BY <1>1 DEF LoopFree
<1>5. Fresh(s) /\ HasRow(s)
  <2> DEFINE row == [state |-> s, browser |-> b, status |-> "open"]
  <2>1. row \in oauth /\ row.state = s /\ row.status = "open"
    BY <1>1 DEF Accepts
  <2> HIDE DEF row
  <2> QED BY <2>1 DEF StateInv, OneRowEach, Fresh, HasRow
<1>6. \A t \in States : Fresh(t)' = Fresh(t) /\ HasRow(t)' = HasRow(t)
  BY <1>1 DEF Fresh, HasRow
<1>7. CodesOnce'
  BY <1>1, <1>2, <1>3, <1>5, <1>6 DEF StateInv, CodesOnce, CallerAt
<1>8. OneChecks'
  BY <1>3, <1>4 DEF OneChecks, CallerAt
<1>9. OneRowEach' /\ StateUsedOnce'
  BY <1>1 DEF StateInv, OneRowEach, StateUsedOnce
<1> QED BY <1>1, <1>7, <1>8, <1>9 DEF StateInv

LEMMA ConsumeKeepsStateInv ==
  ASSUME StateInv, AccountTypeOK, NEW c \in Callers, Consume(c)
  PROVE  StateInv' /\ oauth' \subseteq OAuthSession /\ exchanged' = exchanged /\ aged' = aged
<1>1. /\ CallerAt(c, "check") /\ oauth' = Consumed(c)
      /\ exchanged' = exchanged /\ aged' = aged
      /\ caller[c] \in CallerRun
  BY DEF Consume, AccountTypeOK
<1>2. \E x \in CallerRun : /\ caller' = [caller EXCEPT ![c] = x]
                           /\ \/ x.pc = "exchange" /\ x.asked = caller[c].asked
                              \/ x.pc = "idle"
  <2>1. CASE caller' = [caller EXCEPT ![c].pc = "exchange"]
    <3> DEFINE x == [caller[c] EXCEPT !.pc = "exchange"]
    <3>1. x \in CallerRun /\ x.pc = "exchange" /\ x.asked = caller[c].asked
      BY <1>1 DEF CallerRun
    <3>2. caller' = [caller EXCEPT ![c] = x]
      BY <2>1
    <3> QED BY <3>1, <3>2
  <2>2. CASE caller' = [caller EXCEPT ![c] = IdleCaller]
    BY <2>2, Rows
  <2> QED BY <2>1, <2>2 DEF Consume
<1> PICK x \in CallerRun : /\ caller' = [caller EXCEPT ![c] = x]
                           /\ \/ x.pc = "exchange" /\ x.asked = caller[c].asked
                              \/ x.pc = "idle"
  BY <1>2
<1>3. caller'[c] = x /\ \A d \in Callers : d # c => caller'[d] = caller[d]
  BY CallerSet
<1> DEFINE made(row) == IF row.state \in caller[c].asked THEN Used(row) ELSE row
<1>4. \A row \in oauth : /\ made(row) \in OAuthSession /\ made(row).state = row.state
                         /\ row.state \in caller[c].asked => made(row).status = "used"
                         /\ row.state \notin caller[c].asked => made(row) = row
  <2>1. \A row \in OAuthSession : /\ Used(row) \in OAuthSession /\ Used(row).state = row.state
                                  /\ Used(row).status = "used"
    BY DEF Used, OAuthSession
  <2> QED BY <2>1 DEF AccountTypeOK
<1>5. oauth' = {made(row) : row \in oauth}
  BY <1>1 DEF Consumed
<1> HIDE DEF made
<1>6. oauth' \subseteq OAuthSession /\ OneRowEach'
  BY <1>4, <1>5 DEF StateInv, OneRowEach
<1>7. \A t \in States : /\ HasRow(t)' <=> HasRow(t)
                        /\ t \notin caller[c].asked => (Fresh(t)' <=> Fresh(t))
                        /\ t \in caller[c].asked /\ HasRow(t) => ~Fresh(t)'
                        /\ Fresh(t)' => Fresh(t)
  <2>1. SUFFICES ASSUME NEW t \in States
                 PROVE  /\ HasRow(t)' <=> HasRow(t)
                        /\ t \notin caller[c].asked => (Fresh(t)' <=> Fresh(t))
                        /\ t \in caller[c].asked /\ HasRow(t) => ~Fresh(t)'
                        /\ Fresh(t)' => Fresh(t)
    OBVIOUS
  <2>2. \A row \in oauth : made(row) \in oauth' /\ made(row).state = row.state
    BY <1>4, <1>5
  <2>3. \A row \in oauth' : \E old \in oauth : row = made(old) /\ row.state = old.state
    BY <1>4, <1>5
  <2>4. HasRow(t)' <=> HasRow(t)
    BY <2>2, <2>3 DEF HasRow
  <2>5. t \notin caller[c].asked => (Fresh(t)' <=> Fresh(t))
    BY <1>4, <2>2, <2>3 DEF Fresh
  <2>6. t \in caller[c].asked /\ HasRow(t) => ~Fresh(t)'
    BY <1>4, <2>2 DEF Fresh, HasRow
  <2>7. ~HasRow(t) => Fresh(t)
    BY DEF Fresh, HasRow
  <2> QED BY <2>4, <2>5, <2>6, <2>7
<1>8. \A d \in Callers : CallerAt(d, "check") => d = c
  BY <1>1 DEF StateInv, OneChecks
<1>9. OneChecks'
  BY <1>3, <1>8 DEF OneChecks, CallerAt
<1>10. \A t \in caller[c].asked : /\ t \in States /\ Fresh(t) /\ HasRow(t) /\ exchanged[t] = 0
                                  /\ \A d \in Callers : CallerAt(d, "exchange") =>
                                       t \notin caller[d].asked
  BY <1>1 DEF StateInv, CodesOnce, CallerRun
<1>11. CodesOnce'
  <2>1. SUFFICES ASSUME NEW s \in States
                 PROVE  /\ Fresh(s)' => exchanged[s] = 0
                        /\ \A d \in Callers : s \in caller'[d].asked =>
                             /\ CallerAt(d, "check")' => Fresh(s)' /\ HasRow(s)'
                             /\ CallerAt(d, "exchange")' =>
                                  /\ ~Fresh(s)' /\ exchanged[s] = 0
                                  /\ \A e \in Callers :
                                       CallerAt(e, "exchange")' /\ s \in caller'[e].asked
                                       => d = e
    BY <1>1 DEF CodesOnce
  <2>2. Fresh(s)' => exchanged[s] = 0
    BY <1>7 DEF StateInv, CodesOnce
  <2>3. \A d \in Callers : ~CallerAt(d, "check")'
    BY <1>3, <1>8 DEF CallerAt
  <2>4. ASSUME NEW d \in Callers, s \in caller'[d].asked, CallerAt(d, "exchange")'
        PROVE  /\ ~Fresh(s)' /\ exchanged[s] = 0
               /\ \A e \in Callers : CallerAt(e, "exchange")' /\ s \in caller'[e].asked
                                     => d = e
    <3>1. CASE d = c
      BY <1>3, <1>7, <1>10, <2>4, <3>1 DEF CallerAt
    <3>2. CASE d # c
      <4>1. caller'[d] = caller[d] /\ CallerAt(d, "exchange") /\ s \in caller[d].asked
        BY <1>3, <2>4, <3>2 DEF CallerAt
      <4>2. s \notin caller[c].asked
        BY <1>10, <4>1
      <4>3. ~Fresh(s)' /\ exchanged[s] = 0
        BY <1>7, <4>1, <4>2 DEF StateInv, CodesOnce
      <4>4. ASSUME NEW e \in Callers, CallerAt(e, "exchange")', s \in caller'[e].asked
            PROVE  d = e
        BY <1>3, <4>1, <4>2, <4>4 DEF StateInv, CodesOnce, CallerAt
      <4> QED BY <4>3, <4>4
    <3> QED BY <3>1, <3>2
  <2> QED BY <2>2, <2>3, <2>4
<1>12. StateUsedOnce'
  BY <1>1 DEF StateInv, StateUsedOnce
<1> QED BY <1>1, <1>6, <1>9, <1>11, <1>12 DEF StateInv

LEMMA ExchangeKeepsStateInv ==
  ASSUME StateInv, AccountTypeOK, NEW c \in Callers, NEW renewable, Exchange(c, renewable)
  PROVE  /\ StateInv' /\ oauth' = oauth /\ aged' = aged
         /\ exchanged' \in [States -> Nat]
<1>1. /\ CallerAt(c, "exchange") /\ oauth' = oauth /\ aged' = aged
      /\ exchanged' = [s \in States |->
                         exchanged[s] + (IF s \in caller[c].asked THEN 1 ELSE 0)]
      /\ caller[c] \in CallerRun /\ exchanged \in [States -> Nat]
  BY DEF Exchange, AccountTypeOK
<1>2. /\ caller'[c].pc \in {"look", "idle"}
      /\ \A d \in Callers : d # c => caller'[d] = caller[d]
  <2>1. CASE Issue(c, "look", renewable)
    <3>1. PICK r \in renewable :
            caller' = [caller EXCEPT ![c] =
                         [caller[c] EXCEPT !.pc = "look", !.access = issued + 1,
                                           !.refresh = r]]
      BY <2>1 DEF Issue
    <3> DEFINE x == [caller[c] EXCEPT !.pc = "look", !.access = issued + 1, !.refresh = r]
    <3>2. x.pc = "look"
      BY <1>1 DEF CallerRun
    <3>3. caller' = [caller EXCEPT ![c] = x]
      BY <3>1
    <3> HIDE DEF x
    <3> QED BY <3>2, <3>3 DEF AccountTypeOK
  <2>2. CASE caller' = [caller EXCEPT ![c] = IdleCaller]
    BY <2>2, Rows DEF AccountTypeOK
  <2> QED BY <2>1, <2>2 DEF Exchange
<1>3. \A s \in States : /\ s \in caller[c].asked => exchanged'[s] = exchanged[s] + 1
                        /\ s \notin caller[c].asked => exchanged'[s] = exchanged[s]
                        /\ exchanged[s] \in Nat
  BY <1>1
<1>4. \A s \in States : s \in caller[c].asked => ~Fresh(s) /\ exchanged[s] = 0
  BY <1>1 DEF StateInv, CodesOnce
<1>5. StateUsedOnce'
  BY <1>3, <1>4 DEF StateInv, StateUsedOnce
<1>6. OneRowEach' /\ \A s \in States : Fresh(s)' = Fresh(s) /\ HasRow(s)' = HasRow(s)
  BY <1>1 DEF StateInv, OneRowEach, Fresh, HasRow
<1>7. OneChecks'
  BY <1>2 DEF StateInv, OneChecks, CallerAt
<1>8. CodesOnce'
  <2>1. SUFFICES ASSUME NEW s \in States
                 PROVE  /\ Fresh(s) => exchanged'[s] = 0
                        /\ \A d \in Callers : s \in caller'[d].asked =>
                             /\ CallerAt(d, "check")' => Fresh(s) /\ HasRow(s)
                             /\ CallerAt(d, "exchange")' =>
                                  /\ ~Fresh(s) /\ exchanged'[s] = 0
                                  /\ \A e \in Callers :
                                       CallerAt(e, "exchange")' /\ s \in caller'[e].asked
                                       => d = e
    BY <1>6 DEF CodesOnce
  <2>2. Fresh(s) => exchanged'[s] = 0
    BY <1>3, <1>4 DEF StateInv, CodesOnce
  <2>3. ASSUME NEW d \in Callers, s \in caller'[d].asked,
               CallerAt(d, "check")' \/ CallerAt(d, "exchange")'
        PROVE  /\ d # c /\ caller'[d] = caller[d]
               /\ CallerAt(d, "exchange")' => s \notin caller[c].asked
    <3>1. d # c /\ caller'[d] = caller[d]
      BY <1>2, <2>3 DEF CallerAt
    <3> QED BY <1>1, <2>3, <3>1 DEF StateInv, CodesOnce, CallerAt
  <2>4. ASSUME NEW d \in Callers, s \in caller'[d].asked, CallerAt(d, "check")'
        PROVE  Fresh(s) /\ HasRow(s)
    BY <2>3, <2>4 DEF StateInv, CodesOnce, CallerAt
  <2>5. ASSUME NEW d \in Callers, s \in caller'[d].asked, CallerAt(d, "exchange")'
        PROVE  /\ ~Fresh(s) /\ exchanged'[s] = 0
               /\ \A e \in Callers : CallerAt(e, "exchange")' /\ s \in caller'[e].asked
                                     => d = e
    <3>1. CallerAt(d, "exchange") /\ s \in caller[d].asked /\ s \notin caller[c].asked
      BY <2>3, <2>5 DEF CallerAt
    <3>2. ~Fresh(s) /\ exchanged'[s] = 0
      BY <1>3, <3>1 DEF StateInv, CodesOnce
    <3>3. ASSUME NEW e \in Callers, CallerAt(e, "exchange")', s \in caller'[e].asked
          PROVE  d = e
      BY <2>3, <3>1, <3>3 DEF StateInv, CodesOnce, CallerAt
    <3> QED BY <3>2, <3>3
  <2> QED BY <2>2, <2>4, <2>5
<1>9. exchanged' \in [States -> Nat]
  BY <1>1
<1> QED BY <1>1, <1>5, <1>6, <1>7, <1>8, <1>9 DEF StateInv

-----------------------------------------------------------------------------
(***************************************************************************)
(* The account.                                                             *)
(***************************************************************************)
LEMMA InitAInv ==
  ASSUME AccountInit
  PROVE  AInv
<1>1. /\ account = NoRow /\ issued = 0 /\ valid = {} /\ oauth = {}
      /\ \A c \in Callers : caller[c] = IdleCaller
      /\ \A s \in States : exchanged[s] = 0
  BY DEF AccountInit
<1>2. 0 \in Tokens
  BY TokensAssumption DEF Tokens
<1>3. AccountTypeOK
  BY <1>2, Rows DEF AccountInit, AccountTypeOK
<1>4. \A c \in Callers : /\ caller[c].pc = "idle" /\ caller[c].asked = {}
                         /\ caller[c].seen = NoRow /\ ~Holding(c) /\ ~Replacing(c)
  BY <1>1, Rows DEF Holding, Replacing, CallerAt
<1>5. OneRowEach /\ OneChecks /\ StateUsedOnce
  BY <1>1, <1>4 DEF OneRowEach, OneChecks, StateUsedOnce, CallerAt
<1>6. CodesOnce
  BY <1>1, <1>4 DEF CodesOnce
<1>7. KnownTokens /\ GrantsAreFresh /\ DueRows
  BY <1>1, <1>4, Rows DEF KnownTokens, GrantsAreFresh, DueRows
<1>8. NoRowIsSeen /\ ClearedRows /\ RefreshIsGood
  BY <1>1, <1>4, Rows DEF NoRowIsSeen, ClearedRows, RefreshIsGood, NoTokens
<1> QED BY <1>3, <1>5, <1>6, <1>7, <1>8 DEF AInv, StateInv, TokenInv

Connects ==
  \/ \E s \in States, b \in Browsers :
       \/ ConnectYouTube(s, b) \/ ConnectInstagram(s, b)
       \/ ConnectTikTok(s, b) \/ ConnectPinterest(s, b)
  \/ \E s \in States : StateExpires(s)

LEMMA AccountNextCases ==
  ASSUME [AccountNext]_accountVars
  PROVE  \/ Connects \/ TokenAges \/ UNCHANGED accountVars
         \/ \E c \in Callers : CallbackStep(c) \/ WorkStep(c) \/ FlushStep(c)
BY DEF AccountNext, Connects, CallbackStep, WorkStep, FlushStep

LEMMA NextKeepsAInv ==
  ASSUME AInv, [AccountNext]_accountVars
  PROVE  AInv'
<1>1. AccountTypeOK /\ StateInv /\ TokenInv
  BY DEF AInv
<1>2. ASSUME UNCHANGED <<network, account, issued, valid, lost, crossed, caller>>,
             oauth' \subseteq OAuthSession, aged' \subseteq 1..MaxTokens,
             exchanged' = exchanged
      PROVE  AccountTypeOK' /\ TokenInv'
  BY <1>1, <1>2 DEF AccountTypeOK, TokenInv, KnownTokens, GrantsAreFresh, DueRows,
     NoRowIsSeen, ClearedRows, RefreshIsGood, Holding, Replacing, CallerAt
<1>3. CASE Connects
  <2>1. UNCHANGED <<network, account, issued, valid, lost, crossed, caller, aged, exchanged>>
    BY <1>3 DEF Connects, ConnectYouTube, ConnectInstagram, ConnectTikTok,
       ConnectPinterest, Opens, StateExpires, granted
  <2>2. StateInv' /\ oauth' \subseteq OAuthSession
    BY <1>1, <1>3, OpensKeepsStateInv, ExpiryKeepsStateInv DEF Connects
  <2>3. aged' \subseteq 1..MaxTokens
    BY <1>1, <2>1 DEF AccountTypeOK
  <2> QED BY <1>2, <2>1, <2>2, <2>3 DEF AInv
<1>4. CASE TokenAges \/ UNCHANGED accountVars
  <2>1. UNCHANGED <<network, account, issued, valid, lost, crossed, caller, oauth, exchanged>>
    BY <1>4 DEF TokenAges, accountVars, granted
  <2>2. aged' \subseteq 1..MaxTokens
    BY <1>1, <1>4 DEF TokenAges, accountVars, AccountTypeOK
  <2>3. Elsewhere /\ oauth' \subseteq OAuthSession
    BY <1>1, <2>1 DEF Elsewhere, AccountTypeOK
  <2> QED BY <1>1, <1>2, <2>1, <2>2, <2>3, ElsewhereKeepsStateInv DEF AInv
<1>5. ASSUME NEW c \in Callers, CallbackStep(c)
      PROVE  AInv'
  <2>1. PICK x \in CallerRun : Works(c, x)
    BY <1>1, <1>5, CallbackStepsWork
  <2>2. /\ StateInv' /\ oauth' \subseteq OAuthSession
        /\ exchanged' \in [States -> Nat] /\ aged' \subseteq 1..MaxTokens
    <3>1. exchanged \in [States -> Nat] /\ aged \subseteq 1..MaxTokens
          /\ oauth \subseteq OAuthSession
      BY <1>1 DEF AccountTypeOK
    <3> QED BY <1>1, <1>5, <3>1, ChecksKeepsStateInv, ConsumeKeepsStateInv, AnyExchange,
               ExchangeKeepsStateInv DEF CallbackStep
  <2> QED BY <1>1, <2>1, <2>2, WorksKeepsTokenInv, WorksKeepsTypes DEF AInv
<1>6. ASSUME NEW c \in Callers, WorkStep(c)
      PROVE  AInv'
  <2>1. PICK x \in CallerRun : Works(c, x) /\ x.pc \notin {"check", "exchange"}
    BY <1>1, <1>6, WorkStepsWork
  <2>2. oauth' = oauth /\ exchanged' = exchanged /\ aged' = aged
    BY <1>6 DEF WorkStep, LookUp, LoadToDisconnect, LoadToDisconnectYouTube, Revoke,
       AccessTokenYouTube, AccessTokenTikTok, RenewYouTube, RenewTikTok, Abandon
  <2>3. caller'[c] = x /\ \A d \in Callers : d # c => caller'[d] = caller[d]
    BY <1>1, <2>1, CallerSet DEF Works
  <2>4. StateInv'
    BY <1>1, <2>1, <2>2, <2>3, ElsewhereKeepsStateInv DEF Elsewhere, CheckingOrExchanging
  <2>5. AccountTypeOK'
    BY <1>1, <2>1, <2>2, WorksKeepsTypes DEF AccountTypeOK
  <2> QED BY <1>1, <2>1, <2>4, <2>5, WorksKeepsTokenInv DEF AInv
<1>7. ASSUME NEW c \in Callers, FlushStep(c)
      PROVE  AInv'
  <2>1. Flushes(c) /\ TakesTokens(c) /\ LeavesRowTrue(c)
    BY <1>1, <1>7, FlushStepsFlush
  <2>2. caller'[c].pc = "idle" /\ \A d \in Callers : d # c => caller'[d] = caller[d]
    BY <1>1, <2>1, CallerSet, Rows DEF Flushes
  <2>3. StateInv'
    BY <1>1, <2>1, <2>2, ElsewhereKeepsStateInv DEF Elsewhere, CheckingOrExchanging, Flushes
  <2> QED BY <1>1, <2>1, <2>3, FlushesKeepTokenInv DEF AInv
<1> QED BY <1>3, <1>4, <1>5, <1>6, <1>7, AccountNextCases

\* The invariant that the properties of an account follow from.
THEOREM AccountInvariance == AccountSpec => []AInv
<1>1. AccountInit => AInv
  BY InitAInv
<1>2. AInv /\ [AccountNext]_accountVars => AInv'
  BY NextKeepsAInv
<1> QED BY <1>1, <1>2, PTL DEF AccountSpec

\* An OAuth state leads to one exchange of a code, however many callbacks arrive for it
\* at a time: it is consumed before the first await.
THEOREM StatesAreUsedOnce == AccountSpec => []StateUsedOnce
<1>1. AInv => StateUsedOnce
  BY DEF AInv, StateInv
<1> QED BY <1>1, AccountInvariance, PTL

\* A row that is disconnected holds no token, and the refresh token of a connected one
\* is good, unless two runs crossed or an answer of the platform was lost.
THEOREM TokensAreTrue == AccountSpec => []TokensFollowTheStatus
<1>1. ASSUME AInv
      PROVE  TokensFollowTheStatus
  <2>1. ClearedRows /\ RefreshIsGood
    BY <1>1 DEF AInv, TokenInv
  <2>2. account.status = "DISCONNECTED" /\ crossed \subseteq {"expire"} =>
          account.access = 0 /\ account.refresh = 0
    BY <2>1 DEF ClearedRows, NoTokens
  <2>3. /\ ~lost /\ crossed = {} /\ account.refresh # 0
        /\ \A c \in Callers : ~CallerAt(c, "erase") /\ ~CallerAt(c, "keep")
        => account.refresh \in valid
    BY <2>1 DEF RefreshIsGood, Replacing
  <2> QED BY <2>2, <2>3 DEF TokensFollowTheStatus
<1> QED BY <1>1, AccountInvariance, PTL

\* A refresh that was under way does not connect an account that the user disconnected:
\* a consent does, or YouTube's refresh of a row that was not connected when loaded.
THEOREM ConsentConnects == AccountSpec => OnlyConsentConnects
<1> DEFINE Consented ==
      account.status = "DISCONNECTED" /\ account'.status = "CONNECTED" =>
        \E c \in Callers :
          \/ CallerAt(c, "grant") /\ account'.access = caller[c].access
          \/ KeepYouTube(c) /\ (caller[c].seen.status = "EXPIRED" \/ crossed # {})
<1>1. ASSUME AInv, [AccountNext]_accountVars
      PROVE  Consented
  <2>1. SUFFICES ASSUME account.status = "DISCONNECTED", account'.status = "CONNECTED"
                 PROVE  \E c \in Callers :
                          \/ CallerAt(c, "grant") /\ account'.access = caller[c].access
                          \/ /\ KeepYouTube(c)
                             /\ caller[c].seen.status = "EXPIRED" \/ crossed # {}
    OBVIOUS
  <2>2. AccountTypeOK /\ TokenInv
    BY <1>1 DEF AInv
  <2>3. PICK c \in Callers : FlushStep(c)
    <3>1. ~Connects /\ ~TokenAges /\ ~UNCHANGED accountVars
      BY <2>1 DEF Connects, ConnectYouTube, ConnectInstagram, ConnectTikTok,
         ConnectPinterest, Opens, StateExpires, TokenAges, accountVars
    <3>2. \A c \in Callers : ~CallbackStep(c) /\ ~WorkStep(c)
      BY <2>1, <2>2, CallbackStepsWork, WorkStepsWork DEF Works
    <3> QED BY <1>1, <3>1, <3>2, AccountNextCases
  <2>4. Reconnects(c)
    BY <2>2, <2>3, FlushStepsFlush
  <2>5. CallerAt(c, "keep") /\ network = "youtube" => KeepYouTube(c)
    BY <2>3 DEF FlushStep, StoreYouTube, StoreInstagram, StoreTikTok, StorePinterest,
       Stores, DisconnectYouTube, DisconnectInstagram, DisconnectTikTok,
       DisconnectPinterest, Clears, KeepTikTok, Keeps, MarkExpired, CallerAt
  <2> QED BY <2>1, <2>4, <2>5 DEF Reconnects
<1> QED BY <1>1, AccountInvariance, PTL DEF AccountSpec, OnlyConsentConnects
=============================================================================
