---------------------------- MODULE ClientProofs ----------------------------
(***************************************************************************)
(* Proofs about Client: what the screen shows is the user's own and is not *)
(* older than the user's own changes, for any number of accounts, queries, *)
(* sessions, mutations and outages.                                        *)
(***************************************************************************)
EXTENDS Client, TLAPS

USE DEF server, page, rest

(***************************************************************************)
(* The types.                                                              *)
(***************************************************************************)
LEMMA InitialRecords ==
    /\ NoData \in Data /\ NoFetch \in Fetches /\ NoMut \in Mutations
    /\ Finished \in Mutations /\ NoAuth \in Auths
    /\ \A c \in 0 .. MaxSid : Sent(c) \in Fetches
<1>. USE ClientAssumption
<1>1. NoData \in Data
  BY Zenon, 0 \in Nat DEF NoData, Data
<1>2. NoFetch \in Fetches
  BY DEF NoFetch, Fetches, Stages
<1>3. NoMut \in Mutations /\ Finished \in Mutations
  BY DEF NoMut, Finished, Mutations, Stages
<1>4. NoAuth \in Auths
  BY DEF NoAuth, Auths, Stages
<1>5. \A c \in 0 .. MaxSid : Sent(c) \in Fetches
  BY DEF NoFetch, Sent, Fetches, Stages
<1>. QED  BY <1>1, <1>2, <1>3, <1>4, <1>5

LEMMA UpdatedRecords ==
    /\ \A r \in Mutations, c \in Nat :
          /\ [r EXCEPT !.at = "ok", !.seen = c] \in Mutations
          /\ [r EXCEPT !.at = "refused"] \in Mutations
    /\ \A r \in Auths, n \in 0 .. MaxSid :
          [r EXCEPT !.at = "ok", !.sid = n] \in Auths
<1>1. ASSUME NEW r \in Mutations, NEW c \in Nat
      PROVE  /\ [r EXCEPT !.at = "ok", !.seen = c] \in Mutations
             /\ [r EXCEPT !.at = "refused"] \in Mutations
  BY DEF Mutations, Stages
<1>2. ASSUME NEW r \in Auths, NEW n \in 0 .. MaxSid
      PROVE  [r EXCEPT !.at = "ok", !.sid = n] \in Auths
  BY DEF Auths, Stages
<1>. QED  BY <1>1, <1>2

LEMMA InitTypes == Init => TypeOK
<1>. SUFFICES ASSUME Init PROVE TypeOK
  OBVIOUS
<1>. USE ClientAssumption, InitialRecords
<1>1. PICK a \in Accounts, c \in {0, 1} :
         /\ owner = [i \in Sids |-> IF i = 1 THEN a ELSE Nobody]
         /\ live \subseteq {1} /\ cookie = c
         /\ fetch = [k \in Keys |-> IF k = "me" THEN Sent(c) ELSE NoFetch]
  BY DEF Init
<1>2. c \in 0 .. MaxSid /\ 1 \in Sids /\ Nobody # a
  BY DEF Sids
<1>3. fetch \in [Keys -> Fetches]
  BY <1>1, <1>2
<1>4. /\ owner \in [Sids -> Accounts \cup {Nobody}]
      /\ live \subseteq {s \in Sids : owner[s] # Nobody}
      /\ cookie \in 0 .. MaxSid
  BY <1>1, <1>2
<1>5. /\ cache \in [Queries -> Data] /\ muts \in [Slots -> Mutations]
      /\ login \in Auths /\ logout \in Auths
      /\ acked \in [Tables -> Nat] /\ joined \in [Queries -> BOOLEAN]
  BY DEF Init
<1>6. known \in BOOLEAN /\ taken \in BOOLEAN /\ overtook \in BOOLEAN
  BY Zenon DEF Init
<1>7. /\ commits \in Nat /\ outages \in 0 .. MaxOutage
      /\ shown \in Accounts \cup {Nobody}
      /\ tab \in Tabs /\ panel \in Panels \cup {"none"}
  BY DEF Init
<1>8. login.at # "sent"
  BY DEF Init, NoAuth
<1>. QED  BY Zenon, <1>3, <1>4, <1>5, <1>6, <1>7, <1>8 DEF TypeOK

LEMMA LeaveTypes ==
    ASSUME TypeOK, NEW me \in Fetches, Leave(me)
    PROVE  /\ shown' = Nobody /\ known' \in BOOLEAN
           /\ tab' \in Tabs /\ panel' \in Panels \cup {"none"}
           /\ cache' \in [Queries -> Data] /\ fetch' \in [Keys -> Fetches]
           /\ joined' \in [Queries -> BOOLEAN]
BY ClientAssumption, InitialRecords DEF Leave

LEMMA EnterTypes ==
    ASSUME TypeOK, NEW a, NEW c \in 0 .. MaxSid, NEW me \in Fetches,
           Enter(a, c, me)
    PROVE  /\ shown' = a /\ known' \in BOOLEAN
           /\ tab' \in Tabs /\ panel' \in Panels \cup {"none"}
           /\ cache' \in [Queries -> Data] /\ fetch' \in [Keys -> Fetches]
           /\ joined' \in [Queries -> BOOLEAN]
<1>. USE InitialRecords DEF TypeOK
<1>1. fetch' \in [Keys -> Fetches]
  BY DEF Enter
<1>2. joined' \in [Queries -> BOOLEAN]
  BY DEF Enter
<1>. QED  BY <1>1, <1>2, ClientAssumption DEF Enter

LEMMA MountTypes ==
    ASSUME TypeOK, NEW M, NEW c \in 0 .. MaxSid, Mount(M, c)
    PROVE  fetch' \in [Keys -> Fetches] /\ joined' \in [Queries -> BOOLEAN]
<1>1. fetch' \in [Keys -> Fetches]
  BY InitialRecords DEF Mount, TypeOK
<1>2. ASSUME NEW q \in Queries PROVE joined'[q] \in BOOLEAN
  BY Zenon DEF Mount, TypeOK
<1>3. joined' = [q \in Queries |-> joined'[q]]
  BY Zenon DEF Mount
<1>. QED  BY <1>1, <1>2, <1>3

LEMMA InvalidateTypes ==
    ASSUME TypeOK, NEW S, Invalidate(S)
    PROVE  fetch' \in [Keys -> Fetches] /\ joined' \in [Queries -> BOOLEAN]
<1>1. fetch' \in [Keys -> Fetches]
  BY InitialRecords DEF Invalidate, TypeOK
<1>2. ASSUME NEW q \in Queries PROVE joined'[q] \in BOOLEAN
  <2>. DEFINE active  == S \cap Mounted
              waiting == {p \in active : fetch[p].at # "idle" /\ ~cache[p].has}
  <2>1. joined'[q] = IF q \in active THEN q \in waiting ELSE joined[q]
    BY Zenon DEF Invalidate
  <2>2. joined[q] \in BOOLEAN
    BY Zenon DEF TypeOK
  <2>3. (q \in waiting) = TRUE \/ (q \in waiting) = FALSE
    OBVIOUS
  <2>. HIDE DEF active, waiting
  <2>. QED  BY Zenon, <2>1, <2>2, <2>3
<1>3. joined' = [q \in Queries |-> joined'[q]]
  BY Zenon DEF Invalidate
<1>. QED  BY <1>1, <1>2, <1>3

LEMMA ServerTypes == ASSUME TypeOK, Server PROVE TypeOK'
<1>. USE ClientAssumption, InitialRecords DEF TypeOK, Sids
<1>1. ASSUME NEW k \in Keys, Serve(k) PROVE TypeOK'
  <2>1. fetch[k] \in Fetches /\ fetch[k].sid \in 0 .. MaxSid
    BY DEF Fetches
  <2>2. fetch[k].sid \in live => owner[fetch[k].sid] \in Accounts \cup {Nobody}
    OBVIOUS
  <2>3. fetch' \in [Keys -> Fetches]
    BY <1>1, <2>1, <2>2 DEF Serve, Fetches, Stages, NoFetch
  <2>. QED  BY <1>1, <2>3 DEF Serve
<1>2. ASSUME NEW m \in Slots, ServeMutation(m) PROVE TypeOK'
  <2>1. muts[m] \in Mutations
    OBVIOUS
  <2>2. CASE muts[m].sid \in live
    <3>1. muts' = [muts EXCEPT ![m] = [muts[m] EXCEPT !.at = "ok", !.seen = commits + 1]]
      BY <1>2, <2>2 DEF ServeMutation
    <3>2. [muts[m] EXCEPT !.at = "ok", !.seen = commits + 1] \in Mutations
      <4>1. commits + 1 \in Nat
        OBVIOUS
      <4>. QED  BY Zenon, <2>1, <4>1, UpdatedRecords
    <3>. QED  BY <1>2, <2>2, <3>1, <3>2 DEF ServeMutation
  <2>3. CASE muts[m].sid \notin live
    <3>1. muts' = [muts EXCEPT ![m] = [muts[m] EXCEPT !.at = "refused"]]
      BY <1>2, <2>3 DEF ServeMutation
    <3>2. [muts[m] EXCEPT !.at = "refused"] \in Mutations
      BY <2>1, UpdatedRecords
    <3>. QED  BY <1>2, <2>3, <3>1, <3>2 DEF ServeMutation
  <2>. QED  BY <2>2, <2>3
<1>3. ASSUME NEW n \in Sids, ServeLogin(n) PROVE TypeOK'
  <2>1. CASE Create(n, login.of, login.sid) /\ login' = [login EXCEPT !.at = "ok", !.sid = n]
    <3>1. login' \in Auths /\ login'.at = "ok"
      <4>1. n \in 0 .. MaxSid /\ login' = [login EXCEPT !.at = "ok", !.sid = n]
        BY <2>1
      <4>2. login' \in Auths
        BY Zenon, <4>1, UpdatedRecords
      <4>. QED  BY <4>1, <4>2 DEF Auths
    <3>2. login.of # Nobody /\ login.of \in Accounts \cup {Nobody}
      BY <1>3 DEF ServeLogin, Auths
    <3>3. /\ owner' \in [Sids -> Accounts \cup {Nobody}]
          /\ live' \subseteq {s \in Sids : owner'[s] # Nobody}
      BY <2>1, <3>2 DEF Create
    <3>. QED  BY <1>3, <3>1, <3>3 DEF ServeLogin
  <2>2. CASE login' = [NoAuth EXCEPT !.at = "refused"] /\ UNCHANGED <<owner, live>>
    <3>1. login' \in Auths
      BY <2>2 DEF Auths, Stages, NoAuth
    <3>. QED  BY <1>3, <2>2, <3>1 DEF ServeLogin
  <2>. QED  BY <1>3, <2>1, <2>2 DEF ServeLogin
<1>4. CASE ServeLogout
  BY <1>4 DEF ServeLogout, Auths, Stages, NoAuth
<1>5. ASSUME NEW s \in Sids, Expire(s) PROVE TypeOK'
  BY <1>5 DEF Expire
<1>6. ASSUME NEW n \in Sids, NEW a \in Accounts, TakeOver(n, a) PROVE TypeOK'
  BY <1>6 DEF TakeOver, Create
<1>. QED  BY <1>1, <1>2, <1>3, <1>4, <1>5, <1>6 DEF Server

LEMMA UserTypes == ASSUME TypeOK, User PROVE TypeOK'
<1>. USE ClientAssumption, InitialRecords DEF TypeOK
<1>1. ASSUME NEW a \in Accounts, SubmitLogin(a) PROVE TypeOK'
  <2>1. [at |-> "sent", sid |-> cookie, of |-> a] \in Auths
    BY DEF Auths, Stages
  <2>. QED  BY <1>1, <2>1 DEF SubmitLogin
<1>2. CASE ClickLogout
  <2>1. [NoAuth EXCEPT !.at = "sent", !.sid = cookie] \in Auths
    BY DEF Auths, Stages, NoAuth
  <2>. QED  BY <1>2, <2>1 DEF ClickLogout
<1>3. ASSUME NEW t \in Tabs, SwitchTab(t) PROVE TypeOK'
  <2>1. fetch' \in [Keys -> Fetches] /\ joined' \in [Queries -> BOOLEAN]
    BY <1>3, MountTypes DEF SwitchTab
  <2>. QED  BY <1>3, <2>1 DEF SwitchTab
<1>4. ASSUME NEW p \in Panels, OpenPanel(p) PROVE TypeOK'
  <2>1. fetch' \in [Keys -> Fetches] /\ joined' \in [Queries -> BOOLEAN]
    BY <1>4, MountTypes DEF OpenPanel
  <2>. QED  BY <1>4, <2>1 DEF OpenPanel
<1>5. CASE ClosePanel
  BY <1>5 DEF ClosePanel
<1>6. ASSUME NEW q \in Queries, ChangeKey(q) PROVE TypeOK'
  <2>1. joined' \in [Queries -> BOOLEAN]
    BY Zenon, <1>6 DEF ChangeKey
  <2>. QED  BY <1>6, <2>1 DEF ChangeKey
<1>7. ASSUME NEW q \in Queries, Retry(q) PROVE TypeOK'
  <2>1. joined' \in [Queries -> BOOLEAN]
    BY Zenon, <1>7 DEF Retry
  <2>. QED  BY <1>7, <2>1 DEF Retry
<1>8. ASSUME NEW m \in Slots, NEW t \in Changes, StartMutation(m, t)
      PROVE TypeOK'
  <2>1. [at |-> "sent", sid |-> cookie, table |-> t, seen |-> 0] \in Mutations
    BY DEF Mutations, Stages
  <2>. QED  BY <1>8, <2>1 DEF StartMutation
<1>9. CASE Reconnect
  <2>1. joined' \in [Queries -> BOOLEAN]
    BY Zenon, <1>9 DEF Reconnect
  <2>2. fetch' \in [Keys -> Fetches]
    BY <1>9 DEF Reconnect
  <2>3. outages' \in 0 .. MaxOutage
    BY <1>9 DEF Reconnect
  <2>. QED  BY <1>9, <2>1, <2>2, <2>3 DEF Reconnect
<1>. QED  BY <1>1, <1>2, <1>3, <1>4, <1>5, <1>6, <1>7, <1>8, <1>9 DEF User

LEMMA AnswersTypes == ASSUME TypeOK, Answers PROVE TypeOK'
<1>. USE ClientAssumption, InitialRecords DEF TypeOK
<1>1. ASSUME NEW q \in Queries, ArriveData(q) PROVE TypeOK'
  <2>1. [has |-> TRUE, of |-> fetch[q].of, seen |-> fetch[q].seen,
         failed |-> FALSE] \in Data
    <3>1. fetch[q].of \in Accounts \cup {Nobody} /\ fetch[q].seen \in Nat
      BY DEF Fetches, Keys
    <3>. QED  BY Zenon, <3>1 DEF Data
  <2>. QED  BY <1>1, <2>1 DEF ArriveData
<1>2. CASE ArriveMe
  <2>1. fetch["me"].of \in Accounts \cup {Nobody} /\ "me" \in Keys
    BY DEF Fetches, Keys
  <2>2. shown' = fetch["me"].of
    BY <1>2 DEF ArriveMe, Enter
  <2>3. overtook' \in BOOLEAN
    BY Zenon, <1>2 DEF ArriveMe
  <2>. QED  BY <1>2, <2>1, <2>2, <2>3, EnterTypes DEF ArriveMe
<1>3. ASSUME NEW k \in Keys, ArriveUnauthorized(k) PROVE TypeOK'
  BY <1>3, LeaveTypes DEF ArriveUnauthorized, Keys
<1>4. ASSUME NEW k \in Keys, LoseFetch(k) PROVE TypeOK'
  <2>1. ASSUME NEW q \in Queries
        PROVE  [cache[q] EXCEPT !.failed = TRUE] \in Data
    BY Zenon DEF Data
  <2>2. cache' \in [Queries -> Data]
    BY <1>4, <2>1 DEF LoseFetch
  <2>. QED  BY <1>4, <2>2 DEF LoseFetch
<1>5. ASSUME NEW m \in Slots, ArriveMutation(m) PROVE TypeOK'
  <2>1. acked' \in [Tables -> Nat]
    BY <1>5 DEF ArriveMutation, Mutations
  <2>. QED  BY <1>5, <2>1, InvalidateTypes DEF ArriveMutation
<1>6. ASSUME NEW m \in Slots, ArriveRefusal(m) PROVE TypeOK'
  BY <1>6, LeaveTypes DEF ArriveRefusal, Keys
<1>7. ASSUME NEW m \in Slots, LoseMutation(m) PROVE TypeOK'
  BY <1>7 DEF LoseMutation
<1>8. CASE ArriveLogin
  <2>1. /\ fetch["me"] \in Fetches
        /\ login.of \in Accounts \cup {Nobody} /\ login.sid \in 0 .. MaxSid
    BY DEF Auths, Keys
  <2>2. Enter(login.of, login.sid, fetch["me"])
    BY <1>8 DEF ArriveLogin
  <2>3. /\ shown' = login.of /\ known' \in BOOLEAN
        /\ tab' \in Tabs /\ panel' \in Panels \cup {"none"}
        /\ cache' \in [Queries -> Data] /\ fetch' \in [Keys -> Fetches]
        /\ joined' \in [Queries -> BOOLEAN]
    BY <2>1, <2>2, EnterTypes
  <2>4. login' \in Auths /\ login'.at # "sent"
    BY <1>8 DEF ArriveLogin, NoAuth
  <2>. QED  BY <1>8, <2>1, <2>3, <2>4 DEF ArriveLogin
<1>9. CASE ArriveLoginRefusal
  BY <1>9, LeaveTypes DEF ArriveLoginRefusal, Keys, NoAuth
<1>10. CASE LoseLogin
  BY <1>10 DEF LoseLogin, NoAuth
<1>11. CASE EndLogout
  BY <1>11, LeaveTypes DEF EndLogout, Keys
<1>. QED  BY <1>1, <1>2, <1>3, <1>4, <1>5, <1>6, <1>7, <1>8, <1>9, <1>10,
             <1>11 DEF Answers

LEMMA NextTypes == ASSUME TypeOK, [Next]_vars PROVE TypeOK'
BY ServerTypes, UserTypes, AnswersTypes DEF Next, vars, TypeOK

\* The types of everything the tab and the server remember.
THEOREM ClientTypeCorrect == Spec => []TypeOK
BY InitTypes, NextTypes, PTL DEF Spec

(***************************************************************************)
(* Nothing of an account is left on the login page.  An answer of /auth/me *)
(* or of a login that named nobody would open the home page for nobody, so *)
(* the invariant says that each names an account.                          *)
(***************************************************************************)
Named ==
    /\ \A k \in Keys : fetch[k].at = "ok" => fetch[k].of # Nobody
    /\ login.at = "ok" => login.of # Nobody

NothingLeftInv == TypeOK /\ Named /\ NothingLeft

LEMMA Idle ==
    /\ NoFetch.at = "idle" /\ ~NoData.has /\ NoAuth.at = "idle"
    /\ \A c : Sent(c).at = "sent" /\ Sent(c).sid = c
BY DEF NoFetch, NoData, NoAuth, Sent

LEMMA LeaveNamed ==
    ASSUME TypeOK, Named, NEW me \in {fetch["me"], NoFetch}, Leave(me)
    PROVE  /\ \A k \in Keys : fetch'[k].at = "ok" => fetch'[k].of # Nobody
           /\ NothingLeft'
<1>1. "me" \in Keys /\ "me" \notin Queries /\ Queries \subseteq Keys
  BY ClientAssumption DEF Keys, Families
<1>2. \A k \in Keys : fetch'[k] = IF k = "me" THEN me ELSE NoFetch
  BY DEF Leave
<1>3. \A k \in Keys : fetch'[k].at = "ok" => fetch'[k].of # Nobody
  BY <1>1, <1>2, Idle DEF Named
<1>4. \A q \in Queries : cache'[q] = NoData
  BY DEF Leave
<1>. QED  BY <1>1, <1>2, <1>3, <1>4, Idle DEF NothingLeft

LEMMA EnterNamed ==
    ASSUME TypeOK, Named, NEW a, a # Nobody, NEW c \in 0 .. MaxSid,
           NEW me \in {fetch["me"], NoFetch}, Enter(a, c, me)
    PROVE  /\ \A k \in Keys : fetch'[k].at = "ok" => fetch'[k].of # Nobody
           /\ NothingLeft'
<1>1. "me" \in Keys
  BY DEF Keys
<1>2. \A k \in Keys : \/ fetch'[k] = me /\ k = "me"
                      \/ fetch'[k] = Sent(c)
                      \/ fetch'[k] = fetch[k]
  BY DEF Enter, TypeOK
<1>3. \A k \in Keys : fetch'[k].at = "ok" => fetch'[k].of # Nobody
  BY <1>1, <1>2, Idle DEF Named
<1>. QED  BY <1>3 DEF NothingLeft, Enter

LEMMA InitNothingLeft == Init => NothingLeftInv
<1>. SUFFICES ASSUME Init PROVE Named /\ NothingLeft
  BY InitTypes DEF NothingLeftInv
<1>1. "me" \notin Queries /\ Queries \subseteq Keys
  BY ClientAssumption DEF Keys, Families
<1>2. \A k \in Keys : fetch[k].at \in {"sent", "idle"}
                     /\ (k # "me" => fetch[k] = NoFetch)
  BY Idle DEF Init
<1>3. \A q \in Queries : cache[q] = NoData
  BY DEF Init
<1>4. login = NoAuth
  BY DEF Init
<1>. QED  BY <1>1, <1>2, <1>3, <1>4, Idle DEF Named, NothingLeft

LEMMA NextNothingLeft ==
    ASSUME NothingLeftInv, [Next]_vars PROVE NothingLeftInv'
<1>. USE ClientAssumption, Idle DEF NothingLeftInv
<1>0. TypeOK'
  BY NextTypes
<1>. SUFFICES Named' /\ NothingLeft'
  BY <1>0
<1>k. "me" \in Keys /\ "me" \notin Queries /\ Queries \subseteq Keys
  BY DEF Keys, Families
<1>1. ASSUME UNCHANGED <<fetch, cache, shown>>, login' = login \/ login'.at # "ok"
             \/ login'.of # Nobody
      PROVE  Named' /\ NothingLeft'
  BY <1>1 DEF Named, NothingLeft
<1>2. ASSUME NEW k \in Keys, Serve(k) PROVE Named' /\ NothingLeft'
  <2>1. fetch[k].sid \in live => owner[fetch[k].sid] # Nobody
    BY DEF TypeOK
  <2>2. \A j \in Keys : j # k => fetch'[j] = fetch[j]
    BY <1>2 DEF Serve, TypeOK
  <2>3. /\ fetch[k].at = "sent" /\ fetch'[k].at # "idle"
        /\ fetch'[k].at = "ok" => fetch'[k].of # Nobody
    BY <1>2, <2>1 DEF Serve, TypeOK, NoFetch
  <2>4. login' = login /\ shown' = shown /\ cache' = cache
    BY <1>2 DEF Serve
  <2>. QED  BY <1>k, <2>2, <2>3, <2>4 DEF Named, NothingLeft
<1>3. CASE Server
  <2>1. ASSUME NEW n \in Sids, ServeLogin(n)
        PROVE  UNCHANGED <<fetch, cache, shown>> /\ (login'.at # "ok" \/ login'.of # Nobody)
    BY <2>1 DEF ServeLogin, TypeOK, Auths, NoAuth
  <2>. QED  BY <1>1, <1>2, <1>3, <2>1
            DEF Server, ServeMutation, ServeLogout, Expire, TakeOver
<1>4. ASSUME shown # Nobody, shown' = shown, login' = login,
             \A k \in Keys : \/ fetch'[k].at \in {"idle", "sent"}
                             \/ fetch'[k] = fetch[k]
      PROVE  Named' /\ NothingLeft'
  BY <1>4 DEF Named, NothingLeft
<1>5. CASE User
  <2>1. ASSUME NEW M, Mount(M, cookie)
        PROVE  \A k \in Keys : fetch'[k].at = "sent" \/ fetch'[k] = fetch[k]
    BY <2>1 DEF Mount
  <2>2. ASSUME NEW t \in Tabs, SwitchTab(t) PROVE Named' /\ NothingLeft'
    BY <1>4, <2>1, <2>2 DEF SwitchTab
  <2>3. ASSUME NEW p \in Panels, OpenPanel(p) PROVE Named' /\ NothingLeft'
    BY <1>4, <2>1, <2>3 DEF OpenPanel
  <2>4. ASSUME NEW q \in Queries, ChangeKey(q) \/ Retry(q)
        PROVE  Named' /\ NothingLeft'
    <3>1. \A k \in Keys : fetch'[k].at = "sent" \/ fetch'[k] = fetch[k]
      BY <2>4, <1>k DEF ChangeKey, Retry, TypeOK
    <3>. QED  BY <1>4, <2>4, <3>1 DEF ChangeKey, Retry, Mounted
  <2>5. CASE Reconnect
    <3>1. \A k \in Keys : \/ fetch'[k].at = "sent" /\ k \in Mounted \cup {"me"}
                          \/ fetch'[k] = fetch[k]
      BY <2>5 DEF Reconnect
    <3>2. UNCHANGED <<cache, shown, login>>
      BY <2>5 DEF Reconnect
    <3>3. CASE shown # Nobody
      BY <1>4, <3>1, <3>2, <3>3
    <3>4. CASE shown = Nobody
      BY <1>k, <3>1, <3>2, <3>4 DEF Named, NothingLeft, Mounted
    <3>. QED  BY <3>3, <3>4
  <2>6. ASSUME NEW a \in Accounts, SubmitLogin(a) PROVE Named' /\ NothingLeft'
    BY <1>1, <2>6 DEF SubmitLogin
  <2>. QED  BY <1>1, <1>5, <2>2, <2>3, <2>4, <2>5, <2>6
            DEF User, ClickLogout, ClosePanel, StartMutation
<1>6. CASE Answers
  <2>1. ASSUME NEW q \in Queries, ArriveData(q) PROVE Named' /\ NothingLeft'
    <3>1. \A k \in Keys : fetch'[k].at = "idle" \/ fetch'[k] = fetch[k]
      BY <2>1, <1>k DEF ArriveData, TypeOK
    <3>2. shown # Nobody
      BY <2>1 DEF ArriveData, NothingLeft
    <3>. QED  BY <1>4, <2>1, <3>1, <3>2 DEF ArriveData
  <2>2. CASE ArriveMe
    BY <2>2, <1>k, EnterNamed DEF ArriveMe, Named, TypeOK
  <2>3. ASSUME NEW k \in Keys, ArriveUnauthorized(k) PROVE Named' /\ NothingLeft'
    BY <2>3, LeaveNamed DEF ArriveUnauthorized, Named
  <2>4. ASSUME NEW k \in Keys, LoseFetch(k) PROVE Named' /\ NothingLeft'
    <3>1. \A j \in Keys : fetch'[j] = NoFetch \/ fetch'[j] = fetch[j]
      BY <2>4 DEF LoseFetch, TypeOK
    <3>2. \A q \in Queries : cache'[q].has = cache[q].has
      BY <2>4 DEF LoseFetch, TypeOK, Data
    <3>. QED  BY <1>k, <2>4, <3>1, <3>2 DEF LoseFetch, Named, NothingLeft
  <2>5. ASSUME NEW m \in Slots, ArriveMutation(m) PROVE Named' /\ NothingLeft'
    <3>. DEFINE S == Invalidates[muts[m].table]
    <3>1. \A k \in Keys : (fetch'[k].at = "sent" /\ k \in Mounted) \/ fetch'[k] = fetch[k]
      BY <2>5 DEF ArriveMutation, Invalidate
    <3>2. UNCHANGED <<cache, shown, login>>
      BY <2>5 DEF ArriveMutation
    <3>3. CASE shown # Nobody
      BY <1>4, <3>1, <3>2, <3>3
    <3>4. CASE shown = Nobody
      BY <1>k, <3>1, <3>2, <3>4 DEF Named, NothingLeft, Mounted
    <3>. QED  BY <3>3, <3>4
  <2>6. ASSUME NEW m \in Slots, ArriveRefusal(m) PROVE Named' /\ NothingLeft'
    BY <2>6, LeaveNamed DEF ArriveRefusal, Named
  <2>7. CASE ArriveLogin
    <3>1. Enter(login.of, login.sid, fetch["me"]) /\ login.of # Nobody
          /\ login.sid \in 0 .. MaxSid /\ login'.at # "ok"
      BY <2>7 DEF ArriveLogin, Named, TypeOK, Auths
    <3>. QED  BY <3>1, EnterNamed DEF Named
  <2>8. CASE ArriveLoginRefusal
    BY <2>8, LeaveNamed DEF ArriveLoginRefusal, Named
  <2>9. CASE EndLogout
    BY <2>9, LeaveNamed DEF EndLogout, Named
  <2>. QED  BY <1>1, <1>6, <2>1, <2>2, <2>3, <2>4, <2>5, <2>6, <2>7, <2>8, <2>9
            DEF Answers, LoseMutation, LoseLogin
<1>7. CASE UNCHANGED vars
  BY <1>1, <1>7 DEF vars
<1>. QED  BY <1>3, <1>5, <1>6, <1>7 DEF Next

\* On the login page no query has data, and none can still receive any.
THEOREM NothingIsLeft == Spec => []NothingLeft
<1>1. Init => NothingLeftInv
  BY InitNothingLeft
<1>2. NothingLeftInv /\ [Next]_vars => NothingLeftInv'
  BY NextNothingLeft
<1>3. NothingLeftInv => NothingLeft
  BY DEF NothingLeftInv
<1>. QED  BY <1>1, <1>2, <1>3, PTL DEF Spec

(***************************************************************************)
(* Whose data.  A session number in use names an account for ever, and as  *)
(* long as no other tab and no late answer interferes, the cookie is of    *)
(* the account on the screen, and so is what is loaded and on its way.     *)
(***************************************************************************)
Owned ==
    /\ cookie # 0 => owner[cookie] # Nobody
    /\ login.at = "ok" => login.sid \in Sids /\ owner[login.sid] = login.of
    /\ \A m \in Slots : /\ muts[m].sid # 0 => owner[muts[m].sid] # Nobody
                        /\ muts[m].at = "refused" => muts[m].sid \notin live

OwnScreen ==
    /\ login.at # "idle" => shown = Nobody
    /\ shown # Nobody => known /\ cookie # 0 /\ owner[cookie] = shown
    /\ ~known => /\ fetch["me"].at = "sent" => fetch["me"].sid = cookie
                 /\ fetch["me"].at = "ok"
                      => cookie # 0 /\ fetch["me"].of = owner[cookie]
    /\ \A q \in Queries : /\ fetch[q].at = "sent"    => fetch[q].sid = cookie
                          /\ fetch[q].at = "ok"      => fetch[q].of = shown
                          /\ fetch[q].at = "refused" => cookie \notin live
                          /\ cache[q].has            => cache[q].of = shown

Own == taken \/ overtook \/ OwnScreen

OwnInv == NothingLeftInv /\ Owned /\ Own

LEMMA InitOwn == Init => OwnInv
<1>. SUFFICES ASSUME Init PROVE Owned /\ OwnScreen
  BY InitNothingLeft DEF OwnInv, Own
<1>. USE ClientAssumption, Idle
<1>1. "me" \in Keys /\ "me" \notin Queries /\ Queries \subseteq Keys /\ 1 \in Sids
  BY DEF Keys, Families, Sids
<1>2. Owned
  BY <1>1 DEF Init, Owned, NoMut
<1>3. /\ fetch["me"] = Sent(cookie) /\ login.at = "idle" /\ shown = Nobody
      /\ \A q \in Queries : fetch[q] = NoFetch /\ cache[q] = NoData
  BY <1>1 DEF Init
<1>4. OwnScreen
  BY <1>1, <1>3 DEF OwnScreen
<1>. QED  BY <1>2, <1>4

LEMMA CreateKeeps ==
    ASSUME TypeOK, NEW n \in Sids, NEW a \in Accounts, NEW old, Create(n, a, old)
    PROVE  /\ owner[n] = Nobody /\ owner'[n] = a /\ n # 0
           /\ \A s \in Sids : owner[s] # Nobody => s # n /\ owner'[s] = owner[s]
           /\ live' \subseteq live \cup {n}
BY ClientAssumption DEF Create, TypeOK, Sids

LEMMA NextOwned == ASSUME OwnInv, [Next]_vars PROVE Owned'
<1>. USE ClientAssumption DEF OwnInv, NothingLeftInv
<1>z. /\ \A s \in 0 .. MaxSid : s # 0 <=> s \in Sids
      /\ cookie \in 0 .. MaxSid /\ \A m \in Slots : muts[m].sid \in 0 .. MaxSid
      /\ \A m \in Slots : muts[m] \in Mutations
  BY DEF Sids, TypeOK, Mutations
<1>1. ASSUME UNCHANGED <<owner, muts, cookie, login>>, live' \subseteq live
      PROVE  Owned'
  BY <1>1 DEF Owned
<1>2. ASSUME UNCHANGED <<owner, live, muts>>, cookie' \in {cookie, 0},
             login'.at # "ok" \/ login' = login
      PROVE  Owned'
  BY <1>2 DEF Owned
<1>3. ASSUME UNCHANGED <<owner, live, cookie, login>>, NEW m \in Slots,
             \A l \in Slots \ {m} : muts'[l] = muts[l],
             muts'[m].at # "refused", muts'[m].sid \in {0, cookie}
      PROVE  Owned'
  BY <1>3 DEF Owned
<1>4. CASE Server
  <2>1. ASSUME NEW m \in Slots, ServeMutation(m) PROVE Owned'
    <3>1. \A l \in Slots \ {m} : muts'[l] = muts[l]
      BY <2>1 DEF ServeMutation, TypeOK
    <3>2. /\ muts'[m].sid = muts[m].sid
          /\ muts'[m].at = "refused" => muts[m].sid \notin live
      <4>1. CASE muts[m].sid \in live
        <5>1. muts'[m] = [muts[m] EXCEPT !.at = "ok", !.seen = commits + 1]
          BY <2>1, <4>1 DEF ServeMutation, TypeOK
        <5>. QED  BY <1>z, <5>1 DEF Mutations
      <4>2. CASE muts[m].sid \notin live
        BY <1>z, <2>1, <4>2 DEF ServeMutation, TypeOK, Mutations
      <4>. QED  BY <4>1, <4>2
    <3>. QED  BY <2>1, <3>1, <3>2 DEF ServeMutation, Owned
  <2>2. ASSUME NEW n \in Sids, ServeLogin(n) PROVE Owned'
    <3>1. CASE Create(n, login.of, login.sid) /\ login' = [login EXCEPT !.at = "ok", !.sid = n]
      <4>1. login.of \in Accounts
        BY <2>2 DEF ServeLogin, TypeOK, Auths
      <4>2. login'.sid = n /\ login'.of = login.of
        BY <3>1 DEF TypeOK, Auths
      <4>. QED  BY <1>z, <2>2, <3>1, <4>1, <4>2, CreateKeeps DEF ServeLogin, Owned
    <3>2. CASE login' = [NoAuth EXCEPT !.at = "refused"] /\ UNCHANGED <<owner, live>>
      <4>1. login'.at # "ok"
        BY <3>2 DEF NoAuth
      <4>. QED  BY <1>2, <2>2, <3>2, <4>1 DEF ServeLogin
    <3>. QED  BY <2>2, <3>1, <3>2 DEF ServeLogin
  <2>3. ASSUME NEW n \in Sids, NEW a \in Accounts, TakeOver(n, a) PROVE Owned'
    <3>1. UNCHANGED <<login, muts>> /\ cookie' = n /\ Create(n, a, cookie)
      BY <2>3 DEF TakeOver
    <3>2. login.at = "ok" => owner[login.sid] # Nobody
      BY DEF Owned, Named
    <3>. QED  BY <1>z, <3>1, <3>2, CreateKeeps DEF Owned
  <2>4. ASSUME NEW k \in Keys, Serve(k) PROVE Owned'
    BY <1>1, <2>4 DEF Serve
  <2>5. ASSUME NEW s \in Sids, Expire(s) PROVE Owned'
    BY <1>1, <2>5 DEF Expire
  <2>6. CASE ServeLogout
    BY <1>1, <2>6 DEF ServeLogout
  <2>. QED  BY <1>4, <2>1, <2>2, <2>3, <2>4, <2>5, <2>6 DEF Server
<1>5. CASE User
  <2>1. ASSUME NEW m \in Slots, NEW t \in Changes, StartMutation(m, t) PROVE Owned'
    <3>1. /\ \A l \in Slots \ {m} : muts'[l] = muts[l]
          /\ muts'[m].at # "refused" /\ muts'[m].sid = cookie
      BY <2>1 DEF StartMutation, TypeOK
    <3>. QED  BY <1>3, <2>1, <3>1 DEF StartMutation
  <2>2. ASSUME NEW a \in Accounts, SubmitLogin(a) PROVE Owned'
    BY <1>2, <2>2 DEF SubmitLogin
  <2>3. ASSUME NEW t \in Tabs, SwitchTab(t) PROVE Owned'
    BY <1>1, <2>3 DEF SwitchTab
  <2>4. ASSUME NEW p \in Panels, OpenPanel(p) PROVE Owned'
    BY <1>1, <2>4 DEF OpenPanel
  <2>5. ASSUME NEW q \in Queries, ChangeKey(q) \/ Retry(q) PROVE Owned'
    BY <1>1, <2>5 DEF ChangeKey, Retry
  <2>6. CASE ClickLogout \/ ClosePanel \/ Reconnect
    BY <1>1, <2>6 DEF ClickLogout, ClosePanel, Reconnect
  <2>. QED  BY <1>5, <2>1, <2>2, <2>3, <2>4, <2>5, <2>6 DEF User
<1>6. CASE Answers
  <2>1. Finished.at # "refused" /\ Finished.sid = 0 /\ NoAuth.at # "ok"
    BY DEF Finished, NoMut, NoAuth
  <2>2. ASSUME NEW m \in Slots, muts' = [muts EXCEPT ![m] = Finished],
               UNCHANGED <<owner, live, cookie, login>>
        PROVE  Owned'
    BY <1>3, <2>1, <2>2 DEF TypeOK
  <2>3. ASSUME NEW m \in Slots, ArriveMutation(m) PROVE Owned'
    BY <2>2, <2>3 DEF ArriveMutation
  <2>4. ASSUME NEW m \in Slots, ArriveRefusal(m) PROVE Owned'
    BY <2>2, <2>4 DEF ArriveRefusal
  <2>5. ASSUME NEW m \in Slots, LoseMutation(m) PROVE Owned'
    BY <2>2, <2>5 DEF LoseMutation
  <2>6. CASE ArriveLogin
    BY <2>1, <2>6 DEF ArriveLogin, Owned, Named
  <2>7. CASE ArriveLoginRefusal \/ LoseLogin
    BY <1>2, <2>1, <2>7 DEF ArriveLoginRefusal, LoseLogin
  <2>8. CASE EndLogout
    BY <1>2, <2>8 DEF EndLogout
  <2>9. ASSUME NEW k \in Keys, ArriveUnauthorized(k) \/ LoseFetch(k) PROVE Owned'
    BY <1>1, <2>9 DEF ArriveUnauthorized, LoseFetch
  <2>10. ASSUME NEW q \in Queries, ArriveData(q) PROVE Owned'
    BY <1>1, <2>10 DEF ArriveData
  <2>11. CASE ArriveMe
    BY <1>1, <2>11 DEF ArriveMe
  <2>. QED  BY <1>6, <2>3, <2>4, <2>5, <2>6, <2>7, <2>8, <2>9, <2>10, <2>11
            DEF Answers
<1>7. CASE UNCHANGED vars
  BY <1>1, <1>7 DEF vars
<1>. QED  BY <1>4, <1>5, <1>6, <1>7 DEF Next

\* Requests are sent with the cookie of the moment, or dropped.
LEMMA SendingKeepsOwn ==
    ASSUME OwnInv, UNCHANGED <<owner, cookie, known, shown, taken, overtook>>,
           live' \subseteq live,
           login'.at = "idle" \/ login' = login,
           \A k \in Keys : \/ fetch'[k] = fetch[k]
                           \/ fetch'[k].at = "sent" /\ fetch'[k].sid = cookie
                           \/ fetch'[k].at = "idle",
           \A q \in Queries : cache'[q].has => cache[q].has /\ cache'[q].of = cache[q].of
    PROVE  Own'
<1>1. "me" \in Keys /\ Queries \subseteq Keys
  BY DEF Keys
<1>2. SUFFICES ASSUME OwnScreen PROVE OwnScreen'
  BY DEF OwnInv, Own
<1>3. /\ login'.at # "idle" => shown = Nobody
      /\ shown # Nobody => known /\ cookie # 0 /\ owner[cookie] = shown
  BY <1>2 DEF OwnScreen
<1>4. ~known => /\ fetch'["me"].at = "sent" => fetch'["me"].sid = cookie
                /\ fetch'["me"].at = "ok"
                      => cookie # 0 /\ fetch'["me"].of = owner[cookie]
  BY <1>1, <1>2 DEF OwnScreen
<1>5. ASSUME NEW q \in Queries
      PROVE  /\ fetch'[q].at = "sent"    => fetch'[q].sid = cookie
             /\ fetch'[q].at = "ok"      => fetch'[q].of = shown
             /\ fetch'[q].at = "refused" => cookie \notin live'
             /\ cache'[q].has            => cache'[q].of = shown
  BY <1>1, <1>2 DEF OwnScreen
<1>. QED  BY <1>3, <1>4, <1>5 DEF OwnScreen

LEMMA LeavingKeepsOwn ==
    ASSUME OwnInv, NEW me, Leave(me) PROVE Own'
<1>1. "me" \notin Queries /\ Queries \subseteq Keys
  BY ClientAssumption DEF Keys, Families
<1>2. shown' = Nobody /\ known' = TRUE
  BY DEF Leave
<1>3. \A q \in Queries : fetch'[q] = NoFetch /\ cache'[q] = NoData
  BY <1>1 DEF Leave
<1>. QED  BY <1>2, <1>3, Idle DEF Own, OwnScreen

LEMMA ServerOwn == ASSUME OwnInv, Server PROVE Own'
<1>. USE ClientAssumption DEF OwnInv, NothingLeftInv
<1>1. "me" \in Keys /\ "me" \notin Queries /\ Queries \subseteq Keys
  BY DEF Keys, Families
<1>2. ASSUME NEW k \in Keys, Serve(k) PROVE Own'
  <2>1. SUFFICES ASSUME OwnScreen PROVE OwnScreen'
    BY <1>2 DEF Own, Serve
  <2>2. UNCHANGED <<owner, live, cookie, known, shown, cache, login>>
    BY <1>2 DEF Serve
  <2>3. \A j \in Keys : j # k => fetch'[j] = fetch[j]
    BY <1>2 DEF Serve, TypeOK
  <2>4. /\ fetch[k].at = "sent"
        /\ \/ /\ fetch[k].sid \in live /\ fetch'[k].at = "ok"
              /\ fetch'[k].of = owner[fetch[k].sid]
           \/ fetch[k].sid \notin live /\ fetch'[k].at = "refused"
    BY <1>2 DEF Serve, TypeOK, NoFetch
  <2>5. k \in Queries => shown # Nobody
    BY <2>4 DEF NothingLeft
  <2>6. \A s \in live : s # 0
    BY DEF TypeOK, Sids
  <2>. QED  BY <1>1, <2>1, <2>2, <2>3, <2>4, <2>5, <2>6 DEF OwnScreen
<1>3. ASSUME NEW n \in Sids, ServeLogin(n) PROVE Own'
  <2>1. SUFFICES ASSUME OwnScreen PROVE OwnScreen'
    BY <1>3 DEF Own, ServeLogin
  <2>2. UNCHANGED <<cookie, known, shown, cache, fetch>> /\ login.at = "sent"
    BY <1>3 DEF ServeLogin
  <2>3. shown = Nobody
    BY <2>1, <2>2 DEF OwnScreen
  <2>4. \A q \in Queries : ~cache[q].has /\ fetch[q].at = "idle"
    BY <2>3 DEF NothingLeft
  <2>5. cookie # 0 => owner'[cookie] = owner[cookie]
    <3>1. CASE UNCHANGED <<owner, live>>
      BY <3>1
    <3>2. CASE Create(n, login.of, login.sid)
      <4>1. login.of \in Accounts
        BY <2>2 DEF TypeOK, Auths
      <4>2. cookie # 0 => cookie \in Sids /\ owner[cookie] # Nobody
        BY DEF Owned, TypeOK, Sids
      <4>. QED  BY <3>2, <4>1, <4>2, CreateKeeps
    <3>. QED  BY <1>3, <3>1, <3>2 DEF ServeLogin
  <2>. QED  BY <2>1, <2>2, <2>3, <2>4, <2>5 DEF OwnScreen
<1>4. ASSUME NEW n \in Sids, NEW a \in Accounts, TakeOver(n, a) PROVE Own'
  BY <1>4 DEF TakeOver, Own
<1>5. CASE ServeLogout \/ \E s \in Sids : Expire(s)
  BY <1>5, SendingKeepsOwn DEF ServeLogout, Expire
<1>6. ASSUME NEW m \in Slots, ServeMutation(m) PROVE Own'
  BY <1>6, SendingKeepsOwn DEF ServeMutation
<1>. QED  BY <1>2, <1>3, <1>4, <1>5, <1>6 DEF Server

LEMMA OldOrSent ==
    ASSUME \A k \in Keys : fetch'[k] = fetch[k] \/ fetch'[k] = Sent(cookie)
    PROVE  \A k \in Keys : \/ fetch'[k] = fetch[k]
                           \/ fetch'[k].at = "sent" /\ fetch'[k].sid = cookie
<1>1. Sent(cookie).at = "sent" /\ Sent(cookie).sid = cookie
  BY DEF Sent, NoFetch
<1>2. SUFFICES ASSUME NEW k \in Keys, fetch'[k] # fetch[k]
               PROVE  fetch'[k].at = "sent" /\ fetch'[k].sid = cookie
  OBVIOUS
<1>3. fetch'[k] = Sent(cookie)
  BY <1>2
<1>. QED  BY <1>1, <1>3

LEMMA UserOwn == ASSUME OwnInv, User PROVE Own'
<1>. USE ClientAssumption, Idle
<1>1. TypeOK /\ Queries \subseteq Keys /\ "me" \in Keys
  BY DEF OwnInv, NothingLeftInv, Keys
<1>2. ASSUME NEW M, Mount(M, cookie)
      PROVE  \A k \in Keys : \/ fetch'[k] = fetch[k]
                             \/ fetch'[k].at = "sent" /\ fetch'[k].sid = cookie
  BY <1>2 DEF Mount
<1>3. ASSUME NEW a \in Accounts, SubmitLogin(a) PROVE Own'
  <2>1. SUFFICES ASSUME OwnScreen PROVE OwnScreen'
    BY <1>3 DEF OwnInv, Own, SubmitLogin
  <2>2. shown = Nobody
    BY <1>3 DEF SubmitLogin, LoginPage
  <2>. QED  BY <1>3, <2>1, <2>2 DEF OwnScreen, SubmitLogin
<1>4. CASE ClickLogout \/ ClosePanel
  BY <1>4, SendingKeepsOwn DEF ClickLogout, ClosePanel
<1>5. ASSUME NEW t \in Tabs, SwitchTab(t) PROVE Own'
  BY <1>2, <1>5, SendingKeepsOwn DEF SwitchTab
<1>6. ASSUME NEW p \in Panels, OpenPanel(p) PROVE Own'
  BY <1>2, <1>6, SendingKeepsOwn DEF OpenPanel
<1>7. ASSUME NEW q \in Queries, ChangeKey(q) PROVE Own'
  <2>1. \A k \in Keys : \/ fetch'[k] = fetch[k]
                        \/ fetch'[k].at = "sent" /\ fetch'[k].sid = cookie
    <3>1. \A k \in Keys : fetch'[k] = fetch[k] \/ fetch'[k] = Sent(cookie)
      BY <1>1, <1>7 DEF ChangeKey, TypeOK
    <3>. QED  BY Zenon, <3>1, OldOrSent
  <2>2. \A p \in Queries : cache'[p] = cache[p] \/ ~cache'[p].has
    BY <1>1, <1>7 DEF ChangeKey, TypeOK
  <2>. QED  BY <1>7, <2>1, <2>2, SendingKeepsOwn DEF ChangeKey
<1>8. ASSUME NEW q \in Queries, Retry(q) PROVE Own'
  <2>1. \A k \in Keys : \/ fetch'[k] = fetch[k]
                        \/ fetch'[k].at = "sent" /\ fetch'[k].sid = cookie
    <3>1. \A k \in Keys : fetch'[k] = fetch[k] \/ fetch'[k] = Sent(cookie)
      BY <1>1, <1>8 DEF Retry, TypeOK
    <3>. QED  BY Zenon, <3>1, OldOrSent
  <2>. QED  BY <1>8, <2>1, SendingKeepsOwn DEF Retry
<1>9. ASSUME NEW m \in Slots, NEW t \in Changes, StartMutation(m, t) PROVE Own'
  BY <1>9, SendingKeepsOwn DEF StartMutation
<1>10. CASE Reconnect
  <2>1. \A k \in Keys : \/ fetch'[k] = fetch[k]
                        \/ fetch'[k].at = "sent" /\ fetch'[k].sid = cookie
    <3>1. \A k \in Keys : fetch'[k] = fetch[k] \/ fetch'[k] = Sent(cookie)
      BY <1>10 DEF Reconnect
    <3>. QED  BY Zenon, <3>1, OldOrSent
  <2>. QED  BY <1>10, <2>1, SendingKeepsOwn DEF Reconnect
<1>. QED  BY <1>3, <1>4, <1>5, <1>6, <1>7, <1>8, <1>9, <1>10 DEF User

LEMMA AnswersOwn == ASSUME OwnInv, Answers PROVE Own'
<1>. USE ClientAssumption, Idle
<1>1. /\ TypeOK /\ Named /\ NothingLeft /\ Owned
      /\ "me" \in Keys /\ "me" \notin Queries /\ Queries \subseteq Keys
  BY DEF OwnInv, NothingLeftInv, Keys, Families
<1>2. ASSUME NEW q \in Queries, ArriveData(q) PROVE Own'
  <2>1. SUFFICES ASSUME OwnScreen PROVE OwnScreen'
    BY <1>2 DEF OwnInv, Own, ArriveData
  <2>2. UNCHANGED <<owner, live, cookie, known, shown, login>>
    BY <1>2 DEF ArriveData
  <2>3. \A k \in Keys : fetch'[k] = fetch[k] \/ fetch'[k].at = "idle"
    BY <1>1, <1>2 DEF ArriveData, TypeOK
  <2>4. /\ cache'[q].of = fetch[q].of /\ fetch[q].at = "ok"
        /\ \A p \in Queries : p # q => cache'[p] = cache[p]
    BY <1>1, <1>2 DEF ArriveData, TypeOK
  <2>5. cache'[q].of = shown
    BY <2>1, <2>4 DEF OwnScreen
  <2>. QED  BY <1>1, <2>1, <2>2, <2>3, <2>4, <2>5 DEF OwnScreen
<1>3. CASE ArriveMe
  <2>. DEFINE a == fetch["me"].of
  <2>1. SUFFICES ASSUME OwnScreen, ~overtook' PROVE OwnScreen'
    BY <1>3 DEF OwnInv, Own, ArriveMe
  <2>2. /\ Enter(a, cookie, NoFetch) /\ fetch["me"].at = "ok" /\ a # Nobody
        /\ UNCHANGED <<owner, live, cookie, login, cache>> /\ known' = TRUE
        /\ shown' = a
    BY <1>1, <1>3 DEF ArriveMe, Named, Enter
  <2>3. a = shown \/ (~known /\ login.at = "idle")
    BY <1>3, <2>1 DEF ArriveMe
  <2>4. CASE a = shown
    <3>1. \A q \in Queries : fetch'[q] = fetch[q]
      BY <1>1, <2>2, <2>4 DEF Enter, TypeOK
    <3>. QED  BY <2>1, <2>2, <2>4, <3>1 DEF OwnScreen
  <2>5. CASE ~known /\ login.at = "idle"
    <3>1. shown = Nobody /\ cookie # 0 /\ owner[cookie] = a
      BY <2>1, <2>2, <2>5 DEF OwnScreen
    <3>2. \A q \in Queries : fetch[q].at = "idle" /\ ~cache[q].has
      BY <1>1, <3>1 DEF NothingLeft
    <3>3. \A q \in Queries : fetch'[q] = Sent(cookie) \/ fetch'[q] = fetch[q]
      BY <1>1, <2>2, <3>1 DEF Enter
    <3>4. \A q \in Queries : /\ fetch'[q].at \in {"sent", "idle"}
                             /\ fetch'[q].at = "sent" => fetch'[q].sid = cookie
      BY <3>2, <3>3 DEF Sent, NoFetch
    <3>. QED  BY <2>2, <2>5, <3>1, <3>2, <3>4 DEF OwnScreen
  <2>. QED  BY <2>3, <2>4, <2>5
<1>4. ASSUME NEW k \in Keys, ArriveUnauthorized(k) PROVE Own'
  BY <1>4, LeavingKeepsOwn DEF ArriveUnauthorized
<1>5. ASSUME NEW k \in Keys, LoseFetch(k) PROVE Own'
  <2>1. \A j \in Keys : fetch'[j] = fetch[j] \/ fetch'[j].at = "idle"
    BY <1>1, <1>5 DEF LoseFetch, TypeOK
  <2>2. \A q \in Queries : cache'[q].has = cache[q].has /\ cache'[q].of = cache[q].of
    BY <1>1, <1>5 DEF LoseFetch, TypeOK, Data
  <2>. QED  BY <1>5, <2>1, <2>2, SendingKeepsOwn DEF LoseFetch
<1>6. ASSUME NEW m \in Slots, ArriveMutation(m) PROVE Own'
  <2>1. Invalidate(Invalidates[muts[m].table])
    BY <1>6 DEF ArriveMutation
  <2>2. \A k \in Keys : fetch'[k] = fetch[k] \/ fetch'[k] = Sent(cookie)
    BY <2>1 DEF Invalidate
  <2>3. \A k \in Keys : \/ fetch'[k] = fetch[k]
                        \/ fetch'[k].at = "sent" /\ fetch'[k].sid = cookie
    BY Zenon, <2>2, OldOrSent
  <2>. QED  BY <1>6, <2>3, SendingKeepsOwn DEF ArriveMutation
<1>7. ASSUME NEW m \in Slots, ArriveRefusal(m) PROVE Own'
  BY <1>7, LeavingKeepsOwn DEF ArriveRefusal
<1>8. ASSUME NEW m \in Slots, LoseMutation(m) PROVE Own'
  BY <1>8, SendingKeepsOwn DEF LoseMutation
<1>9. CASE ArriveLogin
  <2>1. SUFFICES ASSUME OwnScreen PROVE OwnScreen'
    BY <1>9 DEF OwnInv, Own, ArriveLogin
  <2>2. /\ login.at = "ok" /\ login'.at = "idle" /\ cookie' = login.sid
        /\ Enter(login.of, login.sid, fetch["me"]) /\ UNCHANGED <<owner, live>>
    BY <1>9 DEF ArriveLogin
  <2>3. shown = Nobody /\ login.sid \in Sids /\ owner[login.sid] = login.of
    BY <1>1, <2>1, <2>2 DEF OwnScreen, Owned
  <2>4. \A q \in Queries : fetch[q].at = "idle" /\ ~cache[q].has
    BY <1>1, <2>3 DEF NothingLeft
  <2>5. \A q \in Queries : fetch'[q] = Sent(cookie') \/ fetch'[q] = fetch[q]
    BY <1>1, <2>2, <2>3 DEF Enter
  <2>6. \A q \in Queries : /\ fetch'[q].at \in {"sent", "idle"}
                           /\ fetch'[q].at = "sent" => fetch'[q].sid = cookie'
    BY <2>4, <2>5 DEF Sent, NoFetch
  <2>7. shown' = login.of /\ known' = TRUE /\ cache' = cache /\ cookie' # 0
    BY <2>2, <2>3 DEF Enter, Sids
  <2>. QED  BY <2>2, <2>3, <2>4, <2>6, <2>7 DEF OwnScreen
<1>10. CASE ArriveLoginRefusal
  BY <1>10, LeavingKeepsOwn DEF ArriveLoginRefusal
<1>11. CASE LoseLogin
  BY <1>11, SendingKeepsOwn DEF LoseLogin
<1>12. CASE EndLogout
  BY <1>12, LeavingKeepsOwn DEF EndLogout
<1>. QED  BY <1>2, <1>3, <1>4, <1>5, <1>6, <1>7, <1>8, <1>9, <1>10, <1>11,
             <1>12 DEF Answers

LEMMA NextOwn == ASSUME OwnInv, [Next]_vars PROVE OwnInv'
<1>1. NothingLeftInv' /\ Owned'
  BY NextNothingLeft, NextOwned DEF OwnInv
<1>2. ASSUME UNCHANGED vars PROVE Own'
  BY <1>2 DEF vars, OwnInv, Own, OwnScreen
<1>3. Own'
  BY <1>2, ServerOwn, UserOwn, AnswersOwn DEF Next
<1>. QED  BY <1>1, <1>3 DEF OwnInv

\* What is on the screen is of the account whose name is on the screen, unless
\* another tab has logged in or a late /auth/me has overtaken the login page.
THEOREM OwnDataOnly == Spec => []OwnData
<1>1. Init => OwnInv
  BY InitOwn
<1>2. OwnInv /\ [Next]_vars => OwnInv'
  BY NextOwn
<1>3. OwnInv => OwnData
  BY DEF OwnInv, Own, OwnScreen, OwnData
<1>. QED  BY <1>1, <1>2, <1>3, PTL DEF Spec

LEMMA OnlyLeavingEmpties ==
    ASSUME OwnInv, [Next]_vars, shown # Nobody, shown' = Nobody
    PROVE  \/ logout.at # "idle" /\ logout'.at = "idle"
           \/ login.at = "refused"
           \/ \E k \in Keys : ArriveUnauthorized(k)
           \/ \E m \in Slots : ArriveRefusal(m)
<1>. USE DEF OwnInv, NothingLeftInv
<1>1. CASE Server
  BY <1>1 DEF Server, Serve, ServeMutation, ServeLogin, ServeLogout, Expire, TakeOver
<1>2. CASE User
  BY <1>2 DEF User, SubmitLogin, ClickLogout, SwitchTab, OpenPanel, ClosePanel,
     ChangeKey, Retry, StartMutation, Reconnect
<1>3. CASE Answers
  <2>1. CASE ArriveMe
    BY <2>1 DEF ArriveMe, Enter, Named, Keys
  <2>2. CASE ArriveLogin
    BY <2>2 DEF ArriveLogin, Enter, Named
  <2>3. CASE EndLogout
    BY <2>3, Idle DEF EndLogout
  <2>4. CASE ArriveLoginRefusal
    BY <2>4 DEF ArriveLoginRefusal
  <2>. QED  BY <1>3, <2>1, <2>2, <2>3, <2>4
            DEF Answers, ArriveData, LoseFetch, ArriveMutation, LoseMutation, LoseLogin
<1>4. CASE UNCHANGED vars
  BY <1>4 DEF vars
<1>. QED  BY <1>1, <1>2, <1>3, <1>4 DEF Next

LEMMA StepThrowsOut ==
    ASSUME OwnInv, [Next]_vars, shown # Nobody, shown' = Nobody, cookie \in live
    PROVE  \/ logout.at # "idle" /\ logout.at' = "idle"
           \/ taken \/ overtook
           \/ fetch["me"].at = "refused" /\ fetch["me"].at' = "idle"
           \/ \E m \in Slots : /\ muts[m].at = "refused" /\ muts'[m].at = "done"
                               /\ muts[m].sid # cookie
<1>. SUFFICES ASSUME OwnScreen
              PROVE  \/ logout.at # "idle" /\ logout.at' = "idle"
                     \/ fetch["me"].at = "refused" /\ fetch["me"].at' = "idle"
                     \/ \E m \in Slots : /\ muts[m].at = "refused"
                                         /\ muts'[m].at = "done"
                                         /\ muts[m].sid # cookie
  BY DEF OwnInv, Own
<1>1. login.at # "refused"
  BY DEF OwnScreen
<1>2. ASSUME NEW k \in Keys, ArriveUnauthorized(k)
      PROVE  fetch["me"].at = "refused" /\ fetch["me"].at' = "idle"
  <2>1. fetch[k].at = "refused"
    BY <1>2 DEF ArriveUnauthorized
  <2>2. k = "me"
    BY <2>1 DEF OwnScreen, Keys
  <2>3. Leave(NoFetch)
    BY <1>2, <2>2 DEF ArriveUnauthorized
  <2>. QED  BY <2>1, <2>2, <2>3, Idle DEF Leave, Keys
<1>3. ASSUME NEW m \in Slots, ArriveRefusal(m)
      PROVE  muts[m].at = "refused" /\ muts'[m].at = "done" /\ muts[m].sid # cookie
  <2>1. muts[m].at = "refused" /\ muts'[m] = Finished
    BY <1>3 DEF ArriveRefusal, OwnInv, NothingLeftInv, TypeOK
  <2>2. muts[m].sid \notin live
    BY <2>1 DEF OwnInv, Owned
  <2>. QED  BY <2>1, <2>2 DEF Finished, NoMut
<1>. QED  BY <1>1, <1>2, <1>3, OnlyLeavingEmpties

\* A user whose session is alive is thrown out only by the answer to a request
\* of an older session.
THEOREM OnlyOldAnswers == Spec => OnlyOldAnswersThrowOut
<1>1. Init => OwnInv
  BY InitOwn
<1>2. OwnInv /\ [Next]_vars => OwnInv'
  BY NextOwn
<1>3. OwnInv /\ [Next]_vars =>
        [(shown # Nobody /\ shown' = Nobody /\ cookie \in live)
          => \/ logout.at # "idle" /\ logout.at' = "idle"
             \/ taken \/ overtook
             \/ fetch["me"].at = "refused" /\ fetch["me"].at' = "idle"
             \/ \E m \in Slots : /\ muts[m].at = "refused" /\ muts'[m].at = "done"
                                 /\ muts[m].sid # cookie]_vars
  BY StepThrowsOut
<1>. QED  BY <1>1, <1>2, <1>3, PTL DEF Spec, OnlyOldAnswersThrowOut

(***************************************************************************)
(* Read your writes.  An answer on the screen, or about to be, whose fetch *)
(* has not been joined is no older than what this tab was told of: a       *)
(* success invalidates every query that promises to show the change, and   *)
(* a fetch that replaces the running one is served after it.               *)
(***************************************************************************)
Fresh(q) ==
    \A t \in Promised[q] :
       /\ fetch[q].at = "ok" => acked[t] <= fetch[q].seen
       /\ (fetch[q].at = "idle" /\ cache[q].has /\ ~cache[q].failed)
             => acked[t] <= cache[q].seen

StaleInv ==
    /\ TypeOK
    /\ \A t \in Tables : acked[t] <= commits
    /\ \A m \in Slots :
          /\ muts[m].at \in {"sent", "ok"} => muts[m].table \in Tables
          /\ muts[m].at = "ok" => muts[m].seen <= commits
    /\ \A q \in Mounted : ~joined[q] => Fresh(q)

\* Each hook invalidates every query that promises to show its change.
LEMMA PromisesKept ==
    \A q \in Queries : /\ Promised[q] \subseteq Tables
                       /\ \A t \in Promised[q] : q \in Invalidates[t]
<1>1. /\ Reads["dishes"] = {"dish", "image", "record", "feedback"}
      /\ \A q \in {"recent", "history"} :
            Reads[q] = {"record", "dish", "variant", "feedback"}
      /\ Reads["dish-images"] = {"image"} /\ Reads["dish-variants"] = {"variant"}
      /\ Reads["recipes"] = {"recipe"} /\ Reads["invites"] = {"invite"}
      /\ Reads["members"] = {}
  BY DEF Reads, Families
<1>2. ASSUME NEW q \in Queries
      PROVE  Promised[q] = IF q \in {"recent", "history"} THEN Reads[q] \ {"dish"}
                           ELSE Reads[q]
  BY DEF Promised
<1>3. /\ Invalidates["dish"] = {"dishes"}
      /\ Invalidates["image"] = {"dish-images", "dishes"}
      /\ Invalidates["variant"] = {"dish-variants", "recent", "history"}
      /\ Invalidates["record"] = {"recent", "history", "dishes"}
      /\ Invalidates["feedback"] = {"recent", "history", "dishes"}
      /\ Invalidates["recipe"] = {"recipes"}
      /\ Invalidates["invite"] = {"invites"}
  BY DEF Invalidates, Tables
<1>4. ASSUME NEW q \in Queries
      PROVE  /\ Promised[q] \subseteq Tables
             /\ \A t \in Promised[q] : q \in Invalidates[t]
  <2>1. CASE q = "dishes"
    <3>1. Promised[q] = {"dish", "image", "record", "feedback"}
      BY <1>1, <1>2, <2>1
    <3>. QED  BY <1>3, <2>1, <3>1 DEF Tables
  <2>2. CASE q \in {"recent", "history"}
    <3>1. Promised[q] = {"record", "variant", "feedback"}
      BY <1>1, <1>2, <2>2
    <3>. QED  BY <1>3, <2>2, <3>1 DEF Tables
  <2>3. CASE q \in {"dish-images", "dish-variants", "recipes"}
    BY <1>1, <1>2, <1>3, <2>3 DEF Tables
  <2>4. CASE q \in {"invites", "members"}
    BY <1>1, <1>2, <1>3, <2>4 DEF Tables
  <2>. QED  BY <2>1, <2>2, <2>3, <2>4, ClientAssumption DEF Families
<1>. QED  BY <1>4

LEMMA MountFresh ==
    ASSUME StaleInv, NEW M, NEW c, Mount(M, c), UNCHANGED <<cache, acked>>,
           Mounted' \subseteq Mounted \cup M
    PROVE  \A q \in Mounted' : ~joined'[q] => Fresh(q)'
<1>1. SUFFICES ASSUME NEW q \in Mounted', ~joined'[q] PROVE Fresh(q)'
  OBVIOUS
<1>2. q \in Queries /\ q \in Keys
  BY DEF Mounted, Keys
<1>3. CASE q \in M /\ fetch[q].at = "idle"
  <2>1. fetch'[q] = Sent(c)
    BY <1>2, <1>3 DEF Mount
  <2>2. fetch'[q].at = "sent"
    BY <2>1 DEF Sent, NoFetch
  <2>. QED  BY <2>2 DEF Fresh
<1>4. CASE ~(q \in M /\ fetch[q].at = "idle")
  <2>1. fetch'[q] = fetch[q]
    BY <1>2, <1>4 DEF Mount
  <2>2. q \in Mounted /\ ~joined[q]
    BY <1>1, <1>2, <1>4 DEF Mount
  <2>3. Fresh(q)
    BY <2>2 DEF StaleInv
  <2>. QED  BY <2>1, <2>3 DEF Fresh
<1>. QED  BY <1>3, <1>4

\* What keeps every answer and only replaces or drops fetches.
LEMMA ResendFresh ==
    ASSUME StaleInv, UNCHANGED acked, Mounted' \subseteq Mounted,
           \A q \in Queries :
              \/ /\ fetch'[q] = fetch[q] /\ joined'[q] = joined[q]
                 /\ cache'[q] = cache[q]
              \/ fetch'[q].at = "sent"
              \/ fetch'[q].at = "idle" /\ (~cache'[q].has \/ cache'[q].failed)
    PROVE  \A q \in Mounted' : ~joined'[q] => Fresh(q)'
<1>1. SUFFICES ASSUME NEW q \in Mounted', ~joined'[q] PROVE Fresh(q)'
  OBVIOUS
<1>2. q \in Queries /\ q \in Mounted
  BY DEF Mounted
<1>3. CASE /\ fetch'[q] = fetch[q] /\ joined'[q] = joined[q]
           /\ cache'[q] = cache[q]
  BY <1>1, <1>2, <1>3 DEF StaleInv, Fresh
<1>4. CASE fetch'[q].at = "sent"
  BY <1>4 DEF Fresh
<1>5. CASE fetch'[q].at = "idle" /\ (~cache'[q].has \/ cache'[q].failed)
  BY <1>5 DEF Fresh
<1>. QED  BY <1>2, <1>3, <1>4, <1>5

LEMMA LeaveFresh ==
    ASSUME NEW me, Leave(me) PROVE \A q \in Mounted' : ~joined'[q] => Fresh(q)'
BY DEF Leave, Mounted

LEMMA EnterFresh ==
    ASSUME StaleInv, NEW a, NEW c, NEW me, Enter(a, c, me), UNCHANGED acked,
           a # Nobody
    PROVE  \A q \in Mounted' : ~joined'[q] => Fresh(q)'
<1>1. "me" \notin Queries /\ Queries \subseteq Keys
  BY ClientAssumption DEF Keys, Families
<1>2. CASE shown = Nobody
  <2>1. \A q \in {"dishes"} \cup OfTab["recommend"] :
           q \in Queries => fetch'[q] = Sent(c)
    BY <1>1, <1>2 DEF Enter
  <2>2. Mounted' \subseteq Queries \cap ({"dishes"} \cup OfTab["recommend"])
    BY <1>2 DEF Enter, Mounted, OfPanel
  <2>3. Sent(c).at = "sent"
    BY DEF Sent, NoFetch
  <2>. QED  BY <2>1, <2>2, <2>3 DEF Fresh
<1>3. CASE shown # Nobody
  <2>1. \A q \in Queries : fetch'[q] = fetch[q]
    BY <1>1, <1>3 DEF Enter, StaleInv, TypeOK
  <2>2. UNCHANGED <<cache, joined>> /\ Mounted' \subseteq Mounted
    BY <1>3 DEF Enter, Mounted
  <2>. QED  BY <2>1, <2>2, ResendFresh
<1>. QED  BY <1>2, <1>3

LEMMA ToldFresh ==
    ASSUME StaleInv, NEW m \in Slots, ArriveMutation(m)
    PROVE  /\ \A t \in Tables : acked'[t] <= commits
           /\ \A q \in Mounted' : ~joined'[q] => Fresh(q)'
<1>. DEFINE T == muts[m].table
            active  == Invalidates[T] \cap Mounted
            waiting == {q \in active : fetch[q].at # "idle" /\ ~cache[q].has}
<1>1. muts[m].at = "ok" /\ T \in Tables /\ muts[m].seen <= commits /\ muts[m].seen \in Nat
  BY DEF ArriveMutation, StaleInv, TypeOK, Mutations
<1>2. \A t \in Tables : /\ t # T => acked'[t] = acked[t]
                        /\ acked'[t] <= commits
  BY <1>1 DEF ArriveMutation, StaleInv, TypeOK
<1>3. UNCHANGED <<cache, shown, tab, panel>> /\ Mounted' = Mounted
  BY DEF ArriveMutation, Mounted
<1>4. Invalidate(Invalidates[T])
  BY DEF ArriveMutation
<1>5. ASSUME NEW q \in Mounted, ~joined'[q] PROVE Fresh(q)'
  <2>1. q \in Queries /\ q \in Keys /\ q \in Families
    BY ClientAssumption DEF Mounted, Keys
  <2>2. CASE q \in active
    <3>1. joined'[q] = (q \in waiting)
      BY <1>4, <2>1, <2>2 DEF Invalidate
    <3>2. q \in active \ waiting
      BY <1>5, <2>2, <3>1
    <3>3. fetch'[q] = Sent(cookie)
      BY <1>4, <2>1, <3>2 DEF Invalidate
    <3>4. fetch'[q].at = "sent"
      BY <3>3 DEF Sent, NoFetch
    <3>. QED  BY <3>4 DEF Fresh
  <2>3. CASE q \notin active
    <3>1. fetch'[q] = fetch[q] /\ joined'[q] = joined[q]
      BY <1>4, <2>1, <2>3 DEF Invalidate
    <3>2. T \notin Promised[q] /\ Promised[q] \subseteq Tables
      BY <1>5, <2>1, <2>3, PromisesKept
    <3>3. Fresh(q)
      BY <1>5, <3>1 DEF StaleInv
    <3>. QED  BY <1>2, <1>3, <3>1, <3>2, <3>3 DEF Fresh
  <2>. QED  BY <2>2, <2>3
<1>. QED  BY <1>2, <1>3, <1>5

LEMMA InitStale == Init => StaleInv
<1>. SUFFICES ASSUME Init PROVE StaleInv
  OBVIOUS
<1>1. TypeOK
  BY InitTypes
<1>2. \A m \in Slots : muts[m].at = "idle"
  BY DEF Init, NoMut
<1>3. \A t \in Tables : acked[t] <= commits
  BY DEF Init
<1>4. Mounted = {}
  BY DEF Init, Mounted
<1>. QED  BY <1>1, <1>2, <1>3, <1>4 DEF StaleInv

LEMMA NextStale ==
    ASSUME OwnInv, StaleInv, [Next]_vars PROVE StaleInv'
<1>. USE ClientAssumption
<1>k. /\ Queries \subseteq Keys /\ "me" \notin Queries /\ "me" \in Keys
      /\ TypeOK /\ Named /\ TypeOK'
  BY NextTypes DEF Keys, Families, OwnInv, NothingLeftInv
<1>. DEFINE Told   == \A t \in Tables : acked[t] <= commits
            Seen   == \A m \in Slots :
                         /\ muts[m].at \in {"sent", "ok"} => muts[m].table \in Tables
                         /\ muts[m].at = "ok" => muts[m].seen <= commits
            Screen == \A q \in Mounted : ~joined[q] => Fresh(q)
<1>a. Told /\ Seen /\ Screen
  BY DEF StaleInv
<1>b. SUFFICES Told' /\ Seen' /\ Screen'
  BY <1>k DEF StaleInv
<1>c. ASSUME UNCHANGED <<muts, acked, commits>> PROVE Told' /\ Seen'
  BY <1>a, <1>c
<1>d. ASSUME NEW m \in Slots, muts' = [muts EXCEPT ![m] = Finished],
             UNCHANGED commits
      PROVE  Seen'
  BY <1>a, <1>d, <1>k DEF TypeOK, Finished, NoMut
<1>e. ASSUME UNCHANGED <<acked, shown, tab, panel, cache, fetch, joined>>
      PROVE  Screen'
  BY <1>a, <1>e DEF Mounted, Fresh
<1>1. CASE Server
  <2>1. ASSUME NEW k \in Keys, Serve(k) PROVE Told' /\ Seen' /\ Screen'
    <3>1. UNCHANGED <<muts, acked, commits, shown, tab, panel, cache, joined>>
      BY <2>1 DEF Serve
    <3>2. ASSUME NEW q \in Mounted, ~joined[q] PROVE Fresh(q)'
      <4>1. q \in Queries /\ q \in Keys /\ Promised[q] \subseteq Tables
        BY <1>k, PromisesKept DEF Mounted
      <4>2. CASE q # k
        <5>1. fetch'[q] = fetch[q]
          BY <2>1, <4>1, <4>2 DEF Serve, OwnInv, NothingLeftInv, TypeOK
        <5>. QED  BY <1>a, <3>1, <3>2, <5>1 DEF Fresh
      <4>3. CASE q = k
        <5>1. /\ fetch'[q].at = "ok" => fetch'[q].seen = commits
              /\ fetch'[q].at # "idle"
          BY <1>k, <2>1, <4>1, <4>3 DEF Serve, TypeOK, NoFetch
        <5>. QED  BY <1>a, <3>1, <4>1, <5>1 DEF Fresh
      <4>. QED  BY <4>2, <4>3
    <3>3. Mounted' = Mounted
      BY <3>1 DEF Mounted
    <3>. QED  BY <1>c, <3>1, <3>2, <3>3
  <2>2. ASSUME NEW m \in Slots, ServeMutation(m) PROVE Told' /\ Seen' /\ Screen'
    <3>1. UNCHANGED <<acked, shown, tab, panel, cache, fetch, joined>>
      BY <2>2 DEF ServeMutation
    <3>2. CASE muts[m].sid \in live
      <4>1. commits' = commits + 1 /\ muts[m].at = "sent"
            /\ muts' = [muts EXCEPT ![m] = [muts[m] EXCEPT !.at = "ok", !.seen = commits + 1]]
        BY <2>2, <3>2 DEF ServeMutation
      <4>2. \A l \in Slots : l # m => muts'[l] = muts[l]
        BY <1>k, <4>1 DEF TypeOK
      <4>3. muts'[m].seen = commits + 1 /\ muts'[m].table = muts[m].table
        BY <1>k, <4>1 DEF TypeOK, Mutations
      <4>4. commits \in Nat /\ acked \in [Tables -> Nat]
            /\ \A l \in Slots : muts[l].seen \in Nat
        BY <1>k DEF TypeOK, Mutations
      <4>5. Told'
        BY <1>a, <3>1, <4>1, <4>4
      <4>6. Seen'
        BY <1>a, <4>1, <4>2, <4>3, <4>4
      <4>. QED  BY <1>e, <3>1, <4>5, <4>6
    <3>3. CASE muts[m].sid \notin live
      <4>1. UNCHANGED commits
            /\ muts' = [muts EXCEPT ![m] = [muts[m] EXCEPT !.at = "refused"]]
        BY <2>2, <3>3 DEF ServeMutation
      <4>2. \A l \in Slots : l # m => muts'[l] = muts[l]
        BY <1>k, <4>1 DEF TypeOK
      <4>3. muts'[m].at = "refused"
        BY <1>k, <4>1 DEF TypeOK, Mutations
      <4>4. Told' /\ Seen'
        BY <1>a, <3>1, <4>1, <4>2, <4>3
      <4>. QED  BY <1>e, <3>1, <4>4
    <3>. QED  BY <3>2, <3>3
  <2>3. ASSUME NEW n \in Sids, ServeLogin(n) PROVE Told' /\ Seen' /\ Screen'
    BY <1>c, <1>e, <2>3 DEF ServeLogin
  <2>4. CASE ServeLogout
    BY <1>c, <1>e, <2>4 DEF ServeLogout
  <2>5. ASSUME NEW s \in Sids, Expire(s) PROVE Told' /\ Seen' /\ Screen'
    BY <1>c, <1>e, <2>5 DEF Expire
  <2>6. ASSUME NEW n \in Sids, NEW a \in Accounts, TakeOver(n, a)
        PROVE  Told' /\ Seen' /\ Screen'
    BY <1>c, <1>e, <2>6 DEF TakeOver
  <2>. QED  BY <1>1, <2>1, <2>2, <2>3, <2>4, <2>5, <2>6 DEF Server
<1>2. CASE User
  <2>1. ASSUME NEW a \in Accounts, SubmitLogin(a) PROVE Told' /\ Seen' /\ Screen'
    BY <1>c, <1>e, <2>1 DEF SubmitLogin
  <2>2. CASE ClickLogout
    BY <1>c, <1>e, <2>2 DEF ClickLogout
  <2>3. ASSUME NEW t \in Tabs, SwitchTab(t) PROVE Told' /\ Seen' /\ Screen'
    <3>1. UNCHANGED <<muts, acked, commits, cache>> /\ Mount(OfTab[t], cookie)
      BY <2>3 DEF SwitchTab
    <3>2. Mounted' \subseteq Mounted \cup OfTab[t]
      BY <2>3 DEF SwitchTab, Mounted
    <3>. QED  BY <1>c, <3>1, <3>2, MountFresh
  <2>4. ASSUME NEW p \in Panels, OpenPanel(p) PROVE Told' /\ Seen' /\ Screen'
    <3>1. UNCHANGED <<muts, acked, commits, cache>> /\ Mount(OfPanel[p], cookie)
      BY <2>4 DEF OpenPanel
    <3>2. Mounted' \subseteq Mounted \cup OfPanel[p]
      BY <2>4 DEF OpenPanel, Mounted
    <3>. QED  BY <1>c, <3>1, <3>2, MountFresh
  <2>5. CASE ClosePanel
    <3>1. UNCHANGED <<muts, acked, commits, cache, fetch, joined>>
      BY <2>5 DEF ClosePanel
    <3>2. Mounted' \subseteq Mounted
      BY <2>5 DEF ClosePanel, Mounted, OfPanel
    <3>. QED  BY <1>c, <3>1, <3>2, ResendFresh
  <2>6. ASSUME NEW q \in Queries, ChangeKey(q) \/ Retry(q)
        PROVE  Told' /\ Seen' /\ Screen'
    <3>1. UNCHANGED <<muts, acked, commits, shown, tab, panel>>
      BY <2>6 DEF ChangeKey, Retry
    <3>2. fetch' = [fetch EXCEPT ![q] = Sent(cookie)]
      BY <2>6 DEF ChangeKey, Retry
    <3>3. fetch'[q].at = "sent"
      BY <1>k, <3>2 DEF TypeOK, Sent, NoFetch
    <3>4. \A p \in Queries : p # q => /\ fetch'[p] = fetch[p]
                                      /\ cache'[p] = cache[p]
                                      /\ joined'[p] = joined[p]
      BY <1>k, <2>6 DEF ChangeKey, Retry, TypeOK
    <3>5. Mounted' = Mounted
      BY <3>1 DEF Mounted
    <3>. QED  BY <1>c, <3>1, <3>3, <3>4, <3>5, ResendFresh
  <2>7. ASSUME NEW m \in Slots, NEW t \in Changes, StartMutation(m, t)
        PROVE  Told' /\ Seen' /\ Screen'
    <3>1. UNCHANGED <<acked, commits, shown, tab, panel, cache, fetch, joined>>
      BY <2>7 DEF StartMutation
    <3>2. /\ \A l \in Slots : l # m => muts'[l] = muts[l]
          /\ muts'[m].at = "sent" /\ muts'[m].table \in Tables
      BY <1>k, <2>7 DEF StartMutation, TypeOK
    <3>3. Told' /\ Seen'
      BY <1>a, <3>1, <3>2
    <3>. QED  BY <1>e, <3>1, <3>3
  <2>8. CASE Reconnect
    <3>1. UNCHANGED <<muts, acked, commits, cache, shown, tab, panel>>
      BY <2>8 DEF Reconnect
    <3>2. ASSUME NEW q \in Mounted, ~joined'[q] PROVE Fresh(q)'
      <4>1. q \in Queries /\ q \in Keys
        BY <1>k DEF Mounted
      <4>2. CASE fetch[q].at = "idle"
        <5>1. fetch'[q] = Sent(cookie)
          BY <2>8, <4>1, <4>2 DEF Reconnect
        <5>2. fetch'[q].at = "sent"
          BY <5>1 DEF Sent, NoFetch
        <5>. QED  BY <5>2 DEF Fresh
      <4>3. CASE fetch[q].at # "idle"
        <5>1. fetch'[q] = fetch[q] /\ ~joined[q]
          BY <2>8, <3>2, <4>1, <4>3 DEF Reconnect
        <5>. QED  BY <1>a, <3>1, <5>1 DEF Fresh
      <4>. QED  BY <4>2, <4>3
    <3>3. Mounted' = Mounted
      BY <3>1 DEF Mounted
    <3>. QED  BY <1>c, <3>1, <3>2, <3>3
  <2>. QED  BY <1>2, <2>1, <2>2, <2>3, <2>4, <2>5, <2>6, <2>7, <2>8 DEF User
<1>3. CASE Answers
  <2>1. ASSUME NEW q \in Queries, ArriveData(q) PROVE Told' /\ Seen' /\ Screen'
    <3>1. UNCHANGED <<muts, acked, commits, shown, tab, panel, joined>>
      BY <2>1 DEF ArriveData
    <3>2. /\ \A p \in Queries : p # q => fetch'[p] = fetch[p] /\ cache'[p] = cache[p]
          /\ fetch'[q].at = "idle" /\ cache'[q].seen = fetch[q].seen
          /\ fetch[q].at = "ok"
      BY <1>k, <2>1 DEF ArriveData, TypeOK, NoFetch
    <3>3. Mounted' = Mounted
      BY <3>1 DEF Mounted
    <3>4. \A p \in Mounted : p \in Queries
      BY DEF Mounted
    <3>. QED  BY <1>a, <1>c, <3>1, <3>2, <3>3, <3>4 DEF Fresh
  <2>2. CASE ArriveMe
    <3>1. /\ Enter(fetch["me"].of, cookie, NoFetch) /\ fetch["me"].of # Nobody
          /\ UNCHANGED <<muts, acked, commits>>
      BY <1>k, <2>2 DEF ArriveMe, Named
    <3>. QED  BY <1>c, <3>1, EnterFresh
  <2>3. ASSUME NEW k \in Keys, ArriveUnauthorized(k) PROVE Told' /\ Seen' /\ Screen'
    <3>1. UNCHANGED <<muts, acked, commits>>
      BY <2>3 DEF ArriveUnauthorized
    <3>2. Screen'
      BY <2>3, LeaveFresh DEF ArriveUnauthorized
    <3>. QED  BY <1>c, <3>1, <3>2
  <2>4. ASSUME NEW k \in Keys, LoseFetch(k) PROVE Told' /\ Seen' /\ Screen'
    <3>1. UNCHANGED <<muts, acked, commits, shown, tab, panel, joined>>
      BY <2>4 DEF LoseFetch
    <3>2. \A q \in Queries :
             \/ /\ fetch'[q] = fetch[q] /\ joined'[q] = joined[q]
                /\ cache'[q] = cache[q]
             \/ fetch'[q].at = "idle" /\ (~cache'[q].has \/ cache'[q].failed)
      BY <1>k, <2>4, Idle DEF LoseFetch, TypeOK, Data
    <3>3. Mounted' = Mounted
      BY <3>1 DEF Mounted
    <3>. QED  BY <1>c, <3>1, <3>2, <3>3, ResendFresh
  <2>5. ASSUME NEW m \in Slots, ArriveMutation(m) PROVE Told' /\ Seen' /\ Screen'
    <3>1. UNCHANGED commits /\ muts' = [muts EXCEPT ![m] = Finished]
      BY <2>5 DEF ArriveMutation
    <3>. QED  BY <1>d, <2>5, <3>1, ToldFresh
  <2>6. ASSUME NEW m \in Slots, ArriveRefusal(m) PROVE Told' /\ Seen' /\ Screen'
    <3>1. /\ UNCHANGED <<commits, acked>> /\ Leave(fetch["me"])
          /\ muts' = [muts EXCEPT ![m] = Finished]
      BY <2>6 DEF ArriveRefusal
    <3>2. Told'
      BY <1>a, <3>1
    <3>3. Screen'
      BY <3>1, LeaveFresh
    <3>. QED  BY <1>d, <3>1, <3>2, <3>3
  <2>7. ASSUME NEW m \in Slots, LoseMutation(m) PROVE Told' /\ Seen' /\ Screen'
    <3>1. /\ UNCHANGED <<commits, acked, shown, tab, panel, cache, fetch, joined>>
          /\ muts' = [muts EXCEPT ![m] = Finished]
      BY <2>7 DEF LoseMutation
    <3>2. Told'
      BY <1>a, <3>1
    <3>. QED  BY <1>d, <1>e, <3>1, <3>2
  <2>8. CASE ArriveLogin
    <3>1. /\ Enter(login.of, login.sid, fetch["me"]) /\ login.of # Nobody
          /\ UNCHANGED <<muts, acked, commits>>
      BY <1>k, <2>8 DEF ArriveLogin, Named
    <3>. QED  BY <1>c, <3>1, EnterFresh
  <2>9. CASE ArriveLoginRefusal \/ EndLogout
    <3>1. Leave(fetch["me"]) /\ UNCHANGED <<muts, acked, commits>>
      BY <2>9 DEF ArriveLoginRefusal, EndLogout
    <3>2. Screen'
      BY <3>1, LeaveFresh
    <3>. QED  BY <1>c, <3>1, <3>2
  <2>10. CASE LoseLogin
    BY <1>c, <1>e, <2>10 DEF LoseLogin
  <2>. QED  BY <1>3, <2>1, <2>2, <2>3, <2>4, <2>5, <2>6, <2>7, <2>8, <2>9, <2>10
            DEF Answers
<1>4. CASE UNCHANGED vars
  BY <1>c, <1>e, <1>4 DEF vars
<1>. QED  BY <1>1, <1>2, <1>3, <1>4 DEF Next

\* Once a mutation has succeeded, no query at rest on the screen shows an answer
\* from before it, unless a fetch that was already running was joined.
THEOREM ReadYourWrites == Spec => []StaleOnlyWhenJoined
<1>1. Init => OwnInv /\ StaleInv
  BY InitOwn, InitStale
<1>2. OwnInv /\ StaleInv /\ [Next]_vars => OwnInv' /\ StaleInv'
  BY NextOwn, NextStale
<1>3. StaleInv => StaleOnlyWhenJoined
  BY DEF StaleInv, Fresh, StaleOnlyWhenJoined
<1>. QED  BY <1>1, <1>2, <1>3, PTL DEF Spec

=============================================================================
