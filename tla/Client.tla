------------------------------- MODULE Client -------------------------------
(***************************************************************************)
(* One tab of the web client and the sessions behind it: the query cache   *)
(* of src/frontend/src/main.tsx and hooks/*.ts, AuthProvider, LoginPage    *)
(* and HomePage, against AuthController and AuthGuard of the backend.      *)
(*                                                                         *)
(* What a query answers is abstracted to whose data it is and to when it   *)
(* was read, counted in changes the backend has committed: it shows a      *)
(* change exactly when it was read after it.  A query family stands for    *)
(* its key on the screen, and one dish (with its card expanded) for all.   *)
(* A request is sent with the cookie of the moment, served, and its answer *)
(* arrives, or is lost (an error other than 401 is a lost answer: nothing  *)
(* in the client tells them apart).  A cancelled query has no answer.      *)
(*                                                                         *)
(* TanStack Query is modelled by the rules this code relies on: retry is   *)
(* off, data is stale at once (staleTime 0; the prefetch of recent meals   *)
(* has a minute, but each of its cards observes the same images without    *)
(* one), a refetch by invalidation cancels the running one unless nothing  *)
(* was ever loaded, a refetch by mounting or reconnecting joins it, and    *)
(* setQueryData cancels nothing.                                           *)
(***************************************************************************)
EXTENDS Naturals

CONSTANTS
    Accounts,  \* accounts, each of a workspace of its own
    Nobody,    \* no account
    Queries,   \* the query families that are followed
    Changes,   \* the tables that are changed from this tab
    Tabs,      \* the tabs of the home page that are visited
    Panels,    \* the panels that are opened over them
    MaxSid,    \* bound on the sessions the server creates
    MaxSlot,   \* bound on the mutations of the tab
    MaxOutage  \* bound on the times the browser is offline

Families  == {"dishes", "recent", "history", "dish-images", "dish-variants",
              "recipes", "members", "invites"}
Tables    == {"dish", "image", "variant", "record", "feedback", "recipe",
              "invite"}
AllTabs   == {"recommend", "dishes", "history", "members"}
AllPanels == {"record", "recipe", "images", "variants"}

ASSUME ClientAssumption ==
    /\ Nobody \notin Accounts
    /\ Queries \subseteq Families /\ Changes \subseteq Tables
    /\ "recommend" \in Tabs /\ Tabs \subseteq AllTabs
    /\ Panels \subseteq AllPanels
    /\ MaxSid \in Nat \ {0} /\ MaxSlot \in Nat /\ MaxOutage \in Nat

Sids  == 1 .. MaxSid
Slots == 1 .. MaxSlot
Keys  == Queries \cup {"me"}

VARIABLES
    owner,    \* per session id: the account it was created for
    live,     \* the sessions in the store
    commits,  \* how many changes the backend has committed
    cookie,   \* the session cookie of the browser, 0 for none
    known,    \* the query of /auth/me has data, be it null
    shown,    \* auth.user
    tab,      \* activeTab of HomePage
    panel,    \* the panel over it
    cache,    \* per query: its data, and whether its last fetch failed
    fetch,    \* per query and for /auth/me: the fetch that counts
    muts,     \* per slot: the mutation
    login,    \* the login request
    logout,   \* the logout request
    outages,  \* how often the browser has been offline
    acked,    \* ghost: per table, the last change this tab was told of
    joined,   \* ghost: per query, it was to be fetched and joined an older fetch
    taken,    \* ghost: another tab of the browser has logged in
    overtook  \* ghost: an /auth/me answer has overtaken the login page

server == <<owner, live, commits>>
page   == <<tab, panel>>
rest   == <<outages, taken, overtook>>
vars   == <<server, cookie, known, shown, page, cache, fetch, muts, login,
            logout, acked, joined, rest>>

NoData  == [has |-> FALSE, of |-> Nobody, seen |-> 0, failed |-> FALSE]
NoFetch == [at |-> "idle", sid |-> 0, of |-> Nobody, seen |-> 0]
NoMut   == [at |-> "idle", sid |-> 0, table |-> "none", seen |-> 0]
Finished == [NoMut EXCEPT !.at = "done"]
NoAuth  == [at |-> "idle", sid |-> 0, of |-> Nobody]
Sent(c) == [NoFetch EXCEPT !.at = "sent", !.sid = c]

-----------------------------------------------------------------------------
\* What the list of each family reads in the backend (the Prisma includes).
Reads ==
    [q \in Families |->
        CASE q = "dishes"                -> {"dish", "image", "record", "feedback"}
          [] q \in {"recent", "history"} -> {"record", "dish", "variant", "feedback"}
          [] q = "dish-images"           -> {"image"}
          [] q = "dish-variants"         -> {"variant"}
          [] q = "recipes"               -> {"recipe"}
          [] q = "invites"               -> {"invite"}
          [] OTHER                       -> {}]

\* Mutant of Invalidates: a variant is a matter of its dish alone.
InvalidatesVariantOnly ==
    [t \in Tables |->
        CASE t = "dish"                     -> {"dishes"}
          [] t = "image"                    -> {"dish-images", "dishes"}
          [] t = "variant"                  -> {"dish-variants"}
          [] t \in {"record", "feedback"}   -> {"recent", "history", "dishes"}
          [] t = "recipe"                   -> {"recipes"}
          [] t = "invite"                   -> {"invites"}]

\* The queries a hook invalidates when its mutation succeeds.
Invalidates ==
    [t \in Tables |->
        CASE t = "dish"                     -> {"dishes"}
          [] t = "image"                    -> {"dish-images", "dishes"}
          [] t = "variant"                  -> {"dish-variants", "recent", "history"}
          [] t \in {"record", "feedback"}   -> {"recent", "history", "dishes"}
          [] t = "recipe"                   -> {"recipes"}
          [] t = "invite"                   -> {"invites"}]

\* The queries the components of a tab and of a panel observe.
OfTab ==
    [t \in AllTabs |->
        CASE t = "recommend" -> {"recent", "dish-images"}
          [] t = "dishes"    -> {"dish-images", "recipes"}
          [] t = "history"   -> {"dishes", "history", "dish-images"}
          [] t = "members"   -> {"members", "invites"}]
OfPanel ==
    [p \in AllPanels \cup {"none"} |->
        CASE p \in {"record", "variants"} -> {"dish-variants"}
          [] p = "recipe"                 -> {"recipes"}
          [] p = "images"                 -> {"dish-images"}
          [] p = "none"                   -> {}]

\* HomePage observes the dishes whatever the tab; without a user there is none.
Mounted ==
    IF shown = Nobody THEN {}
    ELSE Queries \cap ({"dishes"} \cup OfTab[tab] \cup OfPanel[panel])

\* What can be changed from a tab, and from a panel, which covers the tab.
ChangedIn ==
    IF panel = "none"
    THEN CASE tab = "dishes"    -> {"dish"}
           [] tab = "members"   -> {"invite"}
           [] tab = "recommend" -> {"image", "record", "feedback"}
           [] tab = "history"   -> {"dish", "image", "record", "feedback"}
    ELSE CASE panel = "record"   -> {"record"}
           [] panel = "recipe"   -> {"recipe"}
           [] panel = "images"   -> {"image"}
           [] panel = "variants" -> {"variant"}

LoginPage == shown = Nobody /\ (known \/ fetch["me"].at = "idle")

-----------------------------------------------------------------------------
Init ==
    \E a \in Accounts, s \in SUBSET {1}, c \in {0, 1} :
        /\ owner = [i \in Sids |-> IF i = 1 THEN a ELSE Nobody]
        /\ live = s /\ cookie = c
        /\ c = 0 => s = {}
        /\ commits = 0
        /\ known = FALSE /\ shown = Nobody
        /\ tab = "recommend" /\ panel = "none"
        /\ cache = [q \in Queries |-> NoData]
        /\ fetch = [k \in Keys |-> IF k = "me" THEN Sent(c) ELSE NoFetch]
        /\ muts = [m \in Slots |-> NoMut]
        /\ login = NoAuth /\ logout = NoAuth
        /\ outages = 0
        /\ acked = [t \in Tables |-> 0]
        /\ joined = [q \in Queries |-> FALSE]
        /\ taken = FALSE /\ overtook = FALSE

\* Components that observe the queries of M are mounted: each is fetched, with
\* cookie c, or joins the fetch that is running.
Mount(M, c) ==
    /\ fetch' = [k \in Keys |->
                    IF k \in M /\ fetch[k].at = "idle" THEN Sent(c) ELSE fetch[k]]
    /\ joined' = [q \in Queries |->
                    IF q \notin M THEN joined[q]
                    ELSE /\ fetch[q].at # "idle"
                         /\ q \in Mounted => joined[q]]

\* invalidateQueries: what is on the screen is fetched again.
Invalidate(S) ==
    LET active  == S \cap Mounted
        waiting == {q \in active : fetch[q].at # "idle" /\ ~cache[q].has}
    IN  /\ fetch' = [k \in Keys |->
                        IF k \in active \ waiting THEN Sent(cookie) ELSE fetch[k]]
        /\ joined' = [q \in Queries |->
                        IF q \in active THEN q \in waiting ELSE joined[q]]

\* setQueryData(authMeKey, a) with a user: HomePage appears if it is not there.
\* me is what becomes of the fetch of /auth/me, c the cookie from now on.
Enter(a, c, me) ==
    /\ shown' = a /\ known' = TRUE
    /\ IF shown = Nobody
       THEN /\ tab' = "recommend" /\ panel' = "none"
            /\ fetch' = [k \in Keys |->
                            IF k = "me" THEN me
                            ELSE IF k \in {"dishes"} \cup OfTab["recommend"]
                            THEN Sent(c) ELSE fetch[k]]
            /\ joined' = [q \in Queries |-> FALSE]
       ELSE /\ fetch' = [fetch EXCEPT !["me"] = me]
            /\ UNCHANGED <<page, joined>>
    /\ UNCHANGED cache

\* Mutant of Leave: only what is said of the user is reset.
LeaveKeepsQueries(me) ==
    /\ shown' = Nobody /\ known' = TRUE
    /\ tab' = "recommend" /\ panel' = "none"
    /\ fetch' = [fetch EXCEPT !["me"] = me]
    /\ UNCHANGED <<cache, joined>>

\* Mutant of Leave: the data are dropped, what is on its way is not.
LeaveKeepsFetches(me) ==
    /\ shown' = Nobody /\ known' = TRUE
    /\ tab' = "recommend" /\ panel' = "none"
    /\ cache' = [q \in Queries |-> NoData]
    /\ fetch' = [fetch EXCEPT !["me"] = me]
    /\ UNCHANGED joined

\* setQueryData(authMeKey, null), removeQueries of everything else: the end of
\* logout, and handleUnauthorizedError.
Leave(me) ==
    /\ shown' = Nobody /\ known' = TRUE
    /\ tab' = "recommend" /\ panel' = "none"
    /\ cache' = [q \in Queries |-> NoData]
    /\ fetch' = [k \in Keys |-> IF k = "me" THEN me ELSE NoFetch]
    /\ joined' = [q \in Queries |-> FALSE]

-----------------------------------------------------------------------------
(* The server. *)

\* AuthGuard, then the handler of a query.
Serve(k) ==
    /\ fetch[k].at = "sent"
    /\ fetch' = [fetch EXCEPT ![k] =
                    IF @.sid \in live
                    THEN [at |-> "ok", sid |-> 0, of |-> owner[@.sid],
                          seen |-> commits]
                    ELSE [NoFetch EXCEPT !.at = "refused"]]
    /\ UNCHANGED <<server, cookie, known, shown, page, cache, muts, login,
                   logout, acked, joined, rest>>

\* AuthGuard, then the handler of a mutation.
ServeMutation(m) ==
    /\ muts[m].at = "sent"
    /\ IF muts[m].sid \in live
       THEN /\ commits' = commits + 1
            /\ muts' = [muts EXCEPT ![m] = [@ EXCEPT !.at = "ok",
                                                    !.seen = commits + 1]]
       ELSE /\ muts' = [muts EXCEPT ![m] = [@ EXCEPT !.at = "refused"]]
            /\ UNCHANGED commits
    /\ UNCHANGED <<owner, live, cookie, known, shown, page, cache, fetch,
                   login, logout, acked, joined, rest>>

\* A session for account a: regenerate destroys the one the cookie names.
Create(n, a, old) ==
    /\ owner[n] = Nobody /\ \A i \in 1 .. (n - 1) : owner[i] # Nobody
    /\ owner' = [owner EXCEPT ![n] = a]
    /\ live' = (live \ {old}) \cup {n}

ServeLogin(n) ==
    /\ login.at = "sent"
    /\ \/ /\ Create(n, login.of, login.sid)
          /\ login' = [login EXCEPT !.at = "ok", !.sid = n]
       \/ \* a wrong password
          /\ login' = [NoAuth EXCEPT !.at = "refused"]
          /\ UNCHANGED <<owner, live>>
    /\ UNCHANGED <<commits, cookie, known, shown, page, cache, fetch, muts,
                   logout, acked, joined, rest>>

ServeLogout ==
    /\ logout.at = "sent"
    /\ live' = live \ {logout.sid}
    /\ logout' = [NoAuth EXCEPT !.at = "ok"]
    /\ UNCHANGED <<owner, commits, cookie, known, shown, page, cache, fetch,
                   muts, login, acked, joined, rest>>

\* A session reaches its maxAge.
Expire(s) ==
    /\ s \in live
    /\ live' = live \ {s}
    /\ UNCHANGED <<owner, commits, cookie, known, shown, page, cache, fetch,
                   muts, login, logout, acked, joined, rest>>

\* Another tab of the browser, with the same cookie, logs in.
TakeOver(n, a) ==
    /\ Create(n, a, cookie)
    /\ cookie' = n /\ taken' = TRUE
    /\ UNCHANGED <<commits, known, shown, page, cache, fetch, muts, login,
                   logout, acked, joined, overtook, outages>>

-----------------------------------------------------------------------------
(* The user. *)

SubmitLogin(a) ==
    /\ LoginPage /\ login.at = "idle"
    /\ login' = [at |-> "sent", sid |-> cookie, of |-> a]
    /\ UNCHANGED <<server, cookie, known, shown, page, cache, fetch, muts,
                   logout, acked, joined, rest>>

ClickLogout ==
    /\ shown # Nobody /\ tab = "members" /\ logout.at = "idle"
    /\ logout' = [NoAuth EXCEPT !.at = "sent", !.sid = cookie]
    /\ UNCHANGED <<server, cookie, known, shown, page, cache, fetch, muts,
                   login, acked, joined, rest>>

SwitchTab(t) ==
    /\ shown # Nobody /\ panel = "none" /\ t # tab
    /\ tab' = t
    /\ Mount(OfTab[t], cookie)
    /\ UNCHANGED <<server, cookie, known, shown, panel, cache, muts, login,
                   logout, acked, rest>>

\* The images are managed from a dish card, the variants also from a record,
\* the two others also from a recommendation.
OpenPanel(p) ==
    /\ shown # Nobody /\ panel = "none"
    /\ tab \in CASE p = "images"   -> {"dishes"}
                 [] p = "variants" -> {"dishes", "recommend", "history"}
                 [] OTHER          -> {"dishes", "recommend"}
    /\ panel' = p
    /\ Mount(OfPanel[p], cookie)
    /\ UNCHANGED <<server, cookie, known, shown, tab, cache, muts, login,
                   logout, acked, rest>>

ClosePanel ==
    /\ shown # Nobody /\ panel # "none"
    /\ panel' = "none"
    /\ UNCHANGED <<server, cookie, known, shown, tab, cache, fetch, muts,
                   login, logout, acked, joined, rest>>

\* A filter or a page is chosen: another key of the family, nothing loaded.
ChangeKey(q) ==
    /\ q \in Mounted /\ \/ q = "dishes" /\ tab = "dishes"
                        \/ q = "history"
    /\ panel = "none"
    /\ cache' = [cache EXCEPT ![q] = NoData]
    /\ fetch' = [fetch EXCEPT ![q] = Sent(cookie)]
    /\ joined' = [joined EXCEPT ![q] = FALSE]
    /\ UNCHANGED <<server, cookie, known, shown, page, muts, login, logout,
                   acked, rest>>

\* refetch, the retry button of an ErrorBanner.
Retry(q) ==
    /\ q \in Mounted /\ cache[q].failed /\ fetch[q].at = "idle"
    /\ fetch' = [fetch EXCEPT ![q] = Sent(cookie)]
    /\ joined' = [joined EXCEPT ![q] = FALSE]
    /\ UNCHANGED <<server, cookie, known, shown, page, cache, muts, login,
                   logout, acked, rest>>

StartMutation(m, t) ==
    /\ shown # Nobody /\ t \in ChangedIn
    /\ muts[m].at = "idle"
    /\ muts' = [muts EXCEPT ![m] =
                    [at |-> "sent", sid |-> cookie, table |-> t, seen |-> 0]]
    /\ UNCHANGED <<server, cookie, known, shown, page, cache, fetch, login,
                   logout, acked, joined, rest>>

\* The browser is online again: what is mounted is fetched, /auth/me too.
Reconnect ==
    /\ outages < MaxOutage /\ outages' = outages + 1
    /\ fetch' = [k \in Keys |->
                    IF k \in Mounted \cup {"me"} /\ fetch[k].at = "idle"
                    THEN Sent(cookie) ELSE fetch[k]]
    /\ joined' = [q \in Queries |->
                    joined[q] /\ ~(q \in Mounted /\ fetch[q].at = "idle")]
    /\ UNCHANGED <<server, cookie, known, shown, page, cache, muts, login,
                   logout, acked, taken, overtook>>

-----------------------------------------------------------------------------
(* The answers, and their loss. *)

ArriveData(q) ==
    /\ fetch[q].at = "ok"
    /\ cache' = [cache EXCEPT ![q] = [has |-> TRUE, of |-> fetch[q].of,
                                      seen |-> fetch[q].seen, failed |-> FALSE]]
    /\ fetch' = [fetch EXCEPT ![q] = NoFetch]
    /\ UNCHANGED <<server, cookie, known, shown, page, muts, login, logout,
                   acked, joined, rest>>

ArriveMe ==
    /\ fetch["me"].at = "ok"
    /\ Enter(fetch["me"].of, cookie, NoFetch)
    /\ overtook' = (overtook \/ (/\ fetch["me"].of # shown
                                 /\ known \/ login.at # "idle"))
    /\ UNCHANGED <<server, cookie, muts, login, logout, acked, taken,
                   outages>>

\* A query answered 401: onError of the query cache.
ArriveUnauthorized(k) ==
    /\ fetch[k].at = "refused"
    /\ Leave(IF k = "me" THEN NoFetch ELSE fetch["me"])
    /\ UNCHANGED <<server, cookie, muts, login, logout, acked, rest>>

LoseFetch(k) ==
    /\ fetch[k].at # "idle"
    /\ fetch' = [fetch EXCEPT ![k] = NoFetch]
    /\ cache' = [q \in Queries |->
                    IF q = k THEN [cache[q] EXCEPT !.failed = TRUE] ELSE cache[q]]
    /\ UNCHANGED <<server, cookie, known, shown, page, muts, login, logout,
                   acked, joined, rest>>

\* onSuccess of the hook, whether its component is still there or not.
ArriveMutation(m) ==
    /\ muts[m].at = "ok"
    /\ muts' = [muts EXCEPT ![m] = Finished]
    /\ acked' = [acked EXCEPT ![muts[m].table] =
                    IF @ < muts[m].seen THEN muts[m].seen ELSE @]
    /\ Invalidate(Invalidates[muts[m].table])
    /\ UNCHANGED <<server, cookie, known, shown, page, cache, login, logout,
                   rest>>

\* A mutation answered 401: onError of the mutation cache.
ArriveRefusal(m) ==
    /\ muts[m].at = "refused"
    /\ muts' = [muts EXCEPT ![m] = Finished]
    /\ Leave(fetch["me"])
    /\ UNCHANGED <<server, cookie, login, logout, acked, rest>>

LoseMutation(m) ==
    /\ muts[m].at \in {"sent", "ok", "refused"}
    /\ muts' = [muts EXCEPT ![m] = Finished]
    /\ UNCHANGED <<server, cookie, known, shown, page, cache, fetch, login,
                   logout, acked, joined, rest>>

ArriveLogin ==
    /\ login.at = "ok"
    /\ cookie' = login.sid
    /\ Enter(login.of, login.sid, fetch["me"])
    /\ login' = NoAuth
    /\ UNCHANGED <<server, muts, logout, acked, rest>>

\* A refused login is an error of a mutation like any other.
ArriveLoginRefusal ==
    /\ login.at = "refused"
    /\ login' = NoAuth
    /\ Leave(fetch["me"])
    /\ UNCHANGED <<server, cookie, muts, logout, acked, rest>>

LoseLogin ==
    /\ login.at # "idle"
    /\ login' = NoAuth
    /\ UNCHANGED <<server, cookie, known, shown, page, cache, fetch, muts,
                   logout, acked, joined, rest>>

\* Mutant of EndLogout: the queries are not removed.
EndLogoutKeepsData ==
    /\ logout.at # "idle"
    /\ \/ logout.at = "ok" /\ cookie' = 0
       \/ UNCHANGED cookie
    /\ logout' = NoAuth
    /\ LeaveKeepsQueries(fetch["me"])
    /\ UNCHANGED <<server, muts, login, acked, rest>>

\* The answer clears the cookie; the client leaves with or without an answer.
EndLogout ==
    /\ logout.at # "idle"
    /\ \/ logout.at = "ok" /\ cookie' = 0
       \/ UNCHANGED cookie
    /\ logout' = NoAuth
    /\ Leave(fetch["me"])
    /\ UNCHANGED <<server, muts, login, acked, rest>>

-----------------------------------------------------------------------------
Server ==
    \/ \E k \in Keys : Serve(k)
    \/ \E m \in Slots : ServeMutation(m)
    \/ \E n \in Sids : ServeLogin(n)
    \/ ServeLogout
    \/ \E s \in Sids : Expire(s)
    \/ \E n \in Sids, a \in Accounts : TakeOver(n, a)

User ==
    \/ \E a \in Accounts : SubmitLogin(a)
    \/ ClickLogout
    \/ \E t \in Tabs : SwitchTab(t)
    \/ \E p \in Panels : OpenPanel(p)
    \/ ClosePanel
    \/ \E q \in Queries : ChangeKey(q) \/ Retry(q)
    \/ \E m \in Slots, t \in Changes : StartMutation(m, t)
    \/ Reconnect

Answers ==
    \/ \E q \in Queries : ArriveData(q)
    \/ ArriveMe
    \/ \E k \in Keys : ArriveUnauthorized(k) \/ LoseFetch(k)
    \/ \E m \in Slots : ArriveMutation(m) \/ ArriveRefusal(m) \/ LoseMutation(m)
    \/ ArriveLogin \/ ArriveLoginRefusal \/ LoseLogin
    \/ EndLogout

Next == Server \/ User \/ Answers

Spec == Init /\ [][Next]_vars

-----------------------------------------------------------------------------
Stages    == {"idle", "sent", "ok", "refused", "done"}
Data      == [has : BOOLEAN, of : Accounts \cup {Nobody}, seen : Nat,
              failed : BOOLEAN]
Fetches   == [at : Stages, sid : 0 .. MaxSid, of : Accounts \cup {Nobody},
              seen : Nat]
Mutations == [at : Stages, sid : 0 .. MaxSid, table : Tables \cup {"none"},
              seen : Nat]
Auths     == [at : Stages, sid : 0 .. MaxSid, of : Accounts \cup {Nobody}]

\* The types of the variables; a session in the store, and one that a login
\* asks for, is always of an account.
TypeOK ==
    /\ owner \in [Sids -> Accounts \cup {Nobody}]
    /\ live \subseteq {s \in Sids : owner[s] # Nobody}
    /\ commits \in Nat
    /\ cookie \in 0 .. MaxSid
    /\ known \in BOOLEAN /\ shown \in Accounts \cup {Nobody}
    /\ tab \in Tabs /\ panel \in Panels \cup {"none"}
    /\ cache \in [Queries -> Data] /\ fetch \in [Keys -> Fetches]
    /\ muts \in [Slots -> Mutations]
    /\ login \in Auths /\ logout \in Auths
    /\ login.at = "sent" => login.of # Nobody
    /\ outages \in 0 .. MaxOutage
    /\ acked \in [Tables -> Nat]
    /\ joined \in [Queries -> BOOLEAN]
    /\ taken \in BOOLEAN /\ overtook \in BOOLEAN

\* The lists of records show the name of the dish, but no hook that changes a
\* dish invalidates them.
Promised ==
    [q \in Queries |-> IF q \in {"recent", "history"} THEN Reads[q] \ {"dish"}
                       ELSE Reads[q]]

\* Read your writes: once a mutation has succeeded, no query on the screen that
\* is at rest shows an answer from before it, unless its fetch was already
\* running when it should have begun and was joined instead.
StaleOnlyWhenJoined ==
    \A q \in Mounted :
        (fetch[q].at = "idle" /\ cache[q].has /\ ~cache[q].failed /\ ~joined[q])
            => \A t \in Promised[q] : acked[t] <= cache[q].seen

\* On the login page nothing of an account is left, and nothing of one can
\* still arrive.
NothingLeft ==
    shown = Nobody => \A q \in Queries : ~cache[q].has /\ fetch[q].at = "idle"

\* The data on the screen is that of the account whose name is on the screen,
\* as long as no other tab has logged in and no answer of /auth/me has arrived
\* after the login page was used.
OwnData ==
    taken \/ overtook \/ \A q \in Queries : cache[q].has => cache[q].of = shown

\* A user whose session is alive is sent to the login page only by logging out
\* or by the late answer to a request that is older than the session.
OnlyOldAnswersThrowOut ==
    [][ (shown # Nobody /\ shown' = Nobody /\ cookie \in live)
          => \/ logout.at # "idle" /\ logout.at' = "idle"
             \/ taken \/ overtook
             \/ fetch["me"].at = "refused" /\ fetch["me"].at' = "idle"
             \/ \E m \in Slots : /\ muts[m].at = "refused" /\ muts'[m].at = "done"
                                 /\ muts[m].sid # cookie ]_vars
=============================================================================
