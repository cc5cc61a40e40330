# ScanOID in TLA+

ScanOID is a price comparison service: an Express server (`src/Server`), an
Android application (`src/InterfaceComparateur`) and a few pages of browser
JavaScript.  The server keeps its long-lived data in PostgreSQL (accounts,
prices, lists, cards, favourites) and its short-lived data in Redis (sessions,
mailed registrations, votes for prices, statistics).  There is no transaction
across the two, nor across two calls to one of them; every call is asynchronous,
and between any two callbacks of a request anything else may happen.  That is
what this project models.

## 1. Inventory

| Component | State | Operations | Hard behaviour | Correct when |
|---|---|---|---|---|
| Mailed links (`registration.js`, `recovery.js`, `login.js:66`, `requete.js:184-247`) | Redis `email:<code>`; table `users` | `postRegistration`, `postRecovery`, `getLoginId`, `getRecovery` | two clicks, late clicks, crashes between DEL and INSERT, expiry, another registration meanwhile | an account is opened once, by its own submission; confirmations are honest; links end |
| Sessions (`login.js`, `logout.js`, `app.js:96`, `account.js:77`) | Redis `web:`/`app:<code>`; signed cookie; `users` | `postLogin`, `postLoginFacebook`, `ensureAuthenticated`, `getLogout`, `postAccount` | replies lost or reordered, expiry under way, two Facebook users with one address | a session has one owner and never comes back; logout is final; sessions have accounts |
| Prices (`product.js:160`, `requete.js:249`, `schedule.js:67`) | Redis `product:…` counters and `circle:product:…` sets; table `product_shop` | `postProductPrice`, `queryProductPrice`, `funcProduct` | the weekly job deletes between the calls of a vote; retries | one vote per client and period; a row stands for a quorum |
| Statistics (`requete.js:202`, `schedule.js:25`, `product.js`) | Redis `stats:…`; table `stats` | `queryStatIncr`, `funcStat`, `getProduct` | GET, DEL and INSERT with increments between; errors that are not looked at | an increment is reported once, or lost in a way that can be named |
| Shopping lists, server (`list.js`) | tables `list`, `list_product` | eight routes | two statements per page, other devices | a page shows products under their own list |
| Shopping lists, browser (`jquery-list.js`) | the page, a global `varNameListDelete`, timers | create, rename, delete, remove a product | answers in any order, a global read a second later | what is on the page is what the account has |
| Shopping lists, Android (`ListActivity`, `SwipeDismissListViewTouchListener`) | the adapter's list, positions, listeners, animations | create, rename, delete, swipe | worker threads, positions kept while rows go | what is deleted or renamed is what was chosen |
| Shopping lists, Android, one list (`ListProduitActivity`, `ListPriceActivity`) | a position, the products | show, add, remove | the position is that of an older answer | as above |
| Android session (`Accueil`, `ConnectionActivity`, `RequeteHTTP`, `SlideMenu`) | preferences `identifiant`, `name_<id>`; the field `identifiant` of the login screen | login, check, "Déconnexion" | threads that outlive their screens and read a field several times; lost replies; a cookie written back after any answer | the cookie kept for an address is a session of that address; the application and the server agree |
| Administration (`admin.js`) | `config.json`, configuration in memory | `receiveFile`, `sendFile` | write before parse, change under running handlers | the server can start again |
| Search, shops, cards, favourites | tables | one statement per route | little | queries say what they promise |
| Connection pool (`requete.js:62`, with `generic-pool` and `pg` as installed) | idle and borrowed clients, their number, who waits; a statement queue per client | `acquire`, `release`, the timer for idle clients, the events of a connection | every client in use, broken connections, expiry beside a release | nobody waits beside an idle client; clients are counted; a statement ends |
| FacebookSDK, CaptureActivity, node_modules | – | – | vendored | – |

How they interact: the routes of `app.js` call handlers with closures over one
Redis client and one pool; handlers share nothing in the process but that client,
the pool, the configuration and a few accidental globals; they meet in the two
stores.  Mailed links and sessions meet in `users`, votes and the weekly job in
the counters and circles, everything that counts in `stats:…`, every statement in
the pool.  The list screens are threads and scripts of other machines; they meet
in the tables of the lists, through the routes of `list.js`.

## 2. Modules

| Module | What it is |
|---|---|
| `AccountBook` | abstract: accounts, and the wishes that may open or change them |
| `SessionBook` | abstract: keys that are fresh, live, dead; requests admitted as the owner |
| `MailLinks`, `MCMailLinks` | registration and recovery by mail; implements `AccountBook` |
| `PriceVote` | votes for prices and the weekly job |
| `Sessions`, `MCSessions` | sessions; implements `SessionBook` and `AccountBook` |
| `Stats` | the counters of the statistics and the weekly collection |
| `ConnectionPool` | the pool, its clients and their connections |
| `ListTables` | the tables of the lists of one account and what the routes do to them; used by the next two |
| `ListPage`, `MCListPage` | `getList`, the page it makes and the scripts of the page |
| `ListScreen`, `MCListScreen` | the Android screen of the lists, its threads and its swipes |
| `AppSession`, `MCAppSession` | the session as the Android application has it: screens, threads, preferences |
| `MailLinksProofs`, `PriceVoteProofs`, `SessionsProofs`, `StatsProofs`, `ConnectionPoolProofs`, `AppSessionProofs`, `ListPageProofs`, `ListScreenProofs` | the theorems |

`MailLinks` and `Sessions` write the same table.  Each takes the other's writes
as steps of its environment, in the form in which the other is shown to make
them: `MailLinks` has `AskDirect`/`WriteDirect` for `/loginFacebook` and
`/account`, `Sessions` has `AskMail`/`WriteMailed` for the links.  Both are shown
to implement `AccountBook`, with the wishes of both, so that the assumption each
makes about the other is what the other guarantees.

### How code becomes actions

A handler is cut at its callbacks.  The record `req[r]` (or `post[r]`) of a
request holds the call it waits for (`pc`) and the variables its closures keep.
The action of a call does what the store does and what the callback does up to
the next call, so `Hmset` is the HMSET and `if (errh) … else clientRedis.expire(…`.
Each call ends in one of three ways:

* `ok`;
* `fail`: an error, and nothing was done;
* `lost`: done, but the connection broke and the callback is given an error.

The random code is drawn when the first call that needs it is issued, and never
drawn twice: 128 hexadecimal digits.  Requests of clients may start whenever a
slot is free, so a slot that is done is a client who retries, or another client.
History variables (`issued`, `direct`, `wishes`, `drawn`, `opened`, `votes`,
`raised`, `purged`) record what happened and guard nothing, but for the freshness
of codes and the bounds.

**MailLinks.**  `pending`/`expires` are the hashes `email:<code>` and which of
them have a time to live, `mailbox` the codes that arrived, `users` the passwords,
`favorite` the addresses stored with a registration.  `Post … SendMail` are
`postRegistration` and `postRecovery` (they differ in whether the address must be
free), `Follow … IncrRegistration` are `getLoginId` and `getRecovery`.  `Throw` is
an exception in a callback, which ends the process: every request is cut off, the
stores stay, `Start` starts it again.  `Expire` is Redis' own.

**PriceVote.**  An item is product, shop and promotion flag: what `circle:product:`
is keyed by.  `count` is keyed by item and price.  `Post`, `Sadd`, `Incr`,
`Insert`, `IncrEntries` are the calls of a request; `StartPurge`, `KeysCount`,
`DelCount`, `KeysCircle`, `DelCircle` those of `funcProduct`, whose list of keys
may be stale when it is deleted.  A request that failed is `Free` again, and nothing of it
is kept.  `Restart` cuts off the requests and the job.

**Sessions.**  `sess`/`ttl` are the keys, `jar` is the cookie each client holds.
A reply is delivered or lost, and it is the reply that changes the cookie: two
replies may arrive in either order.  A request with a cookie is `logout`,
`account` (field password) or `page` (any other route, `/connected` included);
`Authenticate` is `ensureAuthenticated`.  The cookies a client can present are the
ones it was given: they are signed.

**Stats.**  A counter is the set of the requests it has counted rather than their
number, so that an increment can be followed to a row of the table; GET returns,
and a row holds, the size of such a set.  `Incr` is `queryStatIncr`; for the search
of products the INCR comes first and `Select` follows, for the other routes the
increment comes last and their own work is in their own modules.  `Get`, `Del` and
`Insert` are the three functions of a waterfall; there is one waterfall for each
name, and nothing orders them.  `SelectNext` is `getProductNext`, which looks at
the rows before the error and so may end the process; `Exit` is what any end of
the process does.  A second run starts a week later, when the calls of the first
to Redis are over; its INSERTs may still wait for PostgreSQL.

**ConnectionPool.**  One event is one step, because callbacks run to their end:
`Finish` is the callback of a statement, the release of its client and the
`_dispense` that follows, down to the next statement the client is given.  `Ask` is
`acquire`; `Expire` and `RemoveIdle` are the passing of idle time and the timer
(`removeIdle`, `refreshIdle`, `_ensureMinimum`); `Ready`, `Answer`, `Fail` and
`Close` are the events of a connection.  A client is `ready` only between a
ReadyForQuery and the next statement, and sends what it is given only then, which
is why a statement given to a client whose connection is gone stays queued.  The
code of `generic-pool` and `pg` is modelled because `initPostPool` relies on it and
it is in the repository, at the version that is used.

**AppSession.**  `id` and `cookie` are the preferences `identifiant` and
`name_<address>`, `access` is whose button the start screen shows, which need not be
what the preferences say by now.  Of the stack of activities two things are kept:
whether the login screen lies over the start screen (`connect`), and the identity
of whatever lies on top (`inside`), however many screens that are.  A thread of
`thread` is a login or a check.  `Read` and `Build` are the two times one line of
`ConnectionActivity` reads the field `identifiant`, `Serve` and `Refuse` what the
server may do and the answer that comes, `Save` the preference that
`sendPostRequest` writes after any answer, with the cookie it brought or the one
that was sent; `SaveIdentity` and `Enter` read the field again.  `Ask` is the request
for `/connected`, which `Admit` and `Forget` end.  A thread goes on when its screen is
gone (`left`), with the field as it was then (`Left`).  `StartAgain` is the entry
"Déconnexion" of the menu, or a start screen that was closed and opened again;
`Restart` is the end of the process, which loses the threads and keeps the
preferences.  The server is `owner` only: `Sessions` has the rest.  The application
neither tells the server when it forgets a cookie nor logs out, and the keys of the application
have no time to live, so that `owner` only grows.

**ListTables.**  The schema is not in the repository.  That a name of a list is
unique follows from the answer of `postList` to an error; that products follow a
list that is renamed and go with one that is deleted is assumed.

**ListPage.**  `SelectLists` and `SelectProducts` are the two statements of
`getList`, with `Filed` for `fillResponse`: it looks for the list of each row of
products among those of the first statement, and a row whose list it does not find
goes where the row before went.  The rows come ordered by the names of their
lists, so that the row before which found its list has the greatest name up to
this row's that the first statement had too: `Filed` says it in this way, and
`items` is the set of the rows with the list each went to.  `Others` is any change by another client, or by a
request of a page that was left.  `Timer` is the callback of `setTimeout` in
`supList`, which reads `varNameListDelete` when it fires.  `Lose` covers a lost
request as well as a lost answer: `complete` is called and throws.  `cause` is a
history variable: what came between since the page was asked for.  Once it is not
empty the page may be wrong, and the user begins nothing more until the page is
loaded again (`Fresh`, a bound); what is under way goes on.

**ListScreen.**  `rows` holds `Liste` objects, not names: views, threads and
dialogs share them and their labels change.  A thread of a dialog sends, is served
or loses its answer, and then changes rows, listeners and visibility by itself, one
call of the code at a time: a deletion removes its row (`ReturnDelete`), looks at the
size (`Count`), adds `listeVide` (`AddVacant`) and takes the listeners away
(`TakeClicks`, `TakeTouches`); an addition removes `listeVide` (`ReturnAdd`), adds its
row (`AddRow`) and sets them (`SetClicks`, `SetTouches`), as the loader does once it
has filled the rows (`ReturnLoad`).  `pc` says which call was the last, and `armed`
which of the two listeners is set.  `Stored` is what the server makes of a name
(`replaceBadCharacter` and `trim`): a label keeps what was typed, and the routes see
`Sent` of it.
`swipes` keeps one record for each row that is touched, moves away or
has moved away and waits, with the position the listener kept for it and the
number of its listener: 0 is the listener of now, others are listeners that were
replaced while rows of theirs moved.  `Settle` is the end of an animation:
when none is left, `onDismiss` gets the positions in descending order (`batch`),
and `Dismiss` takes one, sends the deletion and blocks the thread of the user
interface until it has returned.  `Reopen` leaves the screen and comes again,
perhaps after the application ended; the account may have any lists then, since
other clients, and threads of the screen that was left, are at work meanwhile.
Simplified: sending a request and serving it are a single step.  Single operations
of the unsynchronised `ArrayList` are atomic, and two pairs of them are one step,
because their outcome is that of the one or of the other: `contains(listeVide)` and
`remove(listeVide)`, where the second does nothing when another thread came first,
and `get(position)` and `setNom`, where a row removed between them is renamed and
gone.  The rows of `getLists` are added in one step: the list view has no adapter
before, so that nobody can touch them.  The runnable that shows the list view again
belongs to the last call of its thread.  The listeners of short clicks and of
scrolling are left out, since they change no list; so are the dialogs' text fields,
the amounts, and a list that the user names like the text of `listeVide`.  While the
screen is there only its own threads change the lists (what others do to a page is
the subject of `ListPage`).

## 3. Runs

| Run | Bounds | Shows |
|---|---|---|
| `mail_links` | 1 address, 2 passwords, 2 codes, 2 requests, 1 wish of another route | `AccountBook` is implemented; mailed links expire; answers are honest; a registration is counted once |
| `mail_links_live` | 2 addresses (one with a postal address, one without), 1 code, 2 requests | every request is answered or cut off, unless Nominatim is silent; every mailed hash ends |
| `link_answered` | 1 address, 1 code, 2 requests | *violated*: the second click on a link ends the process |
| `price_vote` | 2 clients, 1 item, 2 prices, 2 requests, quorum 2, 1 job | one vote per life of a circle; rows backed; honest answers; requests and job end |
| `sessions` | 1 address, 1 password, 2 keys, 1 browser, 1 application, 2 requests, 2 wishes | `SessionBook` is implemented; the invariants of the cookies, logins and logouts |
| `session_accounts` | 1 address, 2 passwords, 1 key, 2 requests, 3 wishes | `AccountBook` is implemented |
| `web_session_expires` | 1 browser, 1 request, 1 key | *violated*: confirmed login, session for ever |
| `stats` | 2 counters, 2 requests, 2 runs of the job | increments are reported once, or lost in a named way; collections end |
| `connection_pool` | 4 statements, 2 clients, minimum 1 | clients are accounted for, nobody waits beside an idle one, statements end, dead clients are replaced |
| `list_page` | 2 lists, 2 products, 2 requests of scripts, 2 timers | the page is filed correctly, and true unless one of three things came between |
| `app_session` | 2 addresses, 2 keys, 2 threads | a cookie is kept for the address whose session it is; application and server agree unless one of six things came between |
| `list_screen` | 3 names, of which two are typed and one of these is stored as the third, 3 objects, 2 worker threads, the loader, the thread of the user interface | the screen is true unless one of five things came between; positions hold |

Why the bounds are enough to be of interest: two requests are what a race needs,
and a slot is used again when it is done, so that a behaviour has as many requests
as its codes and keys allow.  Two codes for one address give two pending
registrations, a registration and a recovery, and two clicks on either.  Two
clients and a quorum of two give a row, a row that was stepped over and a counter
that was deleted half way; two prices separate the circle (per item) from the
counter (per price).  Two keys and one address give a session that replaces
another while replies of both are under way.  Two runs of the job and two requests
give an increment before, between and after the calls of a collection, and one
whose DEL failed that is collected again.  Four statements on two clients leave
two that wait, so that their order matters, and a minimum of one makes the timer
both destroy and create.  Two lists of two products are what `fillResponse` needs
to file a product wrongly; two requests of scripts, what a dialog needs to be
opened again while a deletion is under way.  Three rows and two worker threads
give a rename or a swipe below a row that goes, a row that is added while the last
one is deleted, two deletions of the last two rows, and a row that two threads
change; a typed name that is stored as another gives two rows that want one name.  Two addresses, two keys and
two threads give a field that is filled again under a login, two logins of one
address whose answers come in either order, and a check that fails beside a login.  The invariants that hold are proved
for all bounds (below), so that TLC's part is to find mistakes before the proof
and to check what is out of the prover's reach.

Symmetry is used only in runs without liveness properties.  No run turns the
deadlock check off.  `MaxDirect`, `MaxWishes`, `MaxPurges` bound counters that would grow for
ever, `MaxTimers` the timers of a page; `Fresh` and `MaxCauses` (0: nothing new is begun
on a screen that something came between) keep the two list modules small, and so does
`MaxAtLoad` (1: with more than one change under way the user begins nothing more while
`getLists` has yet to set its listeners); `Tokens` and `Keys` bound how many codes are drawn: a request that would
draw one more waits, or fails.

## 4. Properties

*Refinement.*  `ImplementsAccountBook` (both modules) says that a row of `users`
appears only through a registration or a Facebook login submitted for that address
with that password, and only if there was none, and that a password changes only
to one submitted for that purpose.  It fails if a second click or a late link
could replace an account.  `ImplementsSessionBook` says that a key has one owner,
that a session which ended stays ended, and that a request acts as the owner of
the session it was admitted in, even when it ended meanwhile.

*MailLinks.*  `MailedLinkExpires`, `HonestAnswer` (mailed means mailed, ok means
there is an account, although an UPDATE that meets no row is no error),
`CountedOnce`, `MailedLinkEnds`, `RequestEnds`.

*PriceVote.*  `VotesPerPeriod` counts votes against lives of the circle, not
against calendar weeks: that is what SADD gives.  `RowsBacked`: `Quorum` increments
per row, of that very price, although counters are deleted in between.
`HonestAnswer`, `EntriesBacked`, `PostEnds`, `PurgeEnds` (a DEL without keys would
be an error: the job goes on by itself).
What the code does **not** give: between the DEL of the counters and the DEL of the
circles a client may be counted in the new counter and then be let in again, so
that a quorum may hold one client twice; and a client whose INCR failed is locked
out without a vote until the next job.

*Sessions.*  `SessionHasAccount`, `CookieNamesSession` (also for cookies that came
with an error page), `HonestLogin`, `LoggedOut`, `FacebookSessionExpires`,
`ConnectionsBacked`.  A session does not end when its password changes; nothing
in the code or its documentation says it should.

*Stats.*  `ReportedOnce`: rows hold only what Redis counted, and a request is in two
rows only after a DEL that failed.  `LossExplained`: an increment is in Redis, in
the hands of a collection or in the table, or it came between the GET and the DEL
of its counter, or its GET or INSERT failed or was cut off; nothing else loses
one.  `CollectionEnds`: for every name, whatever errors it meets.
What the code does **not** give: the errors of GET and DEL are not looked at, so that
a broken connection loses a week of a counter, or reports it twice.

*ConnectionPool.*  `NobodyWaitsBesideIdle`; `Accounted`, which relates the count, the
two sets and the statements that wait or are served; `QueryEnds` and `DeadReplaced`.
What the code does **not** give: a statement handed to a client whose connection was
closed in order before it was ready is queued in that client for ever (`Stuck`), and
its place in the pool with it.  `QueryEnds` says exactly that this is the only way
in which a statement does not end.

*ListPage.*  `PageFiled` is about the step that makes the page: every list of the
first statement, every product of the second, once, and under its own list if the
first statement had that list.  `PageTrue`: with nothing under way, the page is the
account, unless one of three things came between, each of which does make it
wrong: another client changed the account (`others`), an answer was lost although
the change was made (`lost`), or the dialog was opened for another list while a
deletion was under way, so that the timer removes the wrong one (`retargeted`).

*ListScreen.*  `ScreenTrue`: with nothing under way, the rows are the lists of the
server, once each, and can be touched, or the row that says there is none, which
cannot; unless one of five things came between, each of which can make it wrong: an
answer was lost (`lost`), a list was added before `getLists` had filled the rows
(`early`), a row was changed twice at a time (`twice`), a row above one that was being
renamed or swiped went (`shifted`), or two threads raced for the row that says there is
no list and its listeners (`raced`).  A race is one of four things, and without any of
them TLC finds a wrong screen.  `listeVide` is added though the rows have others by
then, or while an addition has looked for it and not found it: two deletions of
the last two rows leave it there twice, and an addition leaves it beside its row.  Listeners
are set when only `listeVide` is left and nobody is about to take them, or taken when
there are rows and nobody is about to set them: the one leaves a row that says there is
no list and can be deleted, the other lists that cannot be touched.  Or `listeVide` is
chosen before its listeners are gone.  Labels are compared as the server keeps them,
because a label has the name as it was typed until the screen is opened again.
`PositionsHold`: as long as no other thread removes a row above and no two race in
this way, every position that is kept, in a gesture, an animation, the batch of
`onDismiss`, a dialog or a thread, still means the row it was kept for, and nothing
ends the application by an index out of bounds.  The second condition came out of the proof:
after such a race two rows that say there is no list may be there, `remove` takes the
first that is equal, and the rows between the two move up.  `TypeOK` has, beside the
types, that `mDismissAnimationRefCount` of each listener is the number of rows that
move for it, whatever listeners `addNewList` puts in between.

*AppSession.*  `CookieOwn`: the cookie kept for an address is a session of that
address, and the identity kept is one that has logged in, although answers are
lost, threads outlive their screens and every answer is written back; unless the
field `identifiant` changed between two of the times a thread reads it
(`retyped`).  `PhoneTrue`: with no thread under way every session of the server is the one
kept for its address, and whoever has a session finds the button that leads to
one; unless one of six things came between.  Each of the causes is needed: leave one
out of the condition and the property fails.
What the code does **not** give: while a login is under way its button stays, so that two
threads may work at a time (`twice`) and a click may fill the field under the first
(`retyped`: the preference of one address then holds the session of another); a second
login of an address leaves the session of the first in Redis (`again`); an answer
that is lost (`lost`), or an error after SET (`error`), leaves a session that is not kept, or
keeps the one of a login that was refused; a check that fails, if only for want of a
network, forgets the cookie (`check`); and a process that ends takes its logins with it (`cut`).
The entry "Déconnexion" of the menu is the fifth, for which `SlideMenu.java:108` starts
`Accueil` without the extra `logout` (line 110 gives it to a sixth entry there is not), so that
`logoutProcedure` is never called and the session stays.  A check that fails removes `id`
through the editor of the cookie's file (`Accueil.java:207`), so that `id` stays as well;
nothing comes of it, because an identity without a cookie gives no button.

*Violations.*  Two runs check what a comment of the code promises and the code does
not do; PROJECT.json quotes each under `findings`: a missing hash ends the process
(`recovery.js:138`, `requete.js:243`), and `err` is tested for `err2`
(`login.js:191`), the very property that `/loginFacebook`, which tests the right one,
does have.  Two more such disagreements can be read off the model: the hash of a
link is deleted before the account is written (`login.js:88`), so that a failed
INSERT loses the registration, and a failed EXPIRE leaves a hash without a time to
live (`requete.js:190`).  The properties of MailLinks that hold are stated around
them: `MailedLinkExpires` speaks of hashes that were mailed, `HonestAnswer` of what
was answered.

## 5. Fairness

`FairSpec` of MailLinks and PriceVote asks weak fairness of the next callback of
each request, of the calls of the job and of the expiry of a key.  The code's part is that each callback
issues the next call at once; the stores' part is that they answer or break the
connection, in which case the client library calls back with an error.
Nothing is asked of clients, of crashes, of the weekly timer, of `Start`, or of
Nominatim, whose HTTP request has no timeout: a registration with a postal address
may wait for ever, and `RequestEnds` says exactly that much.

`FairSpec` of Stats asks that each run of the job goes on while it has a call under
way, which the waterfalls and the stores give as above.  That of ConnectionPool
asks that idle time passes, that the timer fires, that a connection being set up
comes up and that a statement that was sent is answered or fails; it asks nothing
of `Close`, of `Crash` or of handlers.  The other modules see PostgreSQL through this
pool: their fairness includes that no statement is queued on a dead connection.
Redis breaking its connection is an error to the callers under way; the error
event of the client itself has no listener (`app.js:34`), so that the process ends
as in `Restart` and `Crash`, for which nothing is assumed.

The two list modules and AppSession state no fairness and no liveness: answers may be
lost, and a user need not do anything.

## 6. Proofs

All proofs are of `Spec`, for every value of the constants under the named
assumptions of the modules (`None` is none of the values; bounds are naturals; the
quorum is positive; browsers and applications are disjoint; requests are a
finite set, and so are the addresses of MailLinks, the keys of Sessions, the names and
objects of ListScreen, and the clients of the pool, as many as its maximum, which is
above its minimum; the row that says there is no list is none of the objects, the
threads of onCreate and of the user interface are two, and no workers, names that are
typed are names, and a name that the server has cleaned stays what it is when it is
cleaned again).

| Theorem | States |
|---|---|
| `MailLinksProofs!TypeCorrect`, `LinksExpire`, `AnswersAreHonest` | `[]TypeOK`, `[]MailedLinkExpires`, `[]HonestAnswer` |
| `MailLinksProofs!RegistrationsCounted` | `[]CountedOnce` |
| `MailLinksProofs!Refinement` | `Spec => ImplementsAccountBook` |
| `PriceVoteProofs!TypeCorrect`, `AnswersAreHonest`, `OneVotePerPeriod`, `RowsAreBacked`, `EntriesAreBacked` | `[]TypeOK`, `[]HonestAnswer`, `[]VotesPerPeriod`, `[]RowsBacked`, `[]EntriesBacked` |
| `SessionsProofs!TypeCorrect`, `LogoutIsFinal`, `CookiesNameSessions`, `SessionsHaveAccounts`, `LoginsAreHonest`, `FacebookSessionsExpire` | the invariants of those names |
| `SessionsProofs!LoginsCounted` | `[]ConnectionsBacked` |
| `SessionsProofs!Refinement`, `AccountsRefinement` | `Spec => ImplementsSessionBook`, `Spec => ImplementsAccountBook` |
| `StatsProofs!TypeCorrect`, `NothingReportedTwice`, `NothingElseIsLost` | `[]TypeOK`, `[]ReportedOnce`, `[]LossExplained` |
| `ConnectionPoolProofs!TypeCorrect`, `NobodyIsForgotten`, `ClientsAccounted` | `[]TypeOK`, `[]NobodyWaitsBesideIdle`, `[]Accounted` |
| `AppSessionProofs!TypeCorrect`, `CookiesAreOwn`, `PhoneAgrees` | `[]TypeOK`, `[]CookieOwn`, `[]PhoneTrue` |
| `ListPageProofs!TypeCorrect`, `PageIsTrue` | `[]TypeOK`, `[]PageTrue` |
| `ListPageProofs!ProductsAreFiled` | `Spec => PageFiled`, an action property |
| `ListScreenProofs!TypeCorrect`, `PositionsAreHeld`, `ScreenIsTrue` | `[]TypeOK`, `[]PositionsHold`, `[]ScreenTrue` |

Each module has an inductive strengthening, `IInv` with a theorem `Strengthened` (in
ListScreenProofs the three parts `Shaped`, `Placed` and `Exact`, each of which needs
those before it), and one lemma per action; frame lemmas say once what `Goto`, `Throw`, `Reply` and the
like do to the other requests.

* **MailLinks.**  A request on its way to the mail or to `users` carries the fields
  its code was drawn for (`Carried`); no two requests file one code (`FiledOnce`);
  a code is mailed only after its hash has a time to live (`MailComesLast`);
  recovery codes are drawn only for accounts, and accounts never vanish
  (`RecoveryHasAccount`, which is why an UPDATE always meets a row).  `HonestAnswer`
  alone is not inductive: it needs to know what happened before the answer.
  `CountedOnce` rests on `CountedHeld`: the counter and the requests that have opened
  an account but not counted it are together no more than the accounts, because an
  INSERT makes one of each.
* **PriceVote.**  `votes + |requests between SADD and INCR| <= purged + 1 if the client
  is in the circle` (`VotesHeld`): a place in a circle is a vote, cast or about to
  be.  The sum is needed because SADD and INCR are separate; FiniteSetTheorems
  gives the cardinalities.  For the rows, `Quorum * (rows + |requests at INSERT|) +
  count % Quorum <= raised` (`RowsHeld`): a row, inserted or about to be, has used up
  a quorum of increments, and the remainder of the counter is still to be used.
  Deleting the counter only lowers the remainder; a lemma says what the remainder
  does when the counter goes up, and another that multiples of the quorum are in
  the order of their factors, since a product of two unknowns is beyond the solver.
  For the entries, `entries + |requests at IncrEntries or Insert| <= |Increments|`
  (`EntriesHeld`): a request that will enter a price has raised a counter, and an entry
  is the end of such a request.  `Increments` is the set of all increments of all
  counters, so that the sum over the counters is the size of one finite set, and an
  increment adds one element to it.
* **Sessions.**  `Own` says what a request may rely on at each step (the key it is
  about to SET was drawn and not opened, what its cookie names, what its reply
  promises); `SetOnce` keeps two requests from one key; `KeysKnown` ties `sess` to
  `opened`.  `ConnectionsBacked` rests on a `CountedHeld` as above, of keys that were
  opened.  For `AccountBook` a second invariant, `AsWished`, says that what a request is
  about to write to `users` was wished for when it was sent.

* **Stats.**  What a waterfall holds was counted; and two holders of one increment (a
  counter, a waterfall between DEL and INSERT, a row) are possible only when a DEL had
  failed (`HeldApart`, `CounterApart`).  `LossExplained` needs `Window`: what a waterfall
  has read is still in its counter until the DEL, and what the counter has beyond
  that is late, or its GET had failed.
* **ConnectionPool.**  `IInv` adds to the types who serves whom (`Served`: each
  borrowed client has a statement that was asked for, and no two the same), where
  clients are (`Placed`: idle or borrowed, never twice, and counted), that a process
  that does not run has nothing (`Resting`) and that the minimum is kept (`Enough`).  Queues are injective
  sequences; lemmas say that Append, Tail, suffixes and concatenations of such
  sequences are again injective, and what their sets of elements are.
* **AppSession.**  `IInv` adds to the types that a worker holds what it has read and that
  the field it will read, of the login screen or of what was left of it, is an address
  (`Carried`).  `Owned` is `CookieOwn` with `Straight` for each thread, as long as nothing
  was retyped: what it will write for an address is a session of that address, and once
  it has saved a cookie its address has logged in.  A key never changes its owner
  (`OwnerKept`), so that what is straight stays straight while others log in.
  `PhoneTrue` speaks of the case in which nothing is under way.  As long as there is no
  cause only one thread is ever under way, and `Agrees` says of each moment of that thread
  what is still missing: a session that is not saved, a cookie without its identity, a
  button that is older than both; and (`Tidy`) that a login is about an address without
  a cookie, so that it replaces none.
* **ListPage.**  `Requested` says what a request, a dialog and a timer may be about.
  `Agreed` is `PageTrue` at every moment of a page that nothing came between: the page
  has more than the account by exactly what answers on their way, and a list about to
  be removed, will take from it; and less by what a reload will bring.
  `PageFiled` needs no invariant but that `titles` are distinct names; it needs that
  the greatest name up to a given one exists, in a set that need not be finite.
  That is a least-element argument, which the well-founded order of the naturals gives
  without an induction theorem (`LeastExists`, `GreatestExists`).
* **ListScreen.**  `Shaped` says what a thread is like at each moment, that no row is
  swiped twice, and that before `getLists` is done there is nothing to touch.  Because
  no row is swiped twice, fewer listeners have rows that move than there are numbers,
  so that a free number always exists (`FreeListener`), and a new listener shifts the
  others without mixing their counts (`NewListenerTyped`).
  `Placed` is for `PositionsHold`: no object is in two rows; the positions of a batch go
  down; and the row that the thread of the user interface is deleting is below all those
  still in its batch, which is why its removal moves none of them.  Lemmas say what
  `RemoveFirst` leaves of a sequence without repetition, and where.
  `Exact` is for `ScreenTrue`: as long as nothing came between, each name of the account is
  told exactly once (`Known`), by a row whose change the server has not yet made
  (`Settled`), or by a thread that brings a name the server already has (`Bringing`); one
  thread at a time changes a row (`OneEach`), and the row that says there is no list is
  alone (`Filling`).  `Filling` also says of each listener that the rows have it or a
  thread has still to set it (`Setting`), and that the row that says there is no list
  does not have it or a thread has still to take it (`Taking`); and that rows are empty
  only while a thread is between two calls.  With nothing under way every name is told by a row, once, so that
  labels are a bijection from rows to names and there are as many of the one as of the
  other.

The refinements map each action to a step of the abstract module or a stutter,
with `IInv` giving the wish, or the owner, that the abstract step needs.

*Model-checked only.*  Liveness under fairness (`MailedLinkEnds`, `RequestEnds`,
`PostEnds`, `PurgeEnds`, `CollectionEnds`, `QueryEnds`, `DeadReplaced`), which the prover
cannot reach.  Every invariant, action property and refinement that a passing run
checks is a theorem.

## 7. Not modelled, and the plan

Left out for good: rendering and wording, validation of fields, the sliding menu,
SQLite helpers, and vendored code (FacebookSDK, CaptureActivity, bootstrap, leaflet,
editArea, `node_modules`, `node_modules2`), but for the part of `generic-pool` and `pg`
that the pool of the server consists of.  Most of the lines of the repository are
vendored, so that the share of all lines that is modelled is small; of the
handlers, `requete.js` and `schedule.js` it is most of what changes state.

Of the lists: `postAmount` and `saveamount` (one number that nothing else reads); the
form of `ListActivity` that posts to `/list/`, which matches no route; list names with
a hyphen, which `PUT /list/:old-:ne` splits at another place than was meant, so that
it renames another list, or none, and answers success.

Done: `MailLinks`, `AccountBook`; `PriceVote`; `Sessions`, `SessionBook`; `Stats`;
`ConnectionPool`; `ListTables`, `ListPage`, `ListScreen`; `AppSession`; and the proofs above.  The plan
from here, in order:

1. The Facebook button of the application in `AppSession`: its threads share the fields
   `identifiant` and `infoUser`, which the callbacks of the Facebook SDK fill.
2. `RedisLink`: the Redis client of the process, its queue while the connection is
   gone, and the end of the process by an error event without a listener.
3. `ListProduct`: the screen of one list, which keeps a position in an answer that is
   older than the screen.
4. `ReceiveFile`: configuration on disk and in memory, crash and restart.
5. `LatestPrice`: the choice by date of `shop.js`, and the sorts of
   `ListResultActivity`, as operators against reference definitions.
