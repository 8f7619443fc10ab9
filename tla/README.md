# TLA+ models of the CMS backend

A NestJS backend: the content management of a multilingual site and a live chat
between its visitors and operators. State lives in PostgreSQL (through Prisma),
in one Redis list, on disk, and in maps and timers of the one Node process.
This directory models the parts whose correctness depends on the order in which
things happen, checks them with TLC and proves the most important results with
TLAPS. Paths below are relative to `src/src/` unless they start with `docs/` or
`prisma/`; `chat.gateway.ts` and the like are meant where only one file has the
name.

    tlc -workers 2 -config ChatAll.cfg MCChatGateway.tla     # one run
    tlapm ChatGatewayProofs.tla                              # one proof module

`PROJECT.json` lists the runs, the mutants that show each property can fail, the
source lines of every definition, the findings and the hazards.

## 1. Inventory

| Component | State | Operations | Hard behaviour | What makes it correct | Module |
|---|---|---|---|---|---|
| Operator rotation `modules/chat/application/operator-rotation.service.ts` | Redis list | `sync`, `pickNext` | several commands per call, calls interleave | nobody listed twice, order kept, turns fair, null only if all are busy | OperatorRotation |
| Chat gateway `modules/chat/chat.gateway.ts`, `chat.service.ts` | session rows; maps of online operators and of four kinds of timers; cached limit | some 25 socket events, timers and REST calls | every handler awaits between reading and writing; restarts lose the maps; commands fail | queue order, limits, greeting once, no open chat without a countdown | ChatGateway |
| Chat presence (part of the gateway) | socket of each operator, sockets of each visitor, two registries of grace timers | connect, disconnect, start, rejoin, join, logout | a loss that is heard of after the reconnect; handlers of a socket that is gone; several tabs | a chat is closed as abandoned only when no page sits in it; an operator is offline only when no tab is left | ChatPresence |
| Chat archive, contact mail, export | marks and the mail's flag on the session row; an export's cursor | trash, restore, delete, contact form, export | check then act beside live chats; the mail answers when it likes; rows leave the history between batches | the flag tells what happened; an export has every chat once | ChatArchive |
| Canned responses, automatic messages | two tables; the gateway's cache of messages | CRUD, trash, restore, bulk forms, upsert and refresh | write, translation and refresh are apart; cascades | what is sent is what was saved; a trashed category offers nothing | CannedResponses |
| Authentication `modules/auth` | one hashed refresh token per user, cookies | login, refresh, logout, forgotten password, reset | compare, later write, later answer; several tabs; lost answers | a signed-in browser can refresh | Sessions |
| Users, managed users, roles, permissions | rows, grants and pairings | CRUD, grants, trash, restore | rights in one command, revocation in the next; check, then delete | no session outlives a change of rights | Accounts |
| Media folders and library, storage | parents of folders; rows, files, stored paths | create, rename, move, delete; upload, refile, trash, restore, purge | ancestors walked, then a write; row, directory and paths follow one another | a forest of bounded depth; every row has its file | MediaFolders, MediaLibrary |
| Menus | menus; items with their parents | create, save, delete; add, move, remove an item | a save deletes what it is not sent; three ways to set a parent | what visitors see stays but for requests about it | Menus |
| Pages | translations, slug aliases, versions, flags, copies of slugs in menu items | create, PATCH, publish, trash, delete, restore a version | version and flags are of an earlier read; aliases are unique | slugs given up lead on, replaced texts are kept | Pages |
| Posts | the same | the same | alias and version are of a read outside the transaction | the same | Posts |
| Public site | reads pages and posts | resolve an address, redirect, print addresses, switch language | two searches for the section of a post | redirects end; printed addresses show what they were printed for | Site |
| Post categories | parent of each category | create, update, delete | ancestors walked, then a write | all of them are in the tree | Categories |
| Settings | rows; cache of public settings, cache of the layout | CRUD, public read, layout | a read in flight across an invalidation; a cache that nothing empties | what is served has caught up | Settings |
| Response caches `common/interceptors/cache.interceptor.ts` | a map in front of each of seven controllers | GET, any write | emptied before the write; blind to other controllers | the same | ResponseCache |
| Languages | default flag | create, update, delete, toggle | unset and set are two commands | one default | Languages |
| Export and restoring `prisma/seeds/` | the database, a file | `export-to-json`, `db-truncate`, `seed-json-data`, two chat scripts | hundreds of commands, nothing holds them together | what ends well is what was exported; ids are free | Restore |
| Reports, programs and regions | – | queries; two plain lists | – | – | – |
| Direct messages, audit log, notifications | appended rows, read marks | append, list, mark | single commands | – | – |
| Block types, page templates | rows | CRUD | unique key | decided by the database | – |
| Socket guards, rate limiter | an array of times per socket | `tryConsume` | – | – | – |
| Filters, guards, pagination, logger, Prisma service, schema | – | adapters | – | – | – |

How they interact: the gateway calls `ChatService` for every row it reads or
writes and `OperatorRotationService` to choose an operator; the REST controller
writes the same rows beside the gateway and tells it only to refresh its caches;
`AuthService.logout` takes an operator offline in the gateway; what is written
to users and roles ends sessions; deleting a user sets references to null by
rules of `prisma/schema.prisma`. Media, pages and menus refer to each other by
id, and menu items carry copies of page slugs. Settings, menus, pages and posts
are composed for visitors by the site module, behind caches.

## 2. The modules

    OperatorRotation ──► RotationTurns ──► OperatorRotationProofs
    WaitingLine ◄─ ─ ─ ─ ChatGateway ──► ChatCountdowns ──► ChatCrossings ──► ChatGatewayProofs
      (refined by)
    MediaFolders ──► MediaLibrary ──► MCMediaLibrary
                           └────────► MediaLibraryProofs

    Tables ──► Pages ──► Posts ──► Site ─────────────────────┬──► MCSite ──► SiteProofs
       │                   ├──► ContentProofs (with Site)    │
       │                   └──► MCContent ◄── Menus          │
       ├──► Categories, Settings, Languages, ResponseCache ──┘
       ├──► Accounts ──► Sessions ──► SessionsProofs
       │                    └────────────────────────────────┬──► MCOffice
       ├──► ChatArchive, CannedResponses, ChatPresence ──────┤
       │                                                     └──► ChatOfficeProofs
       └──► Restore ──► MCRestore
               └──► RestoreProofs

`RotationTurns`, `ChatCountdowns` and `ChatCrossings` add history variables. The modules that end in
`Proofs` hold theorems only (section 5). `ContentProofs` is about Pages, Posts, Site
and, through `MCContent`, Menus; `ChatOfficeProofs` is about the three chat modules,
without the accounts.

The `MC` modules give the constants values, bounds and symmetry. `MCContent`,
`MCSite` and `MCOffice` hold several components side by side: a behaviour is
about one of them, which its first step decides, so one run explores each
component by itself. `Tables` has the two ways a row function changes.

In every module a request is an element of a small set (`Tasks`, `Jobs`,
`Editors`, `Admins`, `Tabs` ...), and a variable says where each stands and what
it has read. Node runs until it awaits, a Prisma transaction is atomic for what
it changes, so **one step is one command or one transaction**, with what is
computed between it and the next. What a request has read stays as it was read,
whatever others write: this is where nearly all the hazards are. Variables
marked *history* in the modules are read by properties only.

### OperatorRotation, RotationTurns

`rotation` is the list `chat:operator_rotation`, head first. The service keeps
nothing in memory, so each awaited Redis command is one step: `ReadMembers`
(LRANGE), `WriteMembers` (the MULTI), `ReadLength` (LLEN),
`RotateOnce`/`RotateEmpty` (LMOVE). `Without` is what LREM leaves.
`RotationTurns` adds what the promise of `docs/chat.md` speaks of: who has been
picked while whom was free, and `alone`, whether calls have come one at a time.

### ChatGateway, ChatCountdowns, ChatCrossings, WaitingLine

A session row is `[status, operator, stamps, reason]`; `stamps` counts writes of
`assignedAt`. Ids grow with age. The maps of the process are `preference`
(`onlineOperators`), `inactivity` and `abandon` (the two-stage countdowns, by
stage), `queueWait` and `grace` (single timers), `limit` (the cached
`maxActiveChats`). A timer that is armed may fire at any time: delays are
abstracted, and with them which of two timers is due first. `task[t].at` is
where a handler waits, `seen` the row it read, `pool` the candidates, `n` the
count a drain keeps.

| Actions | Code |
|---|---|
| `VisitorStart`, `Pick`, `PickCounts`, `PickRotates`, `Recheck`, `Park` | `handleVisitorStart`, `tryAssignSession`, `pickAvailableOperator` |
| `VisitorMessage`, `VisitorFormActivity`, `VisitorRejoin`, `VisitorLeaveContactInfo` with `ReadSession`, `…Reacts`, `RejoinRearms` | the handlers of the same names |
| `OperatorJoin`, `SetStatus`, `OperatorOffline` with `Drain`, `DrainCounts`, `DrainTakes`, `Sync` | `handleOperatorJoin`, `handleSetStatus`, `markOperatorOffline`, `drainQueue`, `broadcastQueue` |
| `OperatorJoinSession`/`ClaimReads`, `OperatorMessage`/`ReplyReads`, `ReplyCounts` | claiming by opening, claiming by replying |
| `Stamp`, `Assign` | the read and the write of `ChatService.assignOperator` |
| `Notify`, `Greet`, `Arm` | `notifyAssignment` |
| `Close` | `closeSessionAndBroadcast`, and the drain it starts |
| `InactivityWarning`, `InactivityClose`, `AbandonWarning`, `AbandonClose`, `GraceClose`, `QueueWaitMessage` | the timers |
| `RestClose`, `RestReopen`, `RestAssign`, `SaveLimit` | `chat.controller.ts`, which touches rows and no timer |
| `Restart`, `Fail` | the process dies; an awaited command is rejected |

`PickRotates` uses what `OperatorRotation` establishes instead of its list: it
names somebody of the pool; it names nobody if the pool is empty, or if another
handler is in flight, which may have changed the list under it.

`WaitingLine` is the abstract promise: visitors enter one line, are served oldest
first, may give up, and leave when done. `ServedInOrder` is its specification
under the mapping *line* = open sessions without operator, *served* = open
sessions with one. `ChatCountdowns` adds `forgotten`, the open sessions whose
countdown a restart has wiped, until one is started again or a message or a
rejoin of the visitor has been handled to its end: the countdown properties thus
include the promise of `chat.gateway.ts:115`, that a lost countdown is
"re-armed on the next message or visitor:rejoin".

`ChatCrossings` is about handlers that are in flight together, which nothing in the
gateway prevents: each awaits between what it reads and what it writes. `overtaken`
has the pairs of a handler and an operator whose chats it has counted, when another
step has since given that operator a chat or lowered the limit; `met` the sessions
that a start and a drain, or two drains, have had in hand at once; `released` the
sessions whose operator was taken away again. `OverLimitUnawaresOnly` then says that
an operator gets a chat beyond the limit only when a closed chat is reopened, by a
path that does not count (claiming by opening, REST assign), or by a handler whose
count was overtaken: each handler counts right by itself, whatever else is in flight.
`GreetedTwiceByMeetingOnly` says that a session is greeted a second time only if
handlers met over it, and then once for each at most.

### ChatPresence

The sockets that `ChatGateway` has only the outcomes of. `wire[k].at` is a
socket's life: it opens, is lost at the far end, and some time later the gateway
hears of it (`handleDisconnect`); the handlers of a socket (`handling[k]`) go on
after that, because each awaits. `seat` is `visitorSessionSockets`, `online`
is `onlineOperators` with the one socket it keeps, `vanished` and `leaving` are
the two `KeyedTimerRegistry` of grace timers. `slips` is history: the four ways
in which this goes wrong by design, each named by the property that excepts it.

### ChatArchive, CannedResponses

`ChatArchive` has the rows of closed chats with trash and permanent deletion,
beside chats that go on being closed and reopened; the contact form in three
steps (mail sent, close written, answer of the mail server); and one export that
reads batch after batch from a cursor. `CannedResponses` has both tables, the
automatic messages among the rows of the first, and `messages`, the gateway's
cache, which a request fills trigger by trigger after it has written.

### Accounts, Sessions

`Accounts`: users with roles and direct grants, roles, permissions, pairings. A
request that checks first and writes later is two steps, and a change of rights
is followed by the end of the session as a step of its own. That second command
can be refused, or the server can go down before it (`EndingFails`,
`users.service.ts:106-109`: nothing holds the two together); the session that goes on
is then `slipped`, as is one that a refresh writes back from an earlier read, and
`SessionsKeepUpWithRights` says that there is no third way. A manager's check
(`StartManaged`) is a step before whatever it allows. `Sessions` adds one browser
whose tabs share two cookies: a request reads the user, later writes the session,
and its answer later sets the cookies or is lost. A token is a period of the
clock, because bcrypt sees 72 bytes of it: tokens of one period match each other.

### MediaFolders, MediaLibrary

`folders` is the tree, `job` the requests; the walk up the ancestors is one step
of reads, the write of the parent another. `MediaLibrary` adds the rows and the
disk: in which directory each row's file lies, and which directory the row says.
Following a folder with its directory and with the stored paths are two more
steps. `Fail` ends any request at any step with nothing undone.

### Menus, Pages, Posts, Site

`Menus` has the rows and three kinds of request in flight: save, add and move.
`Shown` is the tree that the public site builds. In `Pages` a PATCH is read by the
controller, read by the service, kept as a version, and written in one
transaction with alias and menu items; texts are numbers. `Posts` reads once more
and decides alias and version by that read. `Site` is an algorithm over both: what
`PageBundle`, `PostBundle` and `PagePostBundle` show or redirect to, which
addresses are printed, and a visitor who follows and switches languages. Where the
code takes the first of several rows without an order, the model takes any.

### Categories, Settings, Languages, ResponseCache

One small module each: a walk from the new parent to the root, one read a step,
then the write; caches that are filled by what was read a step before; the default
unset and set by two commands.

### Restore

`db` has every table of the schema that the scripts touch, `file` what the export
drew of each. A row is what it points to: tree parents, references that an update
writes again, and those that only a creation writes; which table may point to which,
and what a deletion does to the row that points, is the schema's (`Owned`,
`Pointing`, `PartOf`). A script is a set of commands, each upserting rows, filling a
table, deleting, or setting the sequences; a command has a place, the section of the
script and the rows that its loops have come to, and the script takes the commands
in the order of their places (`IsNext`). What it has still to do is `todo`. A crash
or a refused foreign key ends a script; any script can be run again. Beside it the
back office may make, move or remove a category.

A row carries its id and its references and nothing else: the question is which
rows are there and what they point to. A column that the export does not select, or
that a creation does not write, is therefore not seen to be lost; section 4 names
those we found.

The database begins with any of `Contents`. Of these the module assumes what the
schema enforces (`ContentsFit`): a row points where its columns can, and every
foreign key leads to a row; and that no category is its own parent, which
`post-category.service.ts:91` refuses.

## 3. Runs

| Run (cfg) | Instance | Shows |
|---|---|---|
| rotation (OperatorRotation) | 3 operators, 2 calls | `NoOperatorTwice`, `OrderOfOthersKept` whatever the interleaving; `TurnsAreFair`, `NullOnlyWhenAllBusy` while calls come one at a time |
| chat_alone (ChatAlone) | 3 operators (one supervisor), 3 sessions, 1 handler, 7 requests | `NoIdleCapacity`, and the refinement `ServedInOrder` |
| chat_all (ChatAll) | 2 operators (one supervisor), 1 session, 2 handlers, 4 requests, every handler, failures and restarts | `AssignedIsStamped`, `SupervisorsByRestOnly` |
| chat_two (ChatTwo) | 1 operator, 3 sessions, 2 handlers, 4 requests (starts, rejoins, joins, replies and what follows), restarts | `QueuedHasCountdown`, `ActiveHasCountdown`, also after a restart once the visitor is back; `OvershootBounded`, twofold; `OverLimitUnawaresOnly`, `GreetedTwiceByMeetingOnly` |
| chat_ends (ChatEnds) | 1 operator, 2 sessions, 2 handlers, 3 requests | `EveryChatEnds` (liveness) |
| media (MediaLibrary) | two requests over two folders or a folder and a file; one at a time over four folders; 3 levels | `FilesKept`, `CircleNeedsCrossedMoves`, `TooDeepOnlyUnderAMove`, `EmptiedOfLatecomersOnly` |
| media_paths (MediaPaths) | the same, one request | *violated* `PathsFollowFolders`: a renamed folder's files cannot be downloaded |
| content (Content) | two requests; 2 menus and 3 items, or 2 pages, or 2 posts, with 2 slugs | `ShownUntilTouched`; `PageSlugsFindable`, `ReplacedTextsKept`, `PublishedOnPurpose`, `LinksStayRight`; `PostLosesByCrossingOnly` |
| menu_title (MenuTitle) | the same | *violated* `TitleKeepsItems`: a PATCH of a title deletes the sub-items |
| site (Site) | every two pages of 3 templates and 3 slugs in 2 languages, a post, any address; and 3 categories, 1 setting, 2 languages, 2 caching controllers with two requests each | `RedirectsSettle`, `PrintedPathsShow`; `TreeLosesByCrossingOnly`, `CachesCatchUp`, `OneDefault` |
| office (Office) | 2 users, 2 roles, 2 tabs, 2 administrators; 3 chats, 2 forms, an export in batches of 2; 2 triggers, a category, 2 responses (one while two requests write); 3 sockets, 2 chats, an operator | `SessionsKeepUpWithRights`, `SignedInStaysSignedIn`, `RoleLostByCrossingOnly`; `ExportLosesBySlipOnly`, `MailShownAsItWent`; `AutoMessagesCatchUp`, `ResponsesFollowCategory`; `ChatsFollowPages`, `PresenceFollowsTabs` |
| restore (Restore) | a row in each of 47 tables, two where rows hang from each other; or two menus with an item each; one crash, one category made, one moved or removed, one table not read | `RestoredAsExported`, `FreshIds` |

Many properties have the form "this is lost *only* by ...". The code does not hold
the plain promise when two requests cross at a certain point; the property says
that this point is the only one. A reader who closes the window can drop the
exception, and a change that opens another one fails the run.

What each of the two violated runs contradicts is quoted under "findings" in
`PROJECT.json`.

**Bounds.** Requests in the chat are bounded by `MaxRequests`, sessions by
`NumSessions`, handlers in flight by `Tasks`; elsewhere rows and ids by the `Max…`
constants and what is combined by the CONSTRAINT of the MC module, which says
in words what it lets meet. Two requests are the smallest number that
interleave, and every race found needs no more. Three sessions let a queue of two
stand behind one in service, so order and overtaking are visible; with limit 1 they
also exceed the twofold overshoot if the bound were wrong. Seven requests allow
start–start–join–close–start–close and one more, the whole life of a queue; four
are a start, a restart, a rejoin and a join that races it, or two starts and two
drains that count, or read the queue, at the same time. `ChatAll` has one session
because its properties are about single rows; the proofs remove all these bounds for
them. `ChatTwo` leaves out the requests under which a countdown property fails; the
two theorems about ChatCrossings cover all of them.
Three levels and four folders let a folder with sub-folders be moved too deep.
Two pages and two slugs let a page take what another gave up, and give it up again.
The site looks at two pages at most per decision (a section and the one it is
mistaken for), and two languages tell "the slug in another language" from "no slug".
Three categories make a circle of two below a root. In `Office` an export needs
three chats and batches of two so that a second batch begins after a row that may
have gone, and a third socket is what a page needs to come back twice. In `Restore`
every table has a row, so that every foreign key and every sequence counts, and two
rows where the order of rows could matter; the second database has the one order of
menu items that stops a restoring for good.

**Symmetry** is used in safety runs only, over what is interchangeable: operators
of one kind, requests, tabs, slugs that no template names. Ids carry age and are
not.

**Deadlock** is not checked where the system rests once its bounds are used up. In
the rotation run it is.

**Fairness** (`ChatEnds` only): weak fairness of each task's next step, because
the database answers; weak fairness of the warnings and strong fairness of the
two closes, because an armed Node timer fires. The closes need strong fairness
only since they take one of finitely many `Tasks`, which other handlers may
occupy again and again; the process has no such limit. Requests have no fairness:
visitors and operators need not do anything.

## 4. What the models say of the code

Found while modelling, beside the two runs that show a violation. None is stated
by a run of its own; each is an exception that a property names or a restriction
in a cfg, and dropping it gives the counterexample.

**Chat.** A sync puts newcomers at the head, so an operator who leaves and comes
back gets two chats in a row while another is free (`operator-rotation.service.ts:86`;
`docs/chat.md:96` says nobody does). With two handlers in flight: the limit is
exceeded (`chat.gateway.ts:496`, against `:107`), a session is greeted twice
(`:497`, against `:463`), the later of two replies takes the chat (`:1291`). With
one: a late message re-arms the countdown of a closed session, which closes it
again (`:1026`, against `:596`); a session claimed by opening has no countdown
(`:1260`, against `:476`); a supervisor's close or a raised limit leaves a visitor
waiting beside a free operator (`:1369`, against `:1218`); a command that fails
leaves a queued session without a countdown (`:955`). The comment at `:382` lets
supervisors claim by `operator:join_session`, line 1253 does not. Deleting a user
puts that user's open sessions back into the queue unseen. `startedAt` has a
precision of a second, so visitors of one second have no order; in the model age
is a total order.

**Presence.** An operator's `operator:join` is refused until the database has
answered `handleConnection`. Of several tabs only the last to join counts. The
grace timer of an old socket closes a chat that a new page is using, because
nobody cancels it (`:326`). Logout leaves the sockets identified.

**Archive and texts.** A chat found closed can be in the trash and open at once
(`chat.service.ts:285`), and reopening ignores the trash. An export skips a chat or
ends early if its cursor's row has left the history. Automatic messages can be
edited, given a category and deleted by routes that do not refresh the cache,
although the service means to forbid the last.

**Accounts.** Two tabs that refresh together, or a lost answer, sign the browser
out. An administrator's change of a password leaves sessions alive where a reset
ends them (`users.service.ts:130`). The comment at `auth.service.ts:315` expects
an expired access cookie at logout, which the cookie's `maxAge` has removed.

**Media and menus.** A folder can be moved so that what is below it is too deep;
two moves that cross make a circle, after which the walk never ends. The route
that reorders menu items is shadowed by `PATCH :menuId/items/:itemId`, which
refuses its path.

**Content.** Page parents are not checked for circles, and `getBreadcrumbs` walks
them. A slug cannot be given up twice (aliases are unique), so renaming a page
forth, back and forth again is refused for good. A post keeps a version of every
translation, changed or not. Posts' `getTranslatedSlug` answers for posts in the
trash.

**Site and caches.** The layout shows settings that are not public, and
`getPublicSettings` has no route. `CacheInterceptor` has one map per controller:
the public languages stay as they were for up to five minutes after the back
office has changed them, menus after a page was renamed, and any answer that was
read beside the write. Two overlapping saves of the chat configuration may cache
the older row.

**Restoring.** `seed-json-data.ts:3` says "Safe to re-run", but a category listed
before its parent stops every run at `:353`, before posts, menus and settings; an
item of an earlier menu below one of a later menu stops it at `:524`. The
chat scripts restore notifications with their ids after `:667` ("Must run last").
The export keeps what "a reset silently reverts" (`export-to-json.ts:195`), but only
a script for development restores it. A table that the export fails to read is left
out of the file, which replaces a complete one. `db-truncate` leaves the chat
configuration, programs, regions and the categories of responses. Restored chats are
out of the trash and have lost their mail's outcome. A second run takes grants given
since away but leaves memberships.

Columns are lost on the way, which the model of rows and references does not show;
read in the source: `deletedAt` of users is not exported (`export-to-json.ts:45-58`),
so a trashed account comes back live; `deletedAt` of media (`seed-json-data.ts:203-222`),
of page translations and of categories of responses (`seed-chat-data.ts:44-50`) is
exported and not written; responses lose `header`, `buttonText`, `fields`,
`requiredFields` and `deletedAt` (`:69-80`), their translations the first three
(`:86-105`); chats lose `assignedAt`, the comment of the rating, the fields of the
contact request and `deletedAt` (`seed-chat-dev-data.ts:87-107`).

## 5. Proofs

Eight modules, each checked by `tlapm` to the last leaf. `Spec` in the table is the
specification of the component, for every value of its constants: any number of
rows, requests in flight, users, tabs, and no bound on how often anything happens
but the `Max…` constants, which may be any natural number. (`MCContent`, `MCSite`
and `MCOffice` let a behaviour be about one of these components at a time; what a
theorem says of the component is what the run checks of it.)

| Theorem | Property | Component |
|---|---|---|
| `RotationTypeCorrect` | `TypeOK` | OperatorRotation |
| `RotationNoOperatorTwice` | `NoOperatorTwice` | |
| `RotationOrderKept` | `OrderOfOthersKept` | |
| `RotationTurnsAreFair` | `TurnsAreFair` | RotationTurns |
| `RotationNullWhenAllBusy` | `NullOnlyWhenAllBusy` | |
| `ChatTypeCorrect` | `TypeOK` | ChatGateway |
| `ChatAssignedIsStamped` | `AssignedIsStamped` | |
| `ChatSupervisorsByRestOnly` | `SupervisorsByRestOnly` | |
| `ChatOvershootBounded` (H) | `OvershootBounded` | |
| `ChatNoIdleCapacity` (H1) | `NoIdleCapacity` | |
| `ChatServedInOrder` (H1) | `ServedInOrder`: implements WaitingLine | |
| `ChatQueuedHasCountdown` (H) | `QueuedHasCountdown` | ChatCountdowns |
| `ChatActiveHasCountdown` (H) | `ActiveHasCountdown` | |
| `ChatOverLimitUnawaresOnly` | `OverLimitUnawaresOnly` | ChatCrossings |
| `ChatGreetedTwiceByMeetingOnly` | `GreetedTwiceByMeetingOnly` | |
| `OperatorsFollowTheirTabs` | `PresenceFollowsTabs` | ChatPresence |
| `AbandonedFollowsPages` | `ChatsFollowPages` | |
| `MailShown` | `MailShownAsItWent` | ChatArchive |
| `ExportComplete` | `ExportLosesBySlipOnly` | |
| `AutoMessagesRefreshed` | `AutoMessagesCatchUp` | CannedResponses |
| `ResponsesStayBelow` | `ResponsesFollowCategory` | |
| `SessionsFollowRights` | `SessionsKeepUpWithRights` | Accounts, Sessions |
| `RefreshCookieFits` | `SignedInStaysSignedIn` | |
| `RolesLostInTheWindow` | `RoleLostByCrossingOnly` | |
| `RowsKeepTheirFiles` | `FilesKept` | MediaLibrary |
| `LatecomersLoseTheirFolder` | `EmptiedOfLatecomersOnly` | |
| `WalksEndUnlessMovesCross` | `CircleNeedsCrossedMoves` | |
| `DepthOutgrownByMovesOnly` | `TooDeepOnlyUnderAMove` | |
| `PagesStayFindable` | `PageSlugsFindable` | Pages |
| `PagesKeepTexts` | `ReplacedTextsKept` | |
| `PagesPublishedOnPurpose` | `PublishedOnPurpose` | |
| `MenuLinksStayRight` | `LinksStayRight` | |
| `PostsLoseByCrossing` | `PostLosesByCrossingOnly` | Posts |
| `RedirectsEnd` | `RedirectsSettle` | Site |
| `PrintedAddressesShow` | `PrintedPathsShow` | |
| `MenusShowUntilTouched` | `ShownUntilTouched` | Menus |
| `TreeKeepsCategories` | `TreeLosesByCrossingOnly` | Categories |
| `LanguagesOneDefault` | `OneDefault` | Languages |
| `SiteCachesCatchUp` | `CachesCatchUp` | ResponseCache, Settings |
| `RestoreIsTyped` | `ScriptsInv` | Restore |
| `RestoredIdsAreFree` | `FreshIds` | |
| `RestoreGivesBackTheExport` | `RestoredAsExported` | |

The two type invariants and `ScriptsInv` are proved and not listed among the
properties of a run. With them every safety property of a passing run is proved.

**Assumptions.** The theorems hold for all constants that satisfy the ASSUMEs of the
modules, which TLC evaluates in every run: sets of operators, tasks and folders are
finite; bounds are natural numbers, limits, depths and batches at least 1;
supervisors are operators; the default language is a language; and the value that
stands for "nothing" (`Nobody`, `None`, `Null`) is none of the values it is told
from. Of the database that a restoring begins with is assumed what its schema
enforces and that no category is its own parent (`ContentsFit`), for any number of
rows in each table.

**Hypotheses** (H, H1 in the table). Five theorems about the chat speak of the
kinds of request (`Handlers`) under which the code keeps the promise, and H1, two of
them, of one handler in flight. They exclude no more than necessary: with any one of these kinds
added, TLC finds a counterexample.

| Theorem | Excluded requests | Also |
|---|---|---|
| `ChatOvershootBounded` | a new limit, claiming by opening, reopening, REST assign and reopen: they give a chat without counting | |
| `ChatQueuedHasCountdown` | REST reopen and assign, a failing command | inactivity and queue messages switched on |
| `ChatActiveHasCountdown` | the same, claiming by opening | inactivity messages switched on |
| `ChatNoIdleCapacity` | a new limit, a supervisor's close, reopening, the three REST requests, a failing command | one handler |
| `ChatServedInOrder` | the same, claiming by opening and by replying, which choose a chat themselves | one handler |

The `ChatQueued…` and `ChatActive…` theorems allow any number of handlers, and
restarts; so does `ChatOvershootBounded`, whose bound is one limit for each handler.
What several handlers in flight do to the limit and to the greeting is said without
any hypothesis by `ChatOverLimitUnawaresOnly` and `ChatGreetedTwiceByMeetingOnly`.
All other theorems are without hypotheses: where the code breaks a promise, the
property names the circumstance.

### The arguments

Hardly any of these properties is inductive. What a request has read is used
after others have written, so each proof rests on an invariant that says what every
request in flight *still knows*, place by place, and a lemma for each action.

**Rotation.** The lemmas give `Without` its meaning without recursion: `Rank` is a
bijection from the surviving places onto `1..n`, so the list left is injective,
has exactly the surviving members, and keeps their order. Duplicates are excluded
because the newcomers, injective by themselves, are removed from the old list in
the same MULTI that pushes them. The read before it may be stale; the proof uses
nothing of it, which is why the race the comment in `sync` describes is harmless.
For fairness (`TurnsInv`, while calls come one at a time) whoever was passed over
stands before whoever was picked instead (`PickedAreBehind`), and a call that
rotates has all candidates within the hops it has left (`KnowsTheLine`).

**Chat.** `IInv` says of each task which session or operator it works for, that
whoever it is about to assign is no supervisor unless it is the REST assignment,
and that the row it saw in `Stamp` has no more stamps than the row now. No step
takes a stamp away, so the others keep what they know (`TaskOKLater`). If the row
seen had no stamp, `Assign` writes one; if it had one, so has the row.

**Chat queue.** On top of it two invariants that all need, which rows exist
(`KnownInv`) and which handler can be at which place (`RolesInv`), and one for each
promise:
`LimitInv`: the chats of an operator and the handlers that have counted room for
that operator are together a limit a handler at most, so a handler that assigns
turns one of the second kind into one of the first.
`CountdownInv`: an open session has its countdown, or the handler that is going to
start it (`Carries`, `Brings`), or was forgotten by a restart.
`CountsInv`: what a handler goes by, the operators it found to have room or the
number a drain keeps, is still so, unless `overtaken` says otherwise: every other
step that adds to an operator's chats puts the pair there.
`GreetedInv`: the greetings a session has had and the handlers that have it in hand
are together one at most until two have met over it, and then each handler has one
greeting to give.
`FairInv`: somebody waits beside room (`Spare`) only while the handler in flight is
about to fill it (`Excused`), and what that handler has read is so (`LineOK`). From
the same `LineOK` every step of the gateway is a step of WaitingLine or leaves line
and served alone, which is the refinement.

**Presence.** A socket that counts for an operator is there and the operator's
(`TabsAreThere`); an operator whose timer runs has no tab (`LeavingHaveNoTab`); and
of each handler that still runs, what it will register (`HandlersKnow`).

**Archive.** As long as the forms of a chat do not cross, the one in flight is not
yet answered (`FormsAlone`) and what was answered is shown. An export that nothing
slipped under has each chat that the cursor has passed in exactly one batch
(`BatchesOnce`).

**Canned responses.** A cached message is the table's, or some request is going to
refresh it or to read it again (`Mends`); what a request is about to translate is
still the row of its trigger (`WritersKnow`).

**Accounts.** Every write of rights leaves its request about to end the sessions it
touches, and a session that escapes that, written back by a refresh or left by a
failing second command, carries the mark (`AccountsInv`). The browser's invariant counts answers: while nothing is `apart`
one request is in flight, and its answer, if there is one, fits what the user's row
holds (`AnswerFits`, `CookieFits`).

**Media.** An id given out has its file or has been purged (`FilesInv`); what a
folder being deleted still holds came late (`LateInv`). That a tree has no circle
is said without recursion: there is a rank that grows from every folder to its
parent (`Forest`). A move that has been checked keeps the two folders apart
(`MovesKnow`), and the checked depth its level (`DepthsKnown`), as long as no move
crosses; a new rank is then built from the old one.

**Pages and posts.** A slug that a page has had is in the page still or its alias
leads there (`HeldKept`): a PATCH writes row and alias in one transaction, and is
refused when the alias is another's. An update that nobody crossed has
seen the text it replaces, and by the time it writes that text is among the
versions (`EditorKnows`); one that will publish unasked found the page published
(`FlagKnows`). For posts the versions are those of what was seen
(`PostEditorKnows`).

**Site.** An address that redirects leads to one that answers (`OneLeft`, `Quiet`),
except that of a post in another language, whose section is settled one hop later.
`VisitOK` puts them beside the count of hops. Both speak of the tables, which rest
from the visitor's first address on: the editors make the site before (`MakeSite`),
and an edit between two hops may cost another hop. That the printed address of a
post shows the post needs its slug to be the only one of its language
(`PostSlugsUnique`), which the invariant carries.

**Menus.** The invariant is short: what a save will delete or rewrite are items of
its own menu (`MenuEditOK`). The work is in the property: `Shown` is a walk from the
top level, level by level. The line of a shown item, the items above it, lies within
its menu (`LineOfShown`), and if a step touches none of them each is still reached
at its level (`ShownStays`).

**Categories and languages.** A walk that nobody crossed has met everything between
the new parent and where it stands (`WalkKnows`), so at the root the category itself
is not above. Of two requests about the default only one is undisturbed, and it
knows the default (`Undisturbed`).

**Caches.** A reader holds what the tables say or was crossed; an entry is what the
tables say, or was stored beside a write, or another controller has changed them
since, or (settings) somebody has still to empty the cache.

**Restoring.** The commands are a set, so what a script does next is said without
induction: a command that is done comes before every command that is not (`TodoInv`),
and what its place says of the two decides the rest. Three layers of lemmas lead up
to it. *What the scripts consist of*: every row of the file has its making command
(`HasAll`), whatever a row points to is made before it (`Supplied`) or
brought by a second pass, every command that creates without looking comes after
those that make room for it (`Clearing`), and no command of the scripts is anything
else (`SeedKind`, `ChatKind`). *What commands make of the database*: they keep the
foreign keys, and a deletion leaves all rows but those that go and what belongs to
them. *The
invariants*: `FreshInv` says that a sequence that the run has set is above every
row of its table, and that nothing but the back office, which raises the sequence
with each row, adds rows after that. `HistoryInv` is about the time in which the
database is only moved by scripts (`before # None`): the file is the export or will
be it (`ExportInv`); each row that is there is the file's row, columns of the second
pass apart, and no row is missing where no script empties (`Keeps`); each command
that the running script has done has been brought into the database and what it
brought stays, and the tables of a script that has ended well are back (`FileInv`,
`DoneInv`). A refused command then has, by elimination, one of the two reasons that
`ParentComesLater` names. db-truncate empties what points to a table before the
table itself (`CleanInv`, `Clears`): no row is deleted from under another, and a
reference is cleared only in a column that a second pass writes again.

**Induction.** The library's induction theorems take an operator as parameter, which
the provers cannot instantiate. Where a proof needs induction over a number (levels
of a tree, places of a list, hops of a walk), it takes the least counterexample of a
*set* of numbers, for which the theorems on well-founded sets need no operator.

### Model-checked only

- `EveryChatEnds`: liveness under fairness, which needs ENABLED.
- What the two violated runs contradict.

## 6. Not modelled

Texts, labels, blocks, meta fields, order and flags that no decision depends on are
left out of every module; each module's header says which. Whole components left
out, with the reason:

- *Reports*: reads. They count chats in the trash, which the history hides.
  The correction of the time zone (`timezone.util.ts:18`, "Correct across DST
  transitions too") is arithmetic over a calendar.
- *Programs, regions, direct messages, audit log, notifications*: each operation
  is a single command.
- *Block types and page templates*: a unique key, which the database decides.
- *Socket guards, rate limiter*: one array per socket, touched by that socket's
  messages only, in one synchronous call.
- *Framework glue*: filters, guards, pagination, logging, the Prisma service.
- *The rest of the seed scripts*: fixed rows upserted by key.
- Of the gateway: notes, ratings, read marks, typing. Of pages: parents and
  breadcrumbs, the home page. Of the site: related posts, media.

## 7. Plan

The models are complete as far as section 6 says. What is left to prove:

1. The chat theorems that still have a hypothesis, with an excluded request admitted
   again and its exception stated in the property, as the limit and the greeting have
   it; the countdown theorems first, where a claim by opening could be named, then
   the queue's order with a start that overtakes beside a drain.
2. That the posts keep leading from a slug that was given up, which the pages do
   (`PagesStayFindable`): posts write aliases from an older read, so it needs an
   exception first.
