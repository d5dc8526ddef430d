# A verification project for the UW Orbital ground station

TLA+ modules for the parts of this repository in which concurrency, failure and
ordering decide whether the program is right, the TLC runs that check them on
small instances, and the TLAPS proofs that hold for every instance.

## 1. The system

The ground station is four programs around one Postgres database.

* **Backend** (`src/backend`, FastAPI). Two APIs: `aro` for amateur radio
  operators who request pictures, `mcc` for mission control. One asyncio event
  loop; every repository call opens a database session of its own and commits it
  (`data/repositories/`), so a handler that makes three repository calls is three
  transactions, and handlers of concurrent requests interleave between them.
* **Frontends** (`src/frontend/aro`, `src/frontend/mcc`, React). The ARO client
  keeps an access token in memory and a refresh token in a cookie.
* **State manager** (`src/state-manager`, Go). A state machine for the radio
  session, a database layer for commands and sessions, and `obc_gs_interface` (C
  and Python): AX.25 framing, command and telemetry packing.
* **External**: Postgres, Keycloak, fastapi-users, the satellite.

### Inventory

| Component | State | Operations | What is hard | What makes it correct |
|---|---|---|---|---|
| ARO refresh-token sessions (`aro_session.py`, `routes/auth.py`, `delete_user`) | rows of `auth_tokens` (family, user, rotated, revoked, expiry), users, logins | login, rotate, logout, reuse revocation, delete a user, expiry | read, claim and insert of a rotation are three transactions; a logout, another rotation or a deletion runs between them; a handler dies half way; a response is lost | a session is a chain with one current token; the alarm is justified; a dead session stays dead |
| Database log sink (`db_log_sink.py`, `lifespan.py`) | scheduled callbacks, bounded queue, consumer task, batch | log, enqueue, take, write a batch, retry row by row, start, stop | threads against the event loop, a full queue, commits that fail, the sentinel against late records | order, no duplicates, every record accounted for, the stop flushes and returns |
| ARO accounts (`adapter.py`, `manager.py`, `routes/user.py`) | `users_data` and `user_login`, mailed tokens, picture requests that refer to a user | register, verify, reset a password, create, delete | two tables in separate transactions, a check for a free e-mail that is a transaction of its own, tokens that outlive what they were mailed for | who was told that the registration worked has a working account; an account without a login has a known cause; a token proves what it is taken for |
| ARO browser client (`apiClient.ts`, hooks) | access token in memory, shared cookie, refresh in flight | fetch with refresh, login, logout | tabs share the cookie but not the single-flight guard, lost responses, a logout racing a refresh | no rotation is presented twice by one tab; a logout sticks |
| MCC command scheduling (`routes/commands.py`, `scheduling.py`, Go `crud.go`) | commands, sessions, clock | create, update, delete, list, the state manager's reads and status changes | the lockout is checked in one transaction and the write is another | no command of a session changes once the session is locked; final statuses are final |
| MCC admins and users (`routes/admin.py`, `users.py`, `mcc_keycloak`) | users' request status and profile, Keycloak roles and accounts | request, approve, reject, update, delete | two stores without a common transaction | role and status agree, profile and account agree, what is deleted stays so |
| ARO picture requests (`picture_requests.py`) | requests and packets | create, list by pages, download, delete | the check of ownership and window is apart from the delete; a packet that goes takes its request along; pages are offsets into a table that changes | what a deletion removes was its owner's and open; a download does not miss a packet that is listed; what a walk misses is bounded |
| State machine (`state_machine.go`, `uart.go`) | the current state | one transition per event | unexpected events, a state without a way out | nothing is sent up outside an accepted contact; one contact ends before the next begins |
| AX.25 and command framing (`command_utils.py`, `encode_decode.py`, Python `ax25`, `fec`, `aes128`, `commands`) | bytes on the line, frames, blocks of commands | type, make, pack and unpack commands; encrypt, encode and stuff frames and undo it; one exchange over the port; the poll thread | late answers, damaged and torn frames, stripped zeros, numbers that do not fit, blocks that are full to the last byte | what is read is what was sent, or it is refused; an answer belongs to its command |
| Telemetry, AES and Reed-Solomon as algorithms, middlewares, UI | | | vendored or generated code, input and output | not modelled |

## 2. Modules

| Module | What it is |
|---|---|
| `AuthSession` | what one login promises: the abstract specification of a session |
| `RefreshTokens` | the ARO session code, one action per transaction |
| `MCRefreshTokens` | its instances for TLC |
| `RefreshTokensProofs` | its theorems |
| `AroClient` | the browser tabs in front of `RefreshTokens`, which it extends: network, cookie, authFetch |
| `MCAroClient`, `AroClientProofs` | its instances for TLC, its theorems |
| `DbLogSink` | the log sink, one action per stretch of event-loop code without an await |
| `MCDbLogSink`, `DbLogSinkProofs` | its instances for TLC, its theorems |
| `AroAccounts` | accounts in two tables, one action per transaction, and the mails |
| `MCAroAccounts`, `AroAccountsProofs` | its instances for TLC, its theorems |
| `PictureRequests` | picture requests, their packets, and a walk through the pages |
| `MCPictureRequests`, `PictureRequestsProofs` | its instance for TLC, its theorems |
| `MccAdmin` | mission control's users and admins in Postgres and Keycloak, one action per transaction or call |
| `MccProfile` | one user's profile in the two stores |
| `MissionControl`, `MCMccAdmin`, `MissionControlProofs` | the two side by side; their instance for TLC; the theorems of the three |
| `CommandScheduling` | the commands of a session, its lockout, and the state manager's status changes |
| `MCCommandScheduling`, `CommandSchedulingProofs` | its instances for TLC, its theorems |
| `GsContact` | what a contact with the satellite promises: the abstract specification of the state machine |
| `GsStateMachine` | `SwitchState` |
| `CommandCodec` | pure: a command from what is typed to the bytes of a block and back |
| `CommandUplink` | batches of commands through the codec |
| `GroundLink` | the exchange with the board over the serial port, and the poll thread |
| `Ax25Framing` | frames bit by bit: stuffing, padding, stripping, unstuffing |
| `FramePipeline` | encryption, error correction and checksum of a frame that is damaged on its way |
| `GroundStation`, `MCGroundStation`, `GroundStationProofs` | the parts of the state manager side by side; their instance for TLC; the theorems of all of them |

In each module the operators whose comment begins with "Mutant" are not part of
the model. They are plausible mistakes in the code, each next to the operator it
distorts, and are what a property has to be able to notice.

### 2.1 `RefreshTokens`

*State.* `rows` is the `auth_tokens` table; a token stands for its raw value, its
hash and its row. `rotated`, `revoked` and `expired` are the columns `rotated_at`,
`revoked_at` and `expiry < now`. `accounts` and `logins` are `users_data` and
`user_login`. A request being handled is a slot `r` with a program counter
`pc[r]`, the token it was sent and the user it acts for; a slot is free again
when the handler returns or raises. `held` is what clients have received. The
history variables `issued`, `parent`, `shown`, `alarmed` and `loggedOut` are only
read by properties and by the supply of fresh tokens.

*Actions.*

| Code | Actions |
|---|---|
| `login` | `Authenticate`, then `LoginIssue` |
| `rotate_tokens` | `RotateRead` (the checks), `RotateClaim` (the conditional UPDATE), `RotateIssue` (the INSERT), `RotateUser` (the read of the user and the response) |
| reuse and `logout` | `RotateRead` or `LogoutRead`, then `RevokeFamily` |
| `delete_user` | `DeleteTokens`, `DeleteLogins`, `DeleteUser` |
| time, failure | `Expire`, `Abort` (the handler dies before its next transaction), a response that may not reach the client |

Foreign keys are those of the models (`user_id`, no cascade): an insert for a
user who is gone and a deletion of a user who is still referenced fail. A request
whose checks fail without a write answers 401 and leaves only its trace in
`shown`. `is_active` is constantly true: no code sets it.

*Why the refinement matters.* `AuthSession` knows four phases. The mapping calls a
family open while one of its rows is usable, renewing while it has none but a
rotation is past its checks, and dead otherwise. That dead is final says that a
revoked, expired or deleted session can only ever be continued by a rotation that
had already passed its checks, and that the token handed out next is a new one.

### 2.2 `AroClient`

*Composition.* The server is `RefreshTokens`, its actions unchanged. A client
request occupies one of the server's slots from the moment it is sent, with the
cookie of that moment, until JavaScript has read the body of its response:
`sent`, `serving` (exactly while `pc[r]` is not idle), `answered` (the headers are
on their way), `body`. Tabs share the cookie; the access token
(`store`) and the promise `refreshInFlight` belong to one tab.

*State of a call.* `restoring` (authFetch found no token), `checking`
(fetchCurrentUser found none), `out`, `renewing` (after a 401), `last` (the send
whose 401 is not retried), `denied` (that 401 on its way to the caller).

*Actions.* `Serve`, `Work` and `Lose` are the server and the network, `Headers` the
browser's cookie store, `Fetch`, `Answer`, `Denied` and `Settle` the stretches of
JavaScript between awaits, `Login` and `Logout` the two forms. A 401 that reaches
`parseOrThrow` loads the login page, which is `Unload`: the memory of the tab is
gone and its requests go on without it. `severed` records that a rotation was
claimed and its new cookie did not reach the page that asked for it.

An access token is named by the refresh token it was issued with; the server is
the judge of its expiry, so a lapsed token may be answered 401, and one whose
answer was made before it lapsed may not be.

### 2.3 `DbLogSink`

*State.* `ready` are the `_enqueue` callbacks the loop has scheduled, `queue` the
asyncio queue with `Sentinel` in it, `consumer` and `batch` the consumer task,
`stage` the life of the module's globals, `written` the rows of `logs.api`.
`content` gives each record what is odd about it: characters and numbers that the
table does not take, texts that are too long, a level that is filtered.

*Conversion.* `DbSinkFilter`, `SanitizeText`, `Clamp`, `JsonSafe` and `RecordToRow`
say which of these the code mends; `Takes` is what the columns of `APILog` accept.
A row is `Unwritable` when the two disagree.

*Actions.* `Sink` (any thread), `Enqueue`, `Take` (the `get` and the `get_nowait`
loop, between which there is no await), `WriteBatch`, `WriteRow` (one turn of the
fallback's loop), `Start`, `Stop`, `StopPut`, `StopFinish`. `Stop` puts the
sentinel in the same step if the queue has room and otherwise waits for it, in
competition with callbacks that were scheduled earlier. A commit is stored, is
rolled back, or is stored although it raised.

### 2.4 `MccAdmin`

*State.* `status` is `admin_request_status` of the `users_data` row (`"absent"`
without one), `accounts` and `group` are Keycloak's accounts and admin group,
`tokens` the access tokens in cookies, each with the role it was issued with. A
request is a slot with `pc`, `subject` and `choice`. `asked` is history.

*Actions.*

| Code | Actions |
|---|---|
| `auth_token_callback`, `logout` | `Exchange` (Keycloak's answer, with the role of that moment), `Provision` (insert unless the row exists, set the cookies); `Forget` |
| `request_admin_access` | `RequestRead` (the dependency reads the row), `RequestWrite` |
| `decide_admin_applicant` | `DecideAuthorise` (the role in the token), `DecideRead`, `Grant` (Keycloak), `Record` (the row) |
| `delete_me` | `DeleteBegin`, `DeleteRow`, `DeleteSync` (Keycloak) |

A call to Keycloak may fail before or after it took effect; a handler may die
between any two steps. `repository.update` raises when the row is gone. The order
of `Grant` and `Record` is the point of the comment at `admin.py:82`.

### 2.5 `CommandScheduling`

*State.* `session`, `content` and `status` are the columns of a command
(`session[c] = NoSession` without a row), `now` the clock, `Start[s]` the start of
a session. A request is a slot with what it read and what it will write.

*Actions.* `CreateCheck` and `CreateWrite` are `create_command`; `ChangeRead`,
`ChangeCheck` and `ChangeWrite` are `update_command` and `delete_command`, which
read the command, read its session and look at the clock, and write, in three
transactions. `UpdateCommandStatus` is the Go function; the loop that will call it
is not written (`main.go` only sleeps), so it may run at any time with any
arguments. `Tick` and `Abort` are time and a handler that dies. No code creates,
moves or deletes a session: `Start` is a constant.

### 2.6 `MccProfile` and `MissionControl`

*State.* `row` and `account` are one user's profile in Postgres and in Keycloak.
An update is a slot with its next step and the fields it was sent; `mixed` and
`astray` are history. *Actions.* `UpdateBegin`, `UpdateRow` (every field is
written, the ones that were left out as NULL, which the column of the e-mail
refuses), `UpdateSync` (the call to Keycloak, which may fail with or without
effect) and `UpdateAbort`. `MissionControl` runs `MccAdmin` and `MccProfile` one
at a time: they share no variable and no handler, so every property of the
variables of one of them holds of all interleavings when it holds of those in
which the other stands still.

### 2.7 `AroAccounts`

*State.* `users` and `login` are `users_data` and `user_login`, `verified` the
column `is_verified`, `orders` the users with a row in `aro_requests`. Tokens of
fastapi-users are signed and not stored: a reset token names an account and its
password hash, a verification token an account and an address, and both are in
`resetMail` and `verifyMail` from the moment they are mailed, for good (they may
be used late, twice or never).

*Actions.* Every route of the library begins with `LoadUser` and `LoadLogin`, the
two reads of the adapter, and goes on with `InsertUser` and `InsertLogin`
(register), `SendReset` or `SendVerification`, or `Update` (reset, verify).
`CreateUser` is the superuser's route, which writes one table only. `DeleteTokens`,
`DeleteLogins` and `DeleteUser` are `delete_user`; the last fails while a picture
request refers to the user (`Ordered`), because `aro_id` may not be NULL. `Order`
and `Withdraw` are the routes of the picture requests as far as accounts see
them, `Abort` a handler that dies.

### 2.8 `PictureRequests`

*State.* `rows`, `owner`, `made` (the order of `created_on`), `pending`, `lapsed`
(the deadline has passed), `packets` and `packet` are the tables. A slot is a
request being handled. `walk` is a user who follows the "next" links of the list;
its `missed` and `removed` are history.

*Actions.* `Stamp` and `Insert` are the creation (the time is taken before the
insert, so rows can appear behind newer ones), `ArriveDelete`, `CheckDelete` and
`Delete` the deletion, `ReadRequest` and `Download` the download, `FirstPage` and
`NextPage` the list. `LeavePending`, `AttachPacket` and `DropPacket` stand for the
programs that take and transmit pictures, which are not in the repository.

### 2.9 The state manager

`GsStateMachine` is `SwitchState` with all its states and events; nothing raises
the events yet, so any event may come at any time. `GsContact` knows a contact
only by its phase (none, opening, accepted, up, closing, failed) and mode.

`CommandCodec` has one operator per function: what `argparse` lets through
(`Args`: options that convert to numbers), the factories with their ranges and
their wrapping fields (`% Octet`, `% Word`), packing, filling up, and unpacking
from block to commands. A packed command is the sequence of its bytes `<<m, i>>`;
the sizes are those of the C packers. `CommandUplink` types one command or makes
a batch, packs and unpacks.

`GroundLink` keeps what was received as pieces. An answer is `Chunks` pieces, of
which those of a frame have a flag at its two ends only; text of other tasks comes
between answers, and a piece of it, or of an answer without a frame, may hold a
flag by chance. `board` are the frames it may yet answer, `half` the answer it is
in the middle of; it answers late, in a frame or raw, or never.

`SendCommand`, `Write`, `Gather` and `Read` are the parts of `send_command` between
the calls of the port; `SendConnRequest` shares the last three. `ser.read` returns
what is there and waits for nothing, so `Gather` runs any number of times (more than
once only with a timeout) or not at all; what is in no read is dropped when the
port is closed and nobody else has it open. `Outcomes` is what the call makes of the
bytes: between the first flag and the last a frame or nothing, and without a flag
an answer, of whatever the bytes are. Of those only the first is followed
(`FirstByte`), which is all that `unpackCmdResponse` looks at: the id of an answer
that begins there, one of `Strays` in a text or in the rest of an answer, and zero
if nothing was read. `PollStart`, `PollGather`, `PollTurn` and `PollStop` are the
thread that reads the same port and takes any piece from under a call. `got` is what
a call returned in the last step, with the frame it is the whole answer of, if it
is one.

`Ax25Framing` is bit-exact, with short bytes. `FramePipeline` treats a part of a
frame as its value and the number of its damaged bytes; `CommandPackaging` is a
second, textually identical copy of `CommsPipeline`, to which its map points.

`GroundStation` puts the five (uplink, link, pipeline, framing and state machine)
beside each other. They share no variable and the
code does not call from one to the other yet, so each runs while the others
stand at their beginning, as in `MissionControl`.

## 3. Runs

| Run | Instance | Question and answer |
|---|---|---|
| `tokens_race` | 1 user, 1 family, 3 tokens, 3 requests | Do concurrent rotations, logouts, expiry, deletions and dying handlers keep a session a chain (`NoFork`, `OneUnrotated`), the alarm justified (`NoFalseAlarm`), and an `AuthSession`? Yes. Can a deletion leave a token or login row without its user (`NoOrphans`)? No. |
| `tokens_escape` | 1 user, 1 family, 3 tokens, 2 requests | Does a revocation kill every descendant of the login, as `revoke_family` says? No: see below. |
| `client_one_tab` | 1 tab, 2 users, 2 calls, 2 slots, 2 tokens, 2 families, crashes, reloads | Can one tab raise the reuse alarm against itself, or lose its session, whatever calls, logins and logouts overlap? Only when a rotation is severed from its page (`AlarmOnlyIfSevered`, `KeepsSession`); the promise of a refresh is there exactly while one is under way, so no waiting call is left behind and none is refreshed twice (`WaitersAreServed`). No session crosses from one user of the browser to the other (`OneOwner`). |
| `client_settles` | 1 tab, 1 call, expiry | Does every `authFetch` come to an end? Yes. |
| `sink_outage` | 5 records, of which 2 are unwritable and 1 is filtered, batches of 2, queue of 2 | With commits that fail or lose their answer: order, duplicates, accounting, the flush at the stop, the stop's return, and until the first outage only an offending row lost. All hold; a row is stored twice only after a lost answer, never three times. |
| `mcc_faults` | an admin, an applicant, 3 requests, a profile with 2 updates at once, failing calls, dying handlers | Is whoever is approved in the group (`ApprovedIsAdmin`), whoever is in the group one who asked (`Solicited`), a deletion final (`DeletionIsFinal`)? Do the two stores of a profile agree (`StoresAgree`)? Yes, the last after an update that went through by itself. |
| `commands_lockout` | 2 sessions locked out at 1 and 2, 2 commands, 2 contents, 2 requests | What does the lockout guarantee? Once the requests checked before it have ended, the plan of the session never changes again (`FrozenOnceDrained`). |
| `accounts` | 2 ids, 1 e-mail, 2 requests, 3 hashes to an account | Does a registration that was answered work (`RegistrationTakes`)? Why can an account be without a login (`StrandedHasCause`)? Does being verified mean that a token of this very account reached its address (`VerifiedOwnsMail`)? Is a reset token good once (`ResetTokenIsSpent`)? Yes to all, for one known list of causes. |
| `accounts_delete` | the same | Do picture requests survive the deletion of their owner? No: see below. |
| `pictures` | 2 users, 3 pictures, 1 packet, pages of 1, 2 requests | What can a deletion remove (`OwnerDeletesOnlyOpen`), what does a download find (`DownloadFindsPacket`), what does a walk miss (`RemovalHidesOne`)? |
| `station` | see below | Do answers belong to their command (`AnswersMatch`), is what was typed executed (`TypedIsExecuted`), do blocks give back what was packed (`BlocksUnpack`), do frames survive the stuffing (`FramesSurvive`, `FlagsDelimit`) and damage (`OnlyDataIsCorrected`), and does the machine keep to a contact (`UplinkAcknowledged`, `ImplementsContact`)? Yes, with the exceptions the properties name. |
| `station_reply` | as `station` | Does `send_command` return an answer only if there was one, as it says? No: see below. |

Several properties name an exception, and are exact about it; the exceptions are
things the code does and a reader should know:

* `TypedIsExecuted`: a command whose argument was left out takes the time of `-t`
  for its argument and is executed at once; a time that is not positive is packed
  as a (wrapped) time while `send_command` waits for an answer as if there were
  none.
* `FramesSurvive`: an information frame of which the padding and a byte of zeros
  more were stripped, and a control frame with a stuffed zero in it, do not come
  back as they were sent (the checksum refuses them).
* `OnlyDataIsCorrected`: Reed-Solomon repairs the data only; a damaged byte of the
  header, the parity or the checksum costs the frame.
* `AnswersMatch`: the answer may be that of an earlier command, if the board had not
  begun to give it when the call opened the port. It is about whole answers, in a
  frame or without one; what is made of anything else is the subject of
  `DecodedOrNone`.
* `NoDuplicates`: a row is stored twice when the commit of its batch took effect
  and raised.
* `OnlyOffendersLost`: what the conversion does not mend are characters without an
  encoding (lone surrogates) and floats that are not finite.
* `StoresAgree`: an update that failed half way, or overlapped another, leaves the
  stores apart until one goes through by itself.

*Bounds.* The pool of tokens bounds the chain: with three tokens a session is
rotated twice, so a token can have a rotated parent and a rotated child, and with
three requests two rotations can race while a third party logs out or deletes the
user. `TokenLeft` and `FamilyLeft` are the only bounds in guards: a request that
will insert a row starts only while the pool covers it. Slots are used again
without limit, so histories of requests are unbounded. `shown` counts to two
because nothing asks for more. For the sink, a queue as long as the batch and one
that is shorter than the number of records give a full queue, a sentinel at the
head, inside and right behind a batch, and records that come late.

In the client runs the pool covers a login and a rotation of it, or two logins, of
one user or, in `client_one_tab`, of two;
when it is used up a request can only be lost, which the network may do anyway,
so no call waits for the bound. `MaySend` keeps one slot for a refresh and one
form in flight per tab.

In `commands_lockout` the clock goes past the second lockout, so that one session
is frozen while the other is still open; commands are created while the pool
lasts. Three requests in `mcc_faults` are an approval, a rejection and a deletion
at once, and there is no bound besides.

In the account runs two ids and one address let an account go, its address be
taken by another, and tokens of the first come late; `IdLeft` keeps the pool from
blocking a request that is under way, and `MaxHash` allows two password resets of
an account. Two requests are every pair of routes at once. Three pictures and
pages of one make a walk of three pages in which rows come and go before, at and
behind the reader.

In `station` the widths are scaled down and keep what matters: two values to an
octet, three to a half word, four to a word, so that numbers from -1 to 5 are too
small, in range, and too large; blocks of 15 bytes, which hold three of the
shortest commands exactly but for the byte that is not used, and batches of four;
bytes of five bits with a zero stuffed after two ones (`Width = Run + 3`, as 8 and
5 are), frames of three bytes and of two, every one of them; three damaged bytes,
of which two can be corrected. On the line, two frames, so that the first can be
answered during the second call; answers of three pieces, so that a frame has a
piece without a flag; room for four pieces, which is an answer and one piece before
or behind it; and two strays, one that is the id of a command (10, the newline) and
one that is of none (13). The commands are one with data in its answer, one that
never looks at its answer (reset) and a time-tagged one. The machine is finite as it
is.

*Symmetry* is used in the runs that check safety only. `mcc_faults` does not check
deadlock: the system stops when every account is deleted.

*Fairness.* The token module has none: nothing obliges a client to call, and a
handler may die. In `AroClient` a request arrives or its loss is noticed (a broken
connection rejects the promise of `fetch`), a handler goes on or dies, and the
event loop of the page runs what is ready; users and expiry are not fair. In the
sink the event loop runs every callback and task that can run, and every
transaction ends; logging and stopping are not fair. All others assume none: a
handler may die at any await, the board need not answer, the radio need not
deliver, and nothing raises the machine's events, so nothing there has to happen.

### What the violations show

* `tokens_escape`. A rotation reads a usable row; a logout (or the reuse alarm)
  revokes the rows the family has at that moment; the rotation claims its row all
  the same, since `claim_rotation` only asks for `rotated_at IS NULL`, and inserts
  a successor that is not revoked. If the claim came first and only the insert
  comes late, the same happens. `revoke_family` and `revoke_token` say that every
  token descended from the login is invalidated. What does hold is in
  `tokens_race`: only a rotation that was already past its checks can do this, at
  most one usable token results, and without one the session is dead for good.
* `accounts_delete`. The foreign key of a picture request to its user is
  `ON DELETE SET NULL`, "We want to maintain the request", over a column that is
  NOT NULL. The third transaction of `delete_user` fails for whoever ordered a
  picture, and the first two have already deleted the tokens and the login: the
  account cannot log in, its e-mail cannot be registered, and deleting it again
  fails again.
* `station_reply`. `send_command` promises "a decoded frame if command is valid and
  has a response else None". Bytes without a flag are returned as an answer if the
  first is below the number of commands: none at all (an answer of
  `CMD_END_OF_FRAME`, which is what the default timeout of 0 comes to when the board
  has not answered yet), a text that begins with a newline, the middle of a frame, or an
  answer without a frame of which the end, or the beginning, is in another read.

Seen while modelling and not the subject of a run of their own:

* Two tabs share the refresh cookie and not `refreshInFlight`, although
  `refreshAccessToken` says that two parallel rotations must never be sent; the
  later one raises the reuse alarm and logs both tabs out.
* `delete_picture_request` raises "if the request is no longer in a deletable state",
  which it asks of the row as it read it; `delete_by_id` then deletes the row as it
  is. A picture that is scheduled in between is deleted, and no error is raised.
* A logout does not wait for a refresh that is under way, whose answer then stores
  an access token in the tab again.
* An approval and a rejection of one request overlap, the approval grants the role
  and the rejection writes last: rejected, with the role. The disagreement the
  comment in `admin.py` guards against, approved without the role, is excluded by
  `ApprovedIsAdmin`.
* `assert_not_locked_out` says that scheduling is frozen, and is asked before the
  transaction that writes: a request checked just before the lockout writes within
  it, however late. `update_command` sets any status over any other.
* The answer to the deletion of a picture request carries a "delete" link for the
  request that is gone; `update_me` answers with the profile of before.
* `callsign_2fa.py` updates a field `callsign`; the column is `call_sign`.
* The poll thread ends at a frame that is torn over two reads, or at bytes that are
  no text. `send_conn_request` returns None where its comment promises an
  IndexError. Frames that were sent are encrypted, frames that are received are
  never decrypted. `pack_command_response` calls a function that the library does
  not have.
* `get_most_recent_by_type` and `get_latest` do not order by a time.

## 4. Proofs

Everything here holds for every value of the constants, under the assumptions
named in the modules: null values are not members of the sets they are null in,
bounds are numbers, and the widths of the codec and of the framing are positive
(`CodecAssumption`, `FramingAssumption`), since nothing can be reduced modulo, or
divided into bytes of, zero. The bounds of the guards are never used.

`RefreshTokensProofs`.

* `TypeCorrect`. The types are inductive together with `TokensKnown`: a request
  past its first read refers to an issued token.
* `ChainCorrect`, with `SessionsDoNotFork` and `OneUnrotatedRow`. `NoFork` alone is
  not inductive: the insert of a rotation must find its token childless, hence no
  second request may be between claim and insert for the same family
  (`OneRotation`), and a token may have no child before its claim
  (`UnspentChildless`). The claim establishes both because the row it rotates is
  the only unrotated one of the family (`OneUnrotated`), and a family with a claimed
  rotation has none. All other steps only shrink the unrotated rows
  (`ChainShrinks`).
* `FamilyHasOneOwner`, `NoOrphanRows` and `AlarmIsJustified` are inductive over the
  types; the last needs that a rotated row was presented before (`AlarmInv`).
* `TableImplementsSession` is the refinement of `AuthSession`, for each family: every
  transaction is a login, the claim or the insert of a rotation, or the end of the
  one session it concerns, and a stutter of all others. It rests on the chain
  invariant, without which an open family could have a second usable row.

`AroClientProofs`.

* `ClientsRunOnServer`: each step of the tabs, the network and the handlers is one
  transaction of `RefreshTokens` or none, so every theorem above holds with its
  clients in front (`ClientsKeepSessions`).
* `WaitersNeverLeftBehind`: `WaitersAreServed` is inductive with what a slot is used
  for (`Slots`) and with one refresh to a tab (`OneRefresh`).
* `OneTabRaisesNoAlarm`, for one tab and any number of calls. Unless a rotation was
  severed from its page: what is sent was handed out (`HandedOut`), a token on its
  way to the browser is nowhere else (`Unseen`), and the cookie is spent only while
  its successor is on its way (`Succession`). The last is where the single flight of
  the tab comes in: without it a second rotation would be sent with a spent cookie.
* `OneTabKeepsItsSession`: in addition no row goes, and what is revoked was given up
  or thought stolen (`RowsKept`).

`DbLogSinkProofs`, for any records, sizes and failures. Three invariants, each
inductive over the types.

* `OrderInv`: what is written, in the batch, in the queue and scheduled was logged in
  this order. `NoDuplicates` and `LoggingOrder` follow (`StoredAtMostTwice`,
  `StoredInOrder`): a batch that is retried is either fresh, or was stored whole by a
  commit that raised (`Again`), which is what limits a row to two copies.
* `FlowInv`: where a record can be, and that everything behind the sentinel in the
  queue came too late (`NothingVanishes`, `StopFlushes`).
* `OffenderInv`: a row is rejected, before the first outage, only for what is in it
  (`OnlyTheOffenderIsLost`).

`MissionControlProofs`.

* `ApprovedHasRole` and `RoleWasAsked` follow from `RoleInv`. `ApprovedIsAdmin` alone
  is not inductive: a decision about to be recorded must have been granted, or its
  account must have gone since (`GrantedFirst`), and for `Solicited` whoever is
  pending, or about to be granted, must have asked (`PendingAsked`).
* `DeletedStaysDeleted` rests on `RowsComeFromLogins`: of all steps only the end of a
  login brings a row into being.
* `StoresStayTogether`: a statement about idle moments says nothing of the steps
  between, so the invariant follows the updates that are between their two writes:
  one that is there alone and not mixed finds the row as it wrote it, and mixed
  updates keep the flag that the next clean one clears.
* `MissionImplementsItsParts`: side by side each of the two behaves as it does alone,
  which carries the theorems over to `MissionControl`.

`CommandSchedulingProofs`. `LockoutFreezes`: `DrainedStep` shows for each action
that it leaves a locked-out session without pending requests as it is; the update
and delete steps need that a request which passed its check belongs to the session
its command is in (`Belongs`), because commands do not move between sessions.

`AroAccountsProofs`. `TypeCorrect`, `RegistrationsTake`, `StrandedAccountsHaveCause`
and `VerifiedAccountsOwnMail` are inductive together with what each request holds
for its next step (`SlotInv`), with addresses that no two rows share (`UniqueInv`)
and with ids that were never used having no row (`FreshInv`). They rest on `Grows`:
ids are never given back, mails never called back, and a row keeps its address or
goes. `ResetTokensAreSpent` needs in addition that an account's login row is
inserted once (`OneInsert`) and that its hashes only grow (`HashInv`): a token with
which a password was set names a hash that the row does not have any more.

`PictureRequestsProofs`. `DownloadsFindTheirPacket` and `OwnersDeleteOnlyOpen` are
about what a call read in one transaction and relies on in the next. The invariant
says what it may still rely on if its row is there (`CallOK`), which needs that rows
only fade (`Fades`): a row that stays keeps its owner and a packet, and does not
become deletable again. The insert is the exception; it cannot concern another
call because a picture is known to one call only until it is in the table
(`InsertInv`). The foreign key of `packet_id` is `PacketInv`.
`RemovalsHideOneEach`, for any number of rows and any page size: the rows of a user
are numbered from the newest (`Numbered`), and of the rows that the walk has missed,
those among the first `offset` by now are never more than the rows that were removed
(`WalkInv`). A removal moves at most as many rows forward as go, an insert moves none
forward, a page passes over none that it does not show, and behind a page that is not
full there is no row.

`GroundStationProofs`.

* `UplinkIsAcknowledged`: the events heard so far are tied to every state of the way,
  not only to the ones of the property. `StateMachineImplementsContact` is the
  refinement of `GsContact`: each event maps to a step of a contact or to a stutter.
* `DecodedIsWhatWasSent`: the frame on the air is the encoding of what is being sent
  with damage counted per part, and no other value has its checksum.
* `AnswersAreOwed`, for any number of pieces: while a call is under way every answer
  of which the beginning was received and not yet read was owed when the call
  emptied the input, or is its own (`HeardIsOwed`), and so is every one that may yet
  begin. Of an answer that began before only later pieces can follow, and a whole
  answer, with its first piece, cannot be made of them (`FrameBegins`,
  `WholeBegins`). Nothing numbers the frames, so nothing stronger is inductive.
* `WireHasNoFlag`, for every frame, every width of a byte and every length of a run:
  stuffing follows the count of ones at the end of what it has put out (`Counted`),
  and no run is as long as a flag's (`NoLongRun`), nor after padding and stripping.
* `FramesComeBack`, for every frame: the padding of a frame and what is stripped of it
  are the same zeros, so what is written is the beginning of the stuffing of the frame
  with at most a byte of zeros behind it (`WritesFrame`). A beginning of what was
  stuffed is read as a beginning of what went in, as all the bits that are in it
  (`ReadsBeginning`), hence as the frame without zeros at its end or with less than
  a byte of them behind it (`FrameIsRead`). `LongFrame` compares that with the byte
  that the receiver puts back. For a control frame, which is not unstuffed,
  `ShortFrame` follows where the last one of the frame lies in what is written.
* `BlocksGiveBack`, for every batch: what `unpack_command` finds in a block is said by
  the offsets at which messages were laid (`Laid`), and packing keeps it that the
  blocks finished so far and the one being filled hold exactly the messages so far
  (`Unpacks`), including the block that is full to the last byte but one.
* `TypedArrives`, for every integer typed: the factories make of an input a message
  with the fields the board acts on (`Made`, `Executes`), whatever wraps.
* `StationImplementsItsParts`: side by side the five parts behave as they do alone,
  which carries the theorems over to `GroundStation` (`StationKeepsItsPromises`).

*Folds.* Packing, unpacking, stuffing and unstuffing are folds over sequences, which
the community modules define by a function that a CHOOSE picks from its recursive
equation. That such a function exists, and that it goes through the sequence one
element after the other, is proved here by induction over the length (`FoldExists`,
`UpTo`, `DownTo`), with the induction put as a statement about a set of numbers
(`Least`); theorems of the library that take an operator as a parameter cannot be
used by the provers here. Nothing is assumed about the folds.

*Only model-checked.* The properties that are refuted (`RevokeKillsDescendants`,
`DeletionSparesOrders`, `DecodedOrNone`), and all liveness: `WF` and `ENABLED` are out of reach of the
provers here. Every other property of the runs is a theorem.

## 5. Plan

The C side of AX.25 (three-bit sequence numbers, eight-bit counts), once code in the
repository calls it; the events of the state machine, once something raises them.

## 6. Not modelled

* `callsign_2fa.py` (one HTTP call and one update), e-mail as a transport (its
  failures are logged and swallowed), middlewares, the reference tables, the
  read-only listings, `keycloak_sync`, migrations other than the constraint that
  `accounts_delete` is about, and the React views.
* What an answer that was made of a text or of part of an answer says, beyond its id:
  the bytes after the first are left out.
* Two rows of one `created_on`, whose order the database chooses; responses and
  their links.
* The C library behind `interface` and the board's software: modelled from how the
  Python uses them (sizes, what packs and what does not), and as an environment.
  The algorithms of AES and Reed-Solomon: `FramePipeline` says what they promise.
* `uart.go`, which no code calls, and `main.go`, which only sleeps.
