# Specifications of pam-smsauth

pam-smsauth asks a user who logs in for a one-time password (OTP) that it has
sent by SMS to the number in the user's GECOS field.  This directory holds TLA+
models of it, TLC configurations that check them on small instances, and proofs
checked by TLAPS.  All paths below are relative to the repository; the C files
are in `src/pam_smsauth`, the server in `src/smsauth_server`.

## 1. The system

| part | state | operations | talks to |
|---|---|---|---|
| `pam_smsauth.c`, `pam_register_var.c` | locals of one call; nothing survives it | `pam_sm_authenticate` | all others |
| `sqlite_client.c`, table `pam_status` | rows (id, user, otp, timestamp), shared by all processes | look up, insert, set OTP, read column, purge | called by `pam_register_var.c` |
| `pam_parse_args.c` | `pam_arg`, `ctrl` | defaults, one turn per argument | called on entry |
| `user.c` | `user_t` | take name, area code, number and provider out of GECOS | called on entry |
| `otp.c` | none | generate, prompt, compare | PAM conversation |
| `pam_data.c`, `pam_prompt.c`, `pam_syslog.c`, `error.c` | handle, user name | PAM plumbing, texts | PAM |
| `sms.c` | a socket | `sms_send`, `wait4resp`, `sms_on_err` | SMS server |
| `json_proto.c` | two packets | build a request, check a response | json-c |
| `json/json_tokener.c`, `json/json_object.c` (vendored json-c) | heap of reference counted objects | parse, add, get, delete, put, print | the three below |
| `json/linkhash.c`, `json/arraylist.c`, `json/printbuf.c` | slots with a chain; slots; a text | insert, look up, delete, resize; put, get, expand; append | - |
| `server.py` | socket, backlog, current connection | accept, receive, try gateways, answer | clients, gateways |
| `client.py`, `http_client.py`, `smtp_client.py`, `mobile_client.py`, `client_factory.py` | connection to a gateway | `set_params`, `send_sms` | gateway |
| `proto.py`, `config.py` | one packet, one file | parse, build; read options | server |
| `INSTALL`, `conf/`, `init_script/`, `db/`, Makefiles | - | installation | - |

One login runs: arguments, user name, `except=`, GECOS, expiry of old rows, open
a row, find or generate an OTP, send it, store it, prompt, read the OTP back,
compare.  Every table access is one or two SQL statements on a database other
logins use at the same time.  `sms_send` writes one JSON request to a UNIX
socket and blocks until one response or the end of the stream.  The server is a
single thread.

What is hard here:

* two logins interleaved statement by statement, and rows found by a rowid that
  an earlier statement selected;
* time passing between entry, SMS, prompt and comparison;
* a statement that fails or finds the database busy, with a different return
  value in every function;
* the application killed at any step, the server stopped at any step;
* blocking `connect()`, `read()` and `recv()` without timeouts, a bounded backlog;
* a gateway that fails, or takes the SMS and fails afterwards;
* fixed buffers that cut arguments, OTP and phone number;
* a request the server cannot parse, and system calls that fail while the server
  goes on with the request;
* reference counts and error pointers in the parser;
* deleted slots, growth and reuse in the hash table, indices beyond the array,
  a `realloc` that fails in the middle of a text;
* a `server.conf` that is edited while the server runs: the list of gateways is
  read once, everything else for every SMS.

What makes each part right: the table keeps one row and one OTP per user, set
once and dropped when expired; an OTP is stored only after its delivery was
confirmed, in the row of the user it was made for, and passes for nobody else; success has one of the causes the configuration allows; live rows are
not lost; an SMS is confirmed only when a gateway took it, `SMS_GATEWAY_ERR` only
when all failed; every `sms_send` returns; the arguments before the first bad one
are in force; what the SMS shows is what passes; the parser accepts its grammar,
gives each object one holder, and the response counts as a confirmation only if
it says so; a container stays the map or list its header describes, its text
denotes it, and a value is freed with its last reference.  Across the parts: a
token that passes was taken by a gateway, and nobody passes without one unless
every gateway failed for that very login or its `connect()` failed.

## 2. Modules

| module | models | corresponds to |
|---|---|---|
| `PamStatus` | the table | each SQL statement and the return value of the C function around it is an operator on a set of rows; `Faults` are the SQLite errors that may occur |
| `PamSmsAuth` | the login | one action per SQL statement, SMS, prompt and comparison; `pc[s]` is the statement session `s` is about to run; `Tick` is the clock, `Kill` the end of the application; `Tables` are the tables that earlier calls may have left; `lost` is a history variable: the calls whose row a purge removed between the two statements of `pam_register_otp` or `pam_get_otp` |
| `OtpBook` | what the table promises | a book of entries with `Open`, `Register`, `Expire`, `Accept` |
| `PamSmsAuthBook` | refinement mapping | rows without ids are the entries |
| `Gateways` | `config.py`, the gateway clients, `client_factory.py` | `Http`, `Smtp`, `Mobile`: what a client makes of its options and of the other side's reply; `GatewayOutcomes` collects, for each place of the list read at the start, what an attempt may come to under the files that may be there later |
| `SmsService` | `sms_send` and the server | client: `Connect`, `Write`, `Read`, and `CallErr` for a system call (or the making of the request) that fails; server: `Accept`, `Recv`, `Refuse` (a request that does not parse), `Service` (one gateway), `Reply`, `ReplyErr`; `Kill`, `Stop`, `Restart`; it may be down at first |
| `LoginToken` | arguments, GECOS, buffers, comparison | `Parse` is one turn of `pam_arg_parse`; `UserInfo` is `user_get_info`; `Shown` what fits the SMS; `SameToken` is `otp_cmp` |
| `JsonObjects` | json-c objects | `Node`, `ObjectAdd`, `ArrayAdd`, `Put` on a heap with reference counts |
| `JsonGrammar` | symbols; the reference grammar | `Meaning(source)` by recursive descent, as recursive functions of a place in the source; written for comparison and not taken from code |
| `JsonTokener` | `json_tokener_do_parse` | one action per `case`, one frame per recursive call, `Resume` for what the caller does with the result |
| `JsonPacket` | `json_proto.c` | request built and put, response parsed, checked and put |
| `LinkHash`, `ArrayList`, `PrintBuf` | the three vendored containers | tables, arrays and buffers as records; one operator per C function; `LhLookupLoops` and `Outside` say where the C function does not come back or leaves its array |
| `JsonStore` | what `json_object.h` promises of a container | a sequence of entries with `Store`, `Erase`, `Lookup`, `PutAt`, `Push`, `At` |
| `JsonValue` | one object or array of `json_object.c` | one action per call; printing takes one step per `printbuf_memappend`; `Kids` maps table and list to `JsonStore` |
| `LoginOverSms` | the login and the server together | `Sms` is `SmsService` with the sessions as clients; `Outside(s)` is a step of the login, `Exchange(s)` one of `sms_send`, `CallFails(s)` a system call of it that fails, `SmsEnds(s)` its return, or the login's end where the process did not survive it |
| `MC*` | instances for TLC | values of constants, symmetry sets |
| `*Proofs` | theorems | see 5 |

`PamSmsAuth` EXTENDS `PamStatus`; `JsonPacket` EXTENDS `JsonTokener`, which
EXTENDS `JsonGrammar` and `JsonObjects`; `JsonValue` EXTENDS `JsonGrammar` and the
three containers; `SmsService` EXTENDS `Gateways`.  `PamSmsAuth` sees the server as
the set `SmsOutcomes` of results of `sms_send`; `LoginOverSms` replaces that set by
the exchange itself.
`SmsService` sees a response as OK, ERR or an empty string; `JsonPacket` shows
what the client makes of a text.  A definition whose name continues that of its
neighbour (`InRangeOneMore`, `ServiceOneTooFar`) is a variant with a plausible
slip; no specification uses one.

Abstractions.  OTPs of different sessions differ.  The clock never goes back.
A user may type any OTP generated so far, a wrong one, or nothing.  Strings
are known by what the code tells apart (class of the first character, length,
prefix relation).  A login name is known by whether it begins with the name
`pam_arg` keeps of `except=` and by its next character; where that name fills its
24 bytes, the character is compared with the low byte of `time_expir`, the next
field of the struct (`LoginNames`; low bytes are stored first and `time_t` is
aligned to the end of the name, as on the machines PAM runs on).  In `SmsService`
every system call of `sms_send` may fail at any time, and so may `json_req_2str`;
the `snprintf` of line 87 formats a string, which does not fail, and its result
occurs in `PamSmsAuth` only.  A request parses or not (`Unparsable`): the texts that
make the difference, a backslash in the GECOS field, are those `JsonValue` finds
not to parse back.
In the JSON modules a symbol is a character or a whole word, doubles and
the four digits of `\u` are not spelt out, and a failed `malloc` is left out.
Reading an unwritten buffer gives `Garbage`, which may compare either way.
`JsonValue` has one container whose values are strings, numbers and booleans (one
symbol stands for both truth values), and one symbol of a text is one byte; hash functions are any functions; `calloc`
failing (which ends the process in `linkhash.c`) and `realloc` failing in
`arraylist.c` are left out.  What a gateway answers is a class of replies
(`HttpReplies`, `SmtpReplies`, `GsmReplies`): those the client tells apart and one
status it does not look for.

## 3. Runs

| run | shows | bounds |
|---|---|---|
| `auth_serial` | logins one after the other keep `OtpBook`: `OneRowPerUser`, `RegisteredOtpStays`, `AcceptedWasLiveOnEntry`, `KeepsBook` | 3 sessions, 2 users, clock to 3, expiry 1: a row is opened, found again, expires and is opened anew, with a kill in between |
| `auth_faults` | two logins at once with SQL errors, busy database, failing SMS, `relaxed`, `except=`: whose OTP is in whose row and whose passes (`RowHoldsOwnOtp`, `AuthenticatedByOwnOtp`, `OwnOtpOutdone`, `RowZeroIsDead`), and `TypeOK`, `StoredOtpWasSent`, `SuccessHasCause`, `LiveRowsStay` | 2 sessions, 4 users (one excepted, one without GECOS), clock to 3, expiry 1; the table is empty or holds the rows of two earlier logins, which expire with the first tick: a purge comes between any two statements of the other login and rowids are given out again |
| `login_over_sms` | the whole path of a token: `AcceptedWasDelivered`, `PassNeedsOutage`, and `LoginsComeToRest` under `FairSystemSpec` | 2 sessions, of one user who is sent tokens or of another who is excepted, `relaxed`, one gateway that may fail, backlog 1, one stop, one request that does not parse, any system call failing, an empty table and a clock to 2 (what expiry does is the question of `auth_faults`) |
| `sms_service` | `OkMeansDelivered`, `GatewayErrMeansAllFailed`, `CopyNeedsFailure`, `DownNeedsCause`, `NoLateDelivery`, `TypeOK`, and `EverySendEnds` under `FairSpec` | 3 clients, one with a request that does not parse, any system call failing, backlog 1 so that one blocks in `connect()`, mail tried before HTTP, `server.conf` as written, gone, without its mail section or with a domain missing, one stop |
| `login_token` | `ArgumentsInForce`, `PassedUnasked`, `ShownTokenAccepted`, `AcceptedInFull`, `TypeOK` | lists of up to two arguments out of 16 at and beyond the limits, `sockpath=` and `except=` too long among them; four login names around a name of 24 characters; six GECOS fields; every prefix of the OTP typed |
| `json_packet` | `OneHolder`, `NothingLeft`, `OverrunNeedsComment`, `ParsesAsGrammar`, `OkIsSaid`, `EveryAnswerEnds`, `TypeOK` | all sources over four alphabets: server-like answers to 13 symbols (the shortest confirmation has 13), arrays to 6, strings to 7, comments to 7; strings of at most one character that no case tells apart |
| `json_value` | `CountsReferences`, `HangNeedsDeletions`, `OverrunNeedsGap`, `BufferInBounds`, `PrintedTextParsesBack`, `ImplementsStore` | a table of 3 slots, an array of 2, a buffer of 8; up to four keys, all in one place or spread round the end; up to two deletions, which is enough to leave no empty slot; indices to 4, twice the array's size; one value shared with the application at a time |
| `sms_unnoticed` | **violation** of `OkMeansDelivered` | a gateway may answer with a status other than 404, 403, 500 |
| `sms_stopped` | **violation** of `NoCrash` | one client, a stop |
| `login_token_readme` | **violation** of `SecureModeInForce` | the one argument list of README.md:88 |
| `json_double_put` | **violation** of `NoUseAfterFree` | one request |
| `json_wide` | **violation** of `FailureIsAnError` | pointers wider than `int` |

Deadlock checking is off in every run because every model may stop: calls end
and none is started anew.  A model stuck before its end is caught by
`EverySendEnds` and `EveryAnswerEnds`.  `Serial`, `MaxTime`, `MaxPending`,
`MaxStops`, `Families`, `MaxText` are bounds of the instances, not of the code.

What the runs do not say.  `TypeOK` of `PamSmsAuth` lets rowid 0 pass, which is
`RowZeroIsDead`'s matter.  With wide pointers (64-bit builds) `OneHolder`,
`OverrunNeedsComment`, `ParsesAsGrammar` and `OkIsSaid` claim nothing; `NothingLeft`
and `TypeOK` do.  In `ImplementsStore` a call that does not come back or writes
outside its array counts as a stutter; `HangNeedsDeletions` and `OverrunNeedsGap`
say when that happens.  In 13 symbols there is room for the shortest confirmation
only: that the last of several results counts is shown by proof (`ConfirmedIsSaid`).
`CopyNeedsFailure` compares numbers and does not ask which gateway took the SMS.

Why the bounds suffice.  Three sessions on two users give two logins of one user
and one of another, or three of one.  A row id is handed out again only after
the row with the highest id went; in `auth_faults` that is a row of an earlier
login, purged by one of two sessions while the other holds its rowid.  In
`login_over_sms` two sessions are enough for one to meddle with the other's
exchange or server; for any number of sessions its two invariants and those of the
table are proved (section 5).  Two gateways distinguish the first, the last and a success between failures.  Three
clients fill a backlog of one and leave one blocked.  One argument to be
overridden and one that fails already show which settings remain.  The code's
sizes of 16, 32 and 32 are constants of `JsonValue`; with 3, 2 and 8 each of them
is reached and outgrown within a few calls, with the same arithmetic.

Fairness.  `SmsService`, `LoginOverSms` and `JsonPacket` have liveness properties.
`FairSpec` assumes that processes are scheduled (weak fairness of each client's
step and of the server's step).  A step of the server that tries a gateway
returns or raises at some time; nothing in the code bounds that time, so the
property says "some time" and no more.  Nobody has to stop, restart or kill
anything, and no system call has to fail: a `read()` blocked on a dead server ends because the kernel closes the
socket.  `SystemFairness` is the same for the server and for each login that has
begun (`Running`): nobody has to start a login or to answer
its prompt.  Weak fairness is enough there although `connect()` is disabled while
the backlog is full, because with two logins a backlog of one is never full for
the second for ever; the same holds of the three clients of `sms_service`, none of
which connects twice.  `JsonPacket` is one thread that never waits.

## 4. What the violations mean

* `sms_unnoticed`: `http_client.py:47-57` raises for three statuses; every other
  failure is taken for success and the user waits for an SMS nobody sent.
* `sms_stopped`: the end of the stream gives an empty string, the parser returns
  an error pointer, `json_proto.c:103` tests for NULL only and line 106
  dereferences it.  The application that called PAM crashes.
* `login_token_readme`: the README's `otptype=alfanum` is not a type the parser
  knows (`alphanum` is).  Parsing stops there, so `otplen=8` is never read and the
  "secure mode" has five digits.
* `json_double_put`: `json_proto.c:89-90` and `125-126` put the payload and then
  the object that owns it.  It happens on every login.  It usually goes unnoticed
  because the count of the freed payload goes from 0 to -1.
* `json_wide`: `json_tokener.c:464` negates an unsigned enum.  On a 64-bit build
  the error is `0x00000000fffffff9` or the like, which `is_error()` does not
  recognise; an error inside an array or object is then stored in it as a value.

Seen in the models and described here only:

* the OTP that expires while the user types it is still accepted, and one whose
  purge failed with SQLITE_BUSY as well (`pam_smsauth.c:71` ignores the failure):
  `AcceptedWasLiveOnEntry` holds without faults and overlap and speaks of the entry;
* two simultaneous logins of one user can open two rows, or send two OTPs for one,
  and only one passes: `OneRowPerUser` and `RegisteredOtpStays` need `Serial`, and
  the OTP in a user's own SMS may be called invalid.  `OwnOtpOutdone` says when,
  without `Serial`: only if another login sent one to the same user, or a purge or
  an unwritten buffer came in between;
* with expiring rows, `max(id)+1` gives a purged id to another user between the
  SELECT and the UPDATE of `sqlite_set_col_str`, which then stores the OTP in the
  other user's row, against `sqlite_client.h:37-46`; the same between the two SELECTs
  that read it.  `RowHoldsOwnOtp` and `AuthenticatedByOwnOtp` have no other exception
  than this purge (`lost`) and the unwritten buffer, and hold without any bound on
  time, faults or overlap;
* `sqlite_get_col_str` returns an unwritten buffer on SQLITE_BUSY in its second
  statement (line 218); an error of `sqlite_get_next_rowid` becomes rowid 0 and a
  row no lookup finds (lines 65, 123);
* `sms.c:87` cuts OTPs longer than 20 characters although `otplen` goes to 24;
  `otp_cmp` compares over the `otplen` of the present call, so a service with a
  smaller one accepts a prefix of an OTP another service made;
* a name in `except=` matches every longer login name.  One of 24 characters leaves
  no NUL (`pam_parse_args.c:157`) and runs on into `time_expir`: it does not match the
  user of that name, but a longer login name whose next character has the code of
  `expir=` (48 to 57 are the digits, 45 and 46 `-` and `.`);
* `README.md:115` gives `/var/run/pam_smsauth_sock` as the default of `sockpath`,
  `pam_parse_args.c:51` uses `/var/run/smsauth/smsauth_sock`; `README.md:107` and
  `pam_parse_args.h:19` allow 256 characters, of which `pam_parse_args.c:72` keeps 31
  without a word.  Every `connect()` then fails although the server is up, and with
  `relaxed` every user is let in.  `ArgumentsInForce` takes defaults and cuts from the
  code; `PassNeedsOutage` counts any failed `connect()` as a cause;
* a request that `simplejson` refuses ends the server: `server.py:88-90` parses it
  outside every handler, and `user.c:58-62` lets a backslash into the number or the
  provider that `json_escape_str` leaves alone.  `DownNeedsCause` names it;
* `sms.c:32` reports any failing `read()`, one interrupted by a signal too, as
  SMS_READFROMSOCK_ERR while the server goes on: the call has failed and the SMS
  arrives.  The same holds after a kill.  `NoLateDelivery` claims that after every
  other result nothing goes out;
* an OTP stays valid after it was used, until it expires;
* the server serves the request of a login that was killed, so its SMS can arrive
  after the one that counts;
* with `relaxed` the kill or the unparsable request of one login can let another
  user in unasked: either ends the server (`server.py:137`, `server.py:89`), and the
  other's `connect()` is refused.  What `PassNeedsOutage` claims is that such a login
  has then left no trace: no gateway was tried for it and no SMS of it is under way;
* an object whose field lacks its colon is leaked by the parser
  (`json_tokener.c:417`; `OneHolder` and `NothingLeft` except it), so is an answer with another first key; `/***/` does
  not end a comment; an unclosed comment inside an array makes the parser read on
  behind the source;
* a hash table whose empty slots were all used once and then deleted makes every
  lookup of a missing key go on for ever (`linkhash.c:164`), although `linkhash.h`
  says it returns NULL; 5 deletions are the least for the 16 slots of an object
  (`HangNeedsDeletions`), and nothing but growth restores an empty slot;
* `array_list_put_idx` writes behind its array for an index of at least twice the
  size (`arraylist.c:62`, `77`), where `json_object.h:204-205` promises that the
  array is expanded; appending is not affected (`OverrunNeedsGap`);
* `json_escape_str` leaves a backslash as it is, so a text with one does not parse
  back or denotes another value, although `json_object.h:89-91` promises JSON:
  `PrintedTextParsesBack` is about the texts without one; when `realloc` fails in the middle of a text the piece is missing and the
  torn text is returned, and only the failure of the last append gives NULL;
* in `json_util.c`, which the module does not call, `json_object_from_file` parses
  an unterminated buffer if the file is empty; `json_object_get_boolean` is TRUE of
  an empty string (`json_object.c:302`).

## 5. Proofs

All theorems are for any number of sessions, users, clients, gateways, any
argument lists, initial sizes and hash functions; the constants' assumptions are
the named ASSUMEs of the modules.  Where a theorem needs more, its statement says
so by name:

| assumption | where | meaning |
|---|---|---|
| `OneAtATime` | `PamSmsAuthProofs`, third part only | calls do not overlap, no statement fails and the table is empty at first. The code ensures none of it; without it the three theorems are false (section 4) |
| `NeverUnnoticed`, `GatewaysNotice` | `SmsServiceProofs`, `LoginOverSmsProofs` | a gateway that does not take an SMS raises an exception, the assumption `sms_unnoticed` drops |

`PamSmsAuthProofs`, first part (for every interleaving, fault and kill).
`TypeCorrect`, `StoredWasSent`, `SuccessCaused` and `LiveRowsKept`.
`StoredOtpWasSent` is not inductive: what `pam_register_otp` writes must be known
to have been confirmed.  `IInv` adds that a session has a user once it is past
its entry (`Entered`), that `sms[s]` is the default up to the answer and `SMS_OK`
where the OTP is about to be stored (`SmsFollowsPc`), and that an OTP read back
was confirmed (`ReadOtpWasSent`).  `GotoStep`, `ReturnStep`, `FoundStep`,
`GetRowidGoto` and `GetRowidReturn` prove the invariant for the shapes steps have;
three lemmas treat registration, delivery and verification.  `LiveRowsKept` is an
action property from the same invariant: purging goes by a time read on entry,
which never lies in the future.  `PassesByOtp` adds that whoever passes with an
input compared it with an OTP that was confirmed.

Second part (calls that overlap as they like, rows that expire, faults and kills).
`RowsHoldOwn`, `RowZeroStaysDead`, `OwnOtpOnly` and `OwnOutdone`, without any further
assumption.  That a row holds its own user's OTP depends on the rowid a call
selected still being that user's row when it updates it.  `RaceInv` therefore adds
that a primary key stands for one user (`KeysDiffer`), and that a selected rowid is
positive and held by a row of the call's user unless the call is `lost`
(`HeldRows`): only a purge takes a row away, a purge notes whose it took, and the
insert cannot give a held rowid to another row.  `ReadsOwn` carries it on to the
buffer that is compared.

Third part (`OneAtATime`).  `RowsUnique`, `OtpStays`, `BookKept`.  `SerialInv` says that all
calls but one are idle, that ids and users are unique in the table, and in
`Phase(s)` what the running call may take for granted from statement to statement:
after the purge only live rows, before the insert no row, from then on one, with
no OTP before the update and the sent one after it.

`BookKept` from it: every step of `PamSmsAuth` is then a step of
`OtpBook` or leaves the book alone; `Ahead` adds that the OTP about to be
registered is in no row yet.

`LoginOverSmsProofs`.  `LoginRefined` and `ServiceRefined`: every behaviour of the
whole is one of `PamSmsAuth` and one of `SmsService`, so their theorems hold of it.
`AcceptedDelivered`: `Coupled` says that a login holds SMS_OK only
where its client has received it; the invariant of the service that the server
answers OK only to a client whose SMS was copied; with `PassesByOtp` this gives the
statement end to end.  `PassedInOutage` is about `relaxed`: who passes without an
OTP was answered an error after every gateway failed for that login, or could not
connect, and then the server knows nothing of the login (`UnreachedOK`).
It needs what `SmsServiceProofs` shows of the server, so the module takes those
proofs as an instance with the sessions as clients (`Proved`) and cites its
invariant; `Coupled` says that a login's result is the
one its exchange ended with, and stays so.

`JsonValueProofs` (initial sizes, keys, hash functions and values of any kind).

* `TerminatorInside` and `AppendsStayInside`, from an invariant that the array
  never claims more elements than slots (`ListFits`) and that the buffer's end lies
  inside it.
* `ReferencesCounted` and `LookupsReturn`.  Neither property is inductive: a growth
  moves what the chain says is there, and a deletion must find its neighbours.
  `TableFits` therefore says that a table's count is the number of its used slots
  and that there is a sequence of exactly these slots that `next`, `prev`, `head`
  and `tail` link (`Chain`).  `CountInv` adds that a table is never loaded beyond
  its limit (`Limit`), that freed slots are no more than counted deletions, and
  that an array is NULL behind its length (`ArrayFits`).  `PlaceFits`, `DeleteFits`,
  `ResizeFits` and `InsertFits` say what each operation does to the chain, the
  count, the freed slots and the number of slots that hold a value (`Holding`);
  `PutIdxCounts` says it of arrays.  `ForeachFits` shows that reading from the head
  gives the chain, `MovedThere` and `TakesOne` go through a growth entry by entry:
  where an induction is needed, the least counterexample takes its place (`Least`).
* `StoreImplemented`: the table and the array implement `JsonStore`.  The chain says
  in which order the entries are; `StoreInv` adds to `CountInv` the invariant of
  open addressing (`Findable`): no key is in two slots, and on the way from a key's
  first slot to its own there is none that was never used (`Met`).  A deletion keeps
  it because a freed slot is not an empty one, a growth because it puts every entry
  into the new table again.  So a search that ends finds the key if it is there
  (`LookupFinds`, `LookupMeets`).  `PlaceFindable`, `DeleteFindable`,
  `ResizeFindable` and `InsertFindable` say what each operation makes of the
  sequence of entries (`EntriesOf`); `AddKeyStores`, `DelErases`, `GetLooksUp`,
  `PutIdxPuts` and `GetIdxReads` map the calls to those of the abstract container,
  and `NextStored` all steps, the others to `Other` or a stutter.
* `PrintedReadBack`: the text of a container, read by the grammar, is the container
  again, for keys and values that are any C strings without a backslash and numbers
  as `sprintf()` spells them (`TextsAssumption`).  `PrintInv` adds to `StoreInv` that
  what is in the buffer and what is still to be appended are together the pieces of
  the container (`Midway`), which no call changes in between.  That these pieces
  denote the contents goes in three parts.  What `json_escape_str` makes of a text,
  however it cuts it, is each character's `Spelling` in turn (`EscapeFits`), and the
  grammar reads that up to the closing quote as the text (`TextRead`); a number ends
  where the next symbol is no digit (`NumberRead`); `CoreRead` puts the values
  together.  The pieces of an item make its `ItemText`, whatever the pieces are
  (`ElementFits`, `FieldFits`, `FlatFlat`).  And `ContainerRead` goes through the
  items: each text stands where the one before it ends (`OccursFlat`), and what is
  left of the container in front of an item is the item and what is left behind it.
  `Findable` is needed here once more: of fields of one name the grammar keeps the
  last, so that all of them come back only because no two are of one name
  (`AllLast`).

`SmsServiceProofs`.  `OkDelivered` (assuming that gateways report their failures,
the assumption `sms_unnoticed` drops), `GatewayErrExhaustive`, `CopiesBounded`,
`DownCaused`, `FailureIsFinal`, `TypeCorrect`.  The invariant ties the server's
step and gateway index to the counters of the client it serves (`CountOK`), and
says that a client whose call has returned is in the backlog or served only if it
was killed, or its `read()`, `write()` or the making of its request failed
(`OpenOK`), that a request was written by a client that has waited for its answer
(`RequestOK`), and that one that could not connect left no trace (`UnreachedOK`).

`LoginTokenProofs`.  `TypeCorrect`, `ArgumentsTakeEffect`, `TokensDecide`,
`ShownAccepted`, `UnaskedByExcept`.
`Settled(i)` (the settings are those the first `i` arguments mean) is the
invariant of the parsing loop; `MeansNext` is the lemma for one more argument.
`UnaskedByExcept` follows from it: the name in force is that of the last `except=`
taken, and one of 24 characters is read on into `time_expir`.
`ShownAccepted` adds what the SMS buffer and the comparison make of the length in
force: what was shown passes unless the buffer cut it.

`JsonPacketProofs` (any alphabet, any source, any nesting; pointers of either
width unless said otherwise).

* `PointersValid`.  `TypeOK` is not inductive: a frame may hold NULL or an object
  that is not the one its state adds to.  `Shape` types the variables, `InRange`
  bounds every pointer by the heap, `FramesFit` says which states have an object,
  know their quote, and wait for an inner call, and `Phase` what is left of all
  that outside the parser.  `TurnKinds` reduces the parser's many cases to seven
  kinds of step (`Turned`): the frame keeps, makes, returns or gives up its object,
  fails, forgets it, or calls itself.  Everything below goes by these kinds.
* `OverrunCaused`.  `CommentFits`: a frame whose state belongs to a comment says
  that one has begun in the source.  With wide pointers a string left open by a
  failed inner call reads on as well, so the property excludes them.
* `OneHolderEach` and `EverythingFreed`.  `Ownership` says of frames, the value on
  its way to the caller, pending releases and containers that each holds only live
  objects (`HeldAlive`), no object twice (`HeldOnce`), and that every live object
  is held (`Kept`) or was forgotten by the call that missed its colon
  (`Forgotten`: then an error pointer, which crashes the caller, is still on its way
  or stored in an older object).  With narrow pointers a failure is the first and
  only one of its parse (`FirstFailure`).  `Sorted` (an object is younger than
  the container that holds it) makes the holders acyclic.  When nothing is pending
  the oldest object still alive would need a holder older than itself, so there is
  none: `NoneAlive`, by the least element of a set of naturals.  `OwnedPut`,
  `OwnedAdd`, `OwnedReturn`, `OwnedCall`, `OwnedMake` and `OwnedFail` treat the
  kinds of step; `CountHolders` goes over to the sum of `OneHolder`.

`JsonParseProofs` (narrow pointers, sources without comments; any alphabet, length
and nesting).

* `ParsedAsGrammar`: the parser implements the grammar.  The state machine is
  iterative and destructive, the grammar recursive and functional, and the parser
  does not know where its source ends.  `Faithful` therefore speaks of every
  source `s` that begins with what was offered so far (`Begun`): the frames of
  the stack foretell the value `Meaning` gives `s`.  `Foretells` goes through
  the stack: each frame has read some items (`KidsSay`: the trees under its object),
  and what it has still to read, put behind them, is the value the frame below it
  awaits (`FrameSays`; `Says` has one clause for each parser state, `Awaited` is for
  the frame that is waiting for a call).  The lemmas that end in `Says` show of
  each state that the grammar's equations give its next states' clause, those
  that end in `Gives` that the parser's action goes to that state: it goes on
  (`Stays`), returns exactly the awaited value or fails where there is none
  (`Gives`), or calls itself (`Asks`).  `TurnForetold` and `AddForetold` put the
  result back into the stack.
* Trees under pointers: the heap is ordered (a container is older than what it
  holds), so the recursive `Tree` exists (`TreeThere`), and a step changes no tree
  but those of the container it adds to and of its holders (`TreeSame`,
  `TreeChanged`); that no other frame is one of these is `Ownership`, from
  `JsonPacketProofs`.
* `ConfirmedIsSaid`: what `json_check_srv_resp` reads from the heap is the last
  `result` of the tree, and the tree is the grammar's value.  Releasing
  the payload twice does not touch what has been read.  The property needs narrow
  pointers: with wide ones `{"name":{"":,"result":1}}` counts as a confirmation.
* `JsonGrammarProofs` holds the lemmas this and `PrintedReadBack` rest on: what `Past`, `LastOnes`, `Text` and `Parts`
  give for every source.  The recursive functions are shown to satisfy their own
  equations (`TextThere`, `PartsThere`), from the end of the source backwards, as
  the value at a place depends only on later places (`TextLocal`, `PartLocal`).

Only model-checked are the three liveness properties: fairness and ENABLED are out
of the prover's reach.

## 6. Not modelled

* the random characters of `otp_gen` and their distribution; logging and texts;
* HTTP, SMTP and GSM behind the gateway clients, and the PAM library;
* of `json_object.c` the conversions between simple types and containers printed
  inside containers; of `linkhash.c` the hash functions themselves and tables
  keyed by pointers, which only a debugging build makes;
* `json_util.c` (files to objects; the module never calls it), `debug.c`, json-c's
  test programs;
* `pam_sm_setcred` and the other entry points, which keep no state; installation
  files.

What is left is I/O, text or code without state.
