# A TLA+ model of the Frostlake PDO driver

The driver (`src/src`, about 2600 lines of C) lets PHP's PDO speak to a Frostlake
server over plain HTTP. This directory holds its specifications, the TLC runs that
check them on small instances, and proofs of what holds for every instance.

## 1. The system

### Components

| Component | Source | State | Operations |
|---|---|---|---|
| Session and wire | `frostlake_wire.c` | the handle: `session_id`, `tracks_sessions`, `dirty`, `in_transaction`, `scope[]`, `scope_pending` | `post`, `absorb`, `forget_session`, `apply_scope`, `session_lost`, `execute`, `session_alive`, `healthy`, `release_session` |
| Connection methods | `frostlake_driver.c` | creates and frees the handle; attributes; last error | factory (connect), closer, `exec`, prepare, begin/commit/rollback, `check_liveness`, attributes |
| Session tracking | `frostlake_sql.c` 484-637 | the two flags of the handle | `track_session`, `leading_words`, `touches_session`, `transaction_effect` |
| Placeholders and literals | `frostlake_sql.c` 40-482 | none (one rendering pass) | `skip_non_placeholder`, `render_statement`, `append_*` |
| Statement cursor | `frostlake_statement.c` | `response`, `result_set`, `columns`, `rows`, `row`, `errmsg` | execute, fetch, get_col, describe, column_meta, next_rowset, cursor_closer, dtor |
| HTTP client | `http.c` | one socket per request | connect, send, read to the end, chunk decoding |
| JSON | `json.c` | parse position, depth | parse, lookups, string buffer |
| Frostlake engine | not in the repository | its sessions | `/api/execute`, `/api/health`, `DELETE /api/sessions` |
| PDO core | not in the repository | `executed`, counts, error codes, persistent handles | calls the driver's method tables |
| Module entry, build, tests | `pdo_frostlake.c`, `config.m4`, `Makefile`, `tests/` | none | registration |

### How they interact

A PDO call enters through a method table. A statement is rendered
(`frostlake_sql.c`), sent by `pdo_frostlake_execute` as one or more `post()`s,
each one HTTP exchange on its own socket, and its answer parsed, absorbed into the
handle and, if it succeeded, tracked from the statement's text. A prepared
statement keeps the whole answer and walks it. Everything is synchronous in the
driver; what is concurrent is the engine, which between any two steps of the
driver may forget sessions, restart, be upgraded, or run a request the driver has
given up on.

### What is hard

* A session may be lost at any exchange, also between two `USE`s of the scope that
  is just being put on a fresh session, and again on the retry.
* A timeout does not stop the engine: the statement may run later, and the driver
  must neither repeat it nor report that it did not run.
* The driver decides from two flags, kept up to date from statement texts and only
  by answers that arrived, whether a statement may be repeated on a fresh session.
* An engine older than `newSession` replaces lost sessions silently, and a restart
  can turn it into one that says so.
* The cursor's pointers are into an answer that executions, refusals, result sets
  and closing replace.

### What makes each component correct

* Session: no statement runs twice; what is reported is what happened; a loss of
  context or a transaction is always told; every statement runs on the whole scope;
  live sessions are not dropped; calls return.
* Tracking: nothing a statement leaves behind goes unflagged, nothing else is flagged.
* Cursor: the rows of the latest execution, each once and in order, the end only at
  the end; a failure reported with its own message.
* Placeholders: exactly the markers are substituted, each value arrives as a literal
  of its declared type, and nothing around it reads differently for it; values that do
  not fit the markers are refused.
* HTTP and JSON together: an answer the driver goes by is the whole answer the server
  wrote, in whatever pieces and framing it came; every exchange ends; every way out
  gives back what was allocated.
* Error reporting: the message belongs to the code, and a connection that cannot be
  opened throws once.

`PROJECT.json` lists the components with their status and, under `hazards`, each
place in the code where one of these can go wrong.

## 2. The modules

| Module | Models | Extended or instantiated by |
|---|---|---|
| `FrostlakeEngine` | the server, as the driver's requests and its reading of the answers take it to be | `FrostlakeSession` |
| `FrostlakeSession` | one connection: handle, calls, exchanges | `MCFrostlakeSession`, `FrostlakeSession_proofs` |
| `SessionContract` | abstract: what a connection promises the application | `FrostlakeSession` |
| `FrostlakeSession_proofs` | theorems about `FrostlakeSession`: types, runs, reports, promises | `SessionPicture_proofs` |
| `SessionPicture_proofs` | which session is named, what the handle knows of it, how much of the scope it was given | `SessionContract_proofs` |
| `SessionContract_proofs` | the refinement of `SessionContract` | |
| `SessionTracking` | `track_session` over token sequences | `MCSessionTracking`, `SessionTracking_proofs` |
| `SessionTracking_proofs` | from single statements to requests of any length | |
| `Placeholders` | the scanner, the rendering loop, the literals, `is_identifier` | `MCPlaceholders`, `Placeholders_proofs` |
| `Placeholders_proofs` | theorems about rendering, scanner against automaton, literals read back | |
| `HttpExchange` | `http.c`: one request on one socket | `AnswerReading` |
| `JsonReader` | the parser of `json.c` with its memory | `AnswerReading` |
| `AnswerReading` | `post()` around the two | `AnswerTexts`, `AnswerReading_proofs` |
| `AnswerTexts` | trees written out, what JSON is without a parser, and what an answer read has to do with the text sent | `MCAnswerReading` |
| `AnswerReading_proofs` | theorems about `AnswerReading`: memory, the body, the parser within its text | |
| `Induction` | induction over numbers, for the two modules with recursive functions | `Placeholders_proofs`, `AnswerReading_proofs` |
| `ResultStream` | abstract: what a prepared statement promises its reader | `StatementCursor` |
| `StatementCursor` | a prepared statement, with the part of PDO around it | `PdoConnection` |
| `PdoConnection` | the connection's methods and error records around one statement | `MCPdoConnection`, `PdoConnection_proofs` |
| `PdoConnection_proofs` | theorems about these two | |

### FrostlakeSession

`H` holds the fields of `pdo_frostlake_db_handle` the session rests on. `conn` says
where the connection is between the factory and the closer, `at` in which of its
`post()` calls the running call stands:

| `at` | code |
|---|---|
| `scope` | `apply_scope` before the statement, `wire.c:317` |
| `statement` | the first `post`, `wire.c:321` |
| `rescope` | `apply_scope` after a loss, `wire.c:323` |
| `replay` | the second `post`, `wire.c:326` |
| `probe` | `session_alive`'s own `post`, `wire.c:354` |

`wire` is the exchange in progress: quiet, sent, or answered by the engine and not
yet read. `Post` is `post()` up to `fl_http_post`; the engine's `Serve`,
`ServeGone`, `ServeFault` answer it; `Unreachable`, `TimedOut`, `AnswerLost` are
the ways it fails, with `HYT00` or `08S01` (`AnswerReading` says which is which);
each action under "What the driver makes of an answer" is one branch of `post`'s
callers, with everything that branch does before the next exchange or the return
(absorb, forget, track, clear). `i` and `restarted` are `apply_scope`'s locals.
`abandoned` are requests the driver gave up on that the engine may still run.

`calls`, `ledger`, `promised`, and the engine's `unheard` and `held` are there for
the properties: how often each statement ran and what was reported of it, which
session has the context and the transaction the application was told it has, and
whether a session took an effect no answer told of.

Abstracted: a statement is its effect (touches the context; opens, ends or leaves
the transaction in the connection's mode; one statement or several). Texts,
messages, ids' characters, `multiStatementCount` and out-of-memory paths are left
out. A session id that nobody refers to any more is used again, which keeps the
state space finite; `Ended` and `InUse` see to it that no id still referred to is.

`SessionContract` has no sessions and no requests: statements sent one at a time,
each running at most once, and what was set up being there until its loss is told.
`ImplementsContract` is the refinement, against an engine that tracks sessions.

The engine keeps of a session its context (`held`) and its transaction: none, one with
work of the application's in it (`"work"`), or one that only what the driver sends by
itself opened (`"bare"`). With autocommit off any statement opens one, the `USE`s of the
scope and `SELECT 1` included; `AfterTransaction` is that rule. `covered` marks a session
whose own context a `USE` of the scope ran over.

### SessionTracking

A request is a sequence of pieces, one between each two semicolons, with what each
really leaves on the session written next to its tokens. `Scan` reads one token, as
the loop of `track_session` does where there is no semicolon; `Track` is the body at
a semicolon and at the end. A quoted string or a comment is one token, which is what
`skip_non_placeholder` makes of it. A `$$` body is too, but `leading_words` reads its
opening dollars as a word (`Bodies`).

### Placeholders

A text is a sequence of characters. `Skip` is `skip_non_placeholder`, `OpensNamed`
is `opens_named_parameter`, `Literal` is `append_value` with what it calls; one step
is one turn of the loop of `render_statement`: copy, substitute, or one of the
refusals. A stream bound as a LOB is read to its end where its marker stands, so what it
has left (`drained`, `Left`) is part of the state. The module ends with a second definition of how a text reads, an automaton
that sees each character once and knows nothing of the driver's scanner; the
properties compare the two, on the text and on what is made of it.

### HttpExchange, JsonReader, AnswerReading

The answer is a stream of units that cannot usefully be cut further: status line,
headers, blank line, a chunk's size, CR, LF, and the units of the document. It
arrives in any pieces and may break off after any unit. The request is sent in any
pieces. What is allocated or open is in `held`, what the parser has allocated is
counted in `live`; every allocation may fail, that of the message of an error included
(`Says`; a timeout without a message is taken for a loss, as in `timed_out`). The parser's recursion is `stack`; what
a function hands back to its caller is `value`. A node carries the number of blocks
that are freed with it, as they are allocated; `ReadsBack` compares it with a walk over
the tree, `fl_json_free`'s. `AnswerReading` composes the two as `post()` does: its own
reading of the errors (`TimedOutReading`), of the document (an object or not), and of
`success`. What compares documents with trees is in `AnswerTexts`, whose definitions are
recursive over the tree; the others have none that are, so that they can be proved about:
`Chunked`, `DecodeChunked` and `StringBody` are recursive functions.

### StatementCursor and PdoConnection

`S` is `pdo_frostlake_stmt`. Its pointers are pairs (execution, result set), so a
pointer left into an answer that was freed is a visible wrong value; `alive` are the
answers not freed. `pdo` is the part of `pdo_stmt_t` this driver is called under,
outside the repository: rows are asked for only after an execution that succeeded,
`nextRowset` drops the column count first and stops counting the statement as
executed when it fails, `closeCursor` does too, and each call starts from a clear
error code. A message is named by the SQLSTATE it was recorded with.

`PdoConnection` extends it by the connection: the factory from the data source to
the last `USE`; `exec`, `begin`, `commit`, `rollback`, prepare and close; and
`check_liveness`, which PDO calls without clearing its code, and which may record a
failure, clear one, or free the handle. `Error` is `pdo_frostlake_error`, which throws
while `dbh->methods` are unset. `use_object` is a step for each thing it does: set the
methods and send (`UseSends`), whatever the execution records and takes back
(`UseRecords`, `UseClears`), put the methods back (`UseWorks`, `UseReturns`), look at the
code (`LeftOff`), and go on or throw. What a request comes to is chosen there, as
`FrostlakeSession` allows it.

PDO raises failures of its own, with its own code: `IM001` for `quote()`, for attributes
this driver does not have, and for every attribute of a statement (`PdoRefuses`,
`AttributeRefused`). They leave the driver's message where it is.

## 3. The runs

| Run | Instance | Checks |
|---|---|---|
| Tracking | autocommit, tracking engine | all the session's safety properties, and `ImplementsContract` |
| Manual | autocommit off, an older engine, perhaps upgraded by a restart | `PictureSound`, `OlderEngineNotAsked`, `ScopeFirst`, `RepairsOnlyTheClean` |
| Returns | one call, fair | `CallsReturn` |
| SessionTexts | all requests of one or two statements out of 27 forms | `NothingMissed`, `NothingInvented` |
| Rendering | all texts of three fragments out of 17, longer ones with a marker, every kind of value | `SubstitutesTheMarkers`, `ReadsTheSame`, `ValuesArrive`, `AcceptsWhatFits`, `NamesStayWhole` |
| Answers | eight answers in four framings with every fault; all texts of three units and all one unit away from an answer | `BodyAsWritten`, `NoPartIsTaken`, `SucceedsAsSaid`, `ReadsWhatArrives`, `AcceptsJson`, `ReadsBack`, `NothingLeaks`, `TimeoutMeansSent`, `Ends` |
| Cursor | a connection, one statement, three executions, six answers | `NoDangling`, `ErrorsInStep`, `RefusedOnce`, `MessageInStep`, `ReadsTheStream` |

`Tracking`, `Rendering`, `Answers` and `Cursor` check a type invariant as well.

The session:

* `AtMostOnce` - no statement runs twice, the retry and late requests included.
* `ResultsAreTrue` - success means it ran once; `08003` means it did not and will not.
* `PictureSound` - with every effect answered, `dirty` shows the context the session holds
  and `in_transaction` the work of the application's it has in a transaction.
* `NoSilentLoss` - until `08003` is reported, the session with the promised context or
  transaction is the connection's.
* `ScopeFirst` - a statement that runs has the whole scope under it, also when scope
  items were lost part-way.
* `ScopeNotOverContext` - no `USE` of the scope runs over context the session has of its
  own, heard of or not, save one the driver gave up on and the engine runs late.
* `RepairsOnlyTheClean` - a statement is repeated only after a session that held no
  context and no work in a transaction, as far as any answer ever told.
* `KeepsALiveSession` - while the handle is kept, a live session's id is not dropped.
  Closing it is outside, and so is letting it go in a liveness check, where a session that
  lives on behind a transport fault is left to the idle timeout.
* `ReusedOnlyIntact` - a handle found fit for reuse has what was promised.
* `OlderEngineNotAsked` - `requireSession` goes only to engines that know it.
* `CallsReturn` - every call returns, however often the engine loses the session.

Rendering:

* `SubstitutesTheMarkers` - what is substituted is exactly what the automaton says is a
  marker in code, in order.
* `ReadsTheSame` - at every turn what is written leaves the reader where the text read
  so far does: no literal opens a comment or a quote with its neighbours.
* `ValuesArrive` - a literal, read back, is the value, of the type declared for it; of a
  stream its bytes where it is met first, and nothing where it is met again.
* `AcceptsWhatFits` - rendered exactly when the values bound are those the markers ask for.
* `NamesStayWhole` - what passes as an identifier is one, to its last quote.

Answers:

* `BodyAsWritten` - the body is the document or a beginning of it, in every framing; and
  all of it, not refused, once all of it arrived.
* `NoPartIsTaken` - `http.c` lets parts of a body through; none of a document that closes
  last what it opens first (`IsEnclosed`), as any object does, is taken for the answer.
* `SucceedsAsSaid` - success exactly where the server said it of this answer.
* `ReadsWhatArrives` - an answer that arrived whole is read, in every framing and cut.
* `AcceptsJson`, `ReadsBack` - the parser accepts exactly JSON (in these units, up to the
  depth limit), and its tree, written out, is the text; freeing it frees all of it.
* `NothingLeaks` - whichever allocation fails, everything is given back.
* `TimeoutMeansSent` - `HYT00` only after the whole request was sent.
* `Ends` - with a timeout, every exchange ends.

The statement and the connection:

* `NoDangling` - pointers lead into the one answer not freed.
* `ErrorsInStep`, `MessageInStep` - a code the driver recorded comes with its own message,
  on the statement and on the connection, with liveness checks, a value that could not be
  read, and PDO's own failures in between. Of PDO's own failures they say nothing: the
  run `Stale` does.
* `RefusedOnce` - one exception with the right code, or none and a clean record, and none
  once the connection is open.
* `ReadsTheStream` - the refinement of `ResultStream`.

### Bounds

Session: three session ids, so one can be held, a second started and a third replace
it while a request naming the first is under way; two for `Returns`. A scope of two,
the first required and the second optional: the shortest with both kinds and with a
"part-way"; of one in `Manual`, where it opens a transaction of its own. Two statements: the first sets up what the second may lose; a third would
repeat the second's situation. One abandoned request, which meets every later step of
either call. Liveness checks, expiries and restarts are not bounded. `SYMMETRY` on
session ids is used in safety runs only.

`SessionTexts` reads pairs because the flags of a request are a left fold of its
statements: any effect of one statement on the reading of the next shows in a pair.
`RequestsMissNothing` and `RequestsInventNothing` make this an argument: what the run
finds of the requests of one statement holds of those of any number.

`Rendering`: the scanner looks at most two characters back and one ahead, and what it
is inside of is opened by one fragment and closed by another: three fragments hold a
stretch, what stands before it and what stands after. The longer texts put a marker
between two openers before and one after. Numbers of up to four characters go through
every branch of `is_numeric_literal`; its reference `Numeral` is the
grammar, which says where the parts of a number may lie and does not scan for them.

`Answers`: two addresses (a failed one and one after it), head and body of two pieces
each, chunks of four units and one of all; a depth limit of two, with documents at it
and one deeper. Documents one unit away from an answer reach every failing line of
the parser; those with faults reach every allocation.

`Cursor`: the answers include no result set, an empty one, one without columns, one
without rows, and several of different sizes; three executions hold a success, a
failure and a success in any order; a scope of four, as the code has.

`CHECK_DEADLOCK FALSE` is in every run because each system may be over: a connection
closed after its last statement, a request read, a statement rendered, an answer read.

Distinct states: Tracking 1.8e6, Manual 5.6e6, Returns 1.0e4,
SessionTexts 8.0e4, Rendering 5.8e5, Answers 2.2e5, Cursor 1.4e6.

### Fairness

`CallsReturn` assumes weak fairness of `Post`, `GiveUp` and `Receive`: the driver is
one thread that sends when it stands at a `post()`, reads an answer that came, and
with a timeout above zero stops waiting. Nothing is assumed of the engine or the
application: it holds although the engine may lose the session at every exchange.

`Ends` assumes weak fairness of the driver's own steps, `SO_RCVTIMEO` being one of
them, and nothing of the server. The timeout is per `recv`, so the time an exchange
takes is not bounded by it: a server that trickles holds the call for as long as it has
bytes to send. There is no clock in the model, and answers are finite.

With a timeout of 0 the driver does wait for ever, by the application's own choice.

### Mutants

Each module carries, before some definitions, a variant a plausible slip would
produce (`LossRepairedBare`, `HeldOnceForgotten`, `ClearResultKeepsColumns`,
`BareNumber`, `StaysAtCRLF`, ...). `PROJECT.json` pairs each property of each passing
run with one; put in place of the original, the run finds the property violated.

### Disagreements the model shows

These runs end in a counterexample; `PROJECT.json` "findings" quotes both sides.

* `Unheard` - an effect whose answer was lost is unknown to the driver, so the loss of
  its session is repaired over, where the README says the statement is not re-run.
* `Late` - a `USE` of the scope that timed out runs late, over context the application set
  up since, where the README has context last as long as the connection.
* `Opening` - with autocommit off, a transaction only the scope's `USE`s opened is unknown
  to the driver, so the loss of its session is repaired over, where the README counts any
  statement. Nothing of the application's is in it.
* `Stale` - after a failure, `quote()` fails with PDO's `IM001` and the earlier failure's
  message; so do attributes, and on a statement every attribute.
* `Unset` - where a literal finds no memory, `render_statement` answers NULL with
  neither the SQLSTATE nor the message its declaration promises.

Others were met while modelling and have no run of their own:

* Toward an older engine the liveness check sends a bare probe without `requireSession`
  (`wire.c:353-357`), which passes in a fresh session: the handle is reused though what the
  lost session held is gone, against `driver.c:218`. With `Legacy`, TLC refutes
  `ReusedOnlyIntact`.
* After an upgrade, context set by the very statement that met the fresh session is
  overwritten by the scope (`wire.c:133-136`, README "Sessions"). With `Legacy`, TLC refutes
  `ScopeNotOverContext`.
* `BEGIN USE SCHEMA X; END` is not flagged: the piece up to the semicolon starts with
  `BEGIN` (`sql.c:620`), though splitting blocks is said only ever to flag more
  (`sql.c:600-602`). `NothingMissed` is false of it.
* With autocommit off `(SELECT 1)` counts as no statement, since its first byte is of no
  word (`sql.c:627`), though any statement is said to count (`sql.c:628`). `NothingMissed`
  is false of it.
* A stream bound to a name used twice sends its bytes at the first place and `X''` at the
  second (`sql.c:350-361`); the README's table has `X'...'` for a stream.
* `skip_non_placeholder` asks `isalnum`, `is_word_byte` counts bytes beyond ASCII as
  word characters too (`sql.c:83-85` and `492-493`): right behind such a letter `$$`
  and `:name` are read differently by the two.
* The README calls the timeout one for the statement; the code sets one for each `recv`
  and `send` (`http.c:60-66`).
* A `\u0000` in an answer ends the value where C strings are used to read it.

## 4. The proofs

All are checked by TLAPS, from the assumptions on constants the modules state
(`EngineAssumption`, `SessionAssumption`; `RequestsAssumption`; `GroupsAssumption`,
`ValuesAssumption`; `HttpAssumption`, `DepthAssumption`; `CursorAssumption`,
`ConnectionAssumption`) and the hypotheses the theorems themselves name.

`FrostlakeSession_proofs`, for every finite or infinite set of sessions, every scope
of up to four items, every set of statements and all bounds:

* `TypeCorrect` - `Spec => []TypeOK`. `TypeOK` alone is not inductive: starting the
  scope over sets `i` to 1, which is in range only if there is a scope. `TypeInv` adds
  that the call stands in `apply_scope` only then (`ScopeIsThere`).
* `RunsAtMostOnce` - `Spec => []AtMostOnce`, and `ReportsAreTrue` -
  `Spec => []ResultsAreTrue`. That a run count is at most one says nothing of the next
  run, so the invariant `LedgerInv` says who can still run a statement: the request in
  progress is the running call's own (`RightRequest`); until it is answered with
  something other than "gone" the call's statement has run no times and no abandoned
  request carries it (`OpenCall`); an abandoned request is the only one that carries
  its statement, which has not run and was not reported as settled (`AbandonedOnce`);
  statements not yet sent are untouched (`FutureCalls`). A call that returns passes
  from `OpenCall` to `AbandonedOnce` exactly when it timed out; `Settled` is that step.
* `OnlyTrackingEnginesAsked` - `Spec => []OlderEngineNotAsked`. `KnownInv`: what the
  handle believes of the engine, what an answer says of it and what a request requires
  are each true of the engine now running, since it is replaced by a newer one only.
* `NothingLostSilently` and `FitIsIntact` - `Spec => []NoSilentLoss`,
  `Spec => ReusedOnlyIntact`, both for `~Legacy`: an engine that tracks sessions from the
  start. With an older one neither holds: TLC refutes both. The invariant `KeepInv` says that a promise is covered
  (`Covers`): its session is the handle's and the handle knows of it, as `dirty` or
  `in_transaction`, so that a loss is reported rather than repaired; that nothing is
  owed wherever the scope may still be put on a session (`OwesNothing`); that a request
  names the handle's session and requires it, so that an answer comes from there
  (`WhichSession`); and who is calling (`WhoCalls`).

`SessionPicture_proofs` and `SessionContract_proofs`, for the
same instances:

* `DropsOnlyTheDead` - `Spec => KeepsALiveSession`, for every engine. `NamesInv` says
  which session a request and its answer name (`RequestNames`, `AnswerNames`): a request
  the handle's; an answer none at all, where it is a fault or says that a required session
  is gone, or the handle's, or another one where the handle's is dead and was not required.
* `PictureIsSound` - `Spec => []PictureSound`, and `OnlyTheCleanIsRepaired` -
  `Spec => RepairsOnlyTheClean`, in both modes and for every engine. With autocommit off
  `Ping` and `Use` open transactions, which never become `"work"` without a statement of the
  application (`OwnOpensBare`). `PictureSound` says nothing while an answer is on its way
  and nothing of a session the engine has lost, so `PictureInv` extends it to both: the
  handle knows of the session it names, dead or alive (`HandleKnows`), and once that
  session has answered it is the handle as it will be after the answer is taken in
  (`After`) that must know of it (`AnswerKnows`). It covers that absorbing comes before
  tracking, and that a late request is never one the picture is taken to show.
* `ScopeComesFirst` - `Spec => ScopeFirst`, for every engine. `ScopeInv` counts the items
  the session was given against those due (`Given`, `Owed`): those before the one
  `apply_scope` is at, none while the scope is pending, all otherwise, save the one a `USE`
  of the factory is just adding. It counts only where a session can be told from its
  replacement; that the driver can do so as soon as a session of a tracking engine is the
  handle's, or the scope is pending, is `Learned`, and of an answer on its way `AnswerGives`.
* `ScopeSparesContext` - `Spec => ScopeNotOverContext`, for `~Legacy`; with an older engine
  TLC refutes it. `SpareInv`: while a `USE` of the scope may yet be sent, the
  session it will go to holds nothing of its own, and no statement given up on, which could
  still bring it context, is on its way there (`OwnOnly`).
* `KeepsTheContract` - `Spec => ImplementsContract`, for `~Legacy`. The promise a session
  keeps, and whether it still does, is read off `promised` and the sessions (`KeptNow`);
  each action is then one of the contract's or a stutter (`Maps...`). `CallsInv` adds to
  the invariants above that the running statement is the latest sent, that the others
  are answered, and that a late run is of one whose answer did not come.

`SessionTracking_proofs`, for requests of any number of statements of any length:

* `RequestsMissNothing` - if every statement of the requests is read safely (`ReadSafely`:
  nothing it leaves behind escapes `touches_session` and `transaction_effect`), then
  `Spec => []NothingMissed`; `RequestsInventNothing` likewise with `ReadExactly` and
  `NothingInvented`. The hypotheses are what the two properties say of requests of one
  statement, and hold of the 27 forms of the run SessionTexts, which checks them; of a
  scripting block, and of a query in parentheses with autocommit off, they do not hold. What remains to prove, and
  is proved, is the fold: `dirty` gathers over the statements, `in_transaction` is the
  last one's that says anything, in either mode.

`AnswerReading_proofs`, for every document, framing and depth limit, any number of
addresses, and any lengths of head and body:

* `EverythingGivenBack` - `Spec => []NothingLeaks`. `HeldIn` says what `http_request`
  holds in each phase. For the parser `NothingLeaks` says nothing until it is over; the
  invariant `JsonInv` says where the blocks allocated are at any time: in the value just
  returned, and in the containers being parsed with their keys (`Hold`). `Hold` is a sum
  over the stack, stated as "there are partial sums" so that pushing, popping and
  replacing the innermost container (`Pushed`, `Popped`, `Replaced`) need no induction.
* `TimeoutsComeAfterSending` - `Spec => []TimeoutMeansSent`: from `receive` on, and in
  any failure that is said to be one of reading, all of the request is out (`AllOut`).
* `BodiesAsWritten` - `Spec => []BodyAsWritten`, for chunks of any size above zero.
  `ChunksDecoded`: from the start of a chunk on, what `decode_chunked` makes of a
  beginning of the rest of the stream (`Begins`) is a beginning of the rest of the
  document (`Part`), and all of it of all the stream (`AllOf`). It is proved from the end:
  of one chunk, arrived in full or in part, and what is decoded of those behind it.
  `WrittenInv` carries that to `http_request`.
* `AnswersTyped` - `Spec => []TypeOK`. That the parser stays within its text (`PlaceInv`)
  rests on where `parse_string_body` goes on: behind a closing quote there is, or the
  string is refused (`BodyFunction`, `StringBodyIs`).
* `PartsAreRefused` - `Spec => []NoPartIsTaken`, for objects of any depth. `TextInv` ties
  the parser to the text: wherever it reads on, no string is open in the text before it
  and as many containers are as it is inside of (`Clear`). It follows over blanks and
  digits (`RunClear`), over a string with its escapes (`StringClear`), and by a bracket.
  So a text that is accepted leaves nothing open at its end, which no beginning of an
  object does (`BeginningRead`); where it leaves nothing open, only blanks can be missing.

`Placeholders_proofs`, for every text of any length and every binding, by position, by
name or both. `GroupsAssumption` says what a binding is: finitely many values, by
position from the numbers, by name from texts that begin with a colon and have more, which
is how PDO files them. `ValuesAssumption` says what its values are: what PHP prints for an
integer, or a finite double, is a number; for the others it prints `NaN`, `inf` or `-inf`;
a stream not bound as a LOB is a resource with a name; and of a LOB's bytes `Hex` has the digits (it has those of four characters, enough for
quote, backslash and what needs no care).

The scanner (`PastQuote`), the automaton (`Reading`), `IsIdentifier`, `FlattenSeq` and
`Unquoted` are recursive functions. That there are functions of these equations is proved
first, each from its pieces, and what they compute then by induction on the length or on
the place from the end. The induction rules (`SetInduction`, `UpFrom`, `DownFrom`) are in
`Induction`, derived from `LeastElement`, which is the library's theorem on well-founded
orders applied to the numbers: rules stated over sets, not over operators.
`AnswerReading_proofs` proves its recursive functions the same way.

* `MarkersSubstituted` - `Spec => []SubstitutesTheMarkers`. Where the loop stands, the
  automaton is in code with nothing half open (`PlaceInv`, `CodeAt`); from such a place
  `Skip` takes the scanner to another with no marker in between (`SkipPasses`, from
  `QuotePasses`, `PairPasses`, `CodePasses`). So what was substituted are the markers in
  front of the loop, in order (`MarkInv`).
* `AcceptedWhereItFits` - `Spec => []AcceptsWhatFits`. `CountInv` ties what the loop counts
  to the markers met: positions to question marks, names to the names of the rest. The
  counts agreeing at the end is then enough: positions run from 0 without a gap, and names
  looked up are all bound, so as many as bound means the same ones (`AsManyAsBound`).
* `LiteralsStayShut` - `Spec => []ReadsTheSame`. `StepInv` compares the two readings state
  by state, not mode by mode: of code, also the character that may open something with the
  next. `LiteralReads` says of each kind of literal that it is read from code to code with
  nothing left half open, provided that a number with a minus sign keeps its distance.
* `ValuesReachTheEngine` - `Spec => []ValuesArrive`. `UnquotedQuoted`: what
  `append_string_literal` writes stands for the text it was given, for every text;
  `NumericIsNumeral`: `is_numeric_literal` takes exactly what the grammar takes. What is
  drained is what was substituted before (`SentBefore`).
* `IdentifiersStayWhole` - `Spec => []NamesStayWhole`, and `StaysInTheText` -
  `Spec => []TypeOK`, whose invariant `FormInv` says that what is written is text and that
  a literal is never empty.

`PdoConnection_proofs`, first of the statement alone, for every set of answers, with any
number of result sets, rows and columns, and any number of executions:

* The invariant `CursorInv` is `NoDangling` and `ErrorsInStep` with three parts they
  do not say: the types (`CursorType`); that a row pointer leads to a result set the
  answer has, one with rows, and that the cursor is not past them (`OnAResultSet`);
  and that a held answer is walked without rows only where there are none (`NoRows`).
  The first is what keeps `get_col` within the answer, the second is why the end of
  rows is told only at the end.
* `StatementReadsTheStream` - `Spec => ReadsTheStream`. `Remaining` is what is left of
  an answer as a function of where the cursor stands; four lemmas say what a row taken
  (`RemainingRow`), an end (`RemainingEnd`), the next result set (`RemainingSet`) and
  a new answer (`RemainingAll`) make of it; then each operation maps to a step of
  `ResultStream` or to none (`ExecuteStreams` ... `ColumnMetaStreams`).

Then of the connection around it, for every length of the scope besides:

* `StatementRefined` - `ConnectionSpec => Spec`, by which what is proved of the statement
  holds through a connection: `NothingDangles`, `StatementErrorsInStep`,
  `ConnectionReadsTheStream`, and with the rest of the types `TypesHold`.
* `ThrownOnce` - `ConnectionSpec => []RefusedOnce`, and `ConnectionMessageInStep` -
  `ConnectionSpec => []MessageInStep`. The invariant `ReportInv` says where the methods are
  set (`MethodsSet`), on which it depends whether `Error` throws (`ErrorKeeps`), and follows
  a failure from its record to the exception: in `use_object` it is on record and not
  thrown, from `cleanup` on the one exception is PDO's code (`OneFailure`).

Each preservation lemma has one step or lemma per action. The invariants were first
checked with TLC.

Only model-checked:

* the liveness properties `CallsReturn` and `Ends`: TLAPS has no rules for fairness;
* what single statements are read as: the words in front, the modifiers, and that the
  forms of the run SessionTexts are `ReadSafely` and `ReadExactly`, are computed on texts;
* of the answers `SucceedsAsSaid`, `ReadsWhatArrives`, `AcceptsJson` and `ReadsBack`:
  `AnswerTexts` defines trees and texts by recursive operators, over which the prover has
  nothing to say. Their text side is proved: that the body is what was written, and that
  a part of it leaves something open.

## 5. Not modelled, and why

* Attributes, with the statement count a statement copies from them, PDO's `in_txn`, and
  several PDO objects on one persistent handle: much of it is PDO's own code (see section
  6). `LetGo`, `StillHeld` and `CheckLetsGo` stand for the reference count that
  `check_liveness` looks at.
* Calls on a closed handle meet only the driver's own checks for one; that PDO makes such
  calls at all is its own code.
* `describe`, the texts and PHP types `get_col` makes of values, column type names and
  sizes: tables and conversions without state.
* JSON numbers are runs of digits, escapes those of quote and backslash: the parser's
  looser number forms, control characters, and `\u` with its surrogates are left out, and
  so is a NUL in a document, where the code's own lengths and C strings differ. The growth
  of `fl_strbuf` is one allocation that may fail.
* The case of header names, several headers of one name, and status lines: the headers
  are one unit. The HTTP status is in `FrostlakeSession`, as the "gone" answer.
* Letters beyond ASCII in a statement; binary literals are two digits to a character.
* Chunk sizes are those of a server that means its answer: `strtol`'s negative values, and
  sizes so large that adding them wraps, are left out.
* Memory exhaustion outside rendering, answers and `get_col`; module registration; a clock.

## 6. Plan

1. Persistent handles: several PDO objects on one handle, the reference count and PDO's
   `in_txn`; attributes and `multiStatementCount` from a connection to its statements.
2. Character references (`\u`, surrogates) and numbers in `JsonReader`; header lines in
   `HttpExchange`.
3. `AnswerTexts` with recursive functions in place of its operators, to prove by induction
   over the text that the parser accepts exactly JSON and that its tree is the text.
4. `SessionTracking` with its tokens made out of characters, shared with `Placeholders`,
   so that the scanner both use is checked once, bytes beyond ASCII included.
