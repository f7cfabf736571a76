# fdm: specifications, checks and proofs

fdm fetches mail from POP3, IMAP and NNTP servers, from mbox files, maildirs and
standard input, tests every mail against a ruleset and delivers it. This directory
holds TLA+ models of its parts, the TLC configurations that check them on small
instances and theorems about them that TLAPS checks for every value of the
constants. References such as `child-fetch.c:405` are to the source files.

    tlc -workers 2 -config FetchLoop.cfg MCFetchLoop     # one run
    tlapm FetchLoopProofs.tla                           # the proofs of one module

## 1. Inventory

fdm is one parent process (root, or the invoking user) and two kinds of children,
joined to it by socket pairs that carry `struct msg`. A *fetch child* runs the
fetch loop of one account; a *deliver child* runs one delivery or one command and
exits.

| Part | Source | State | Operations |
|---|---|---|---|
| parent | `fdm.c`, `parent-fetch.c`, `parent-deliver.c`, `child.c` | the children and their ios, dead children, pending signals, the lock file | start fetch children up to a limit, read messages, fork deliver children, forward results, reap, terminate everything on a signal |
| fetch loop | `child-fetch.c`, `privsep.c` | match queue, deliver queue, counters (`fetch_queued`, `fetch_blocked`, dropped, kept), holding and complete flags | fetch, match, deliver, poll, enqueue, dequeue, purge, exit handshake |
| mail state machine | `mail-state.c` | a `mail_ctx` for each mail: rule, expression item, result, stack of nested rules, queue of deliveries, outstanding message id | walk the rules, ask the parent, take its answer |
| protocol handlers | `pop3-common.c`, `imap-common.c`, `fetch-nntp.c`, `fetch-mbox.c`, `fetch-maildir.c`, `fetch-stdin.c` | a state function, what is to fetch, what is to delete, counts, caches | one state function per answer, commit, abort |
| deliver children | `child-deliver.c`, `deliver-*.c` | the mail, the user, the answer code | deliver or run a command as a user, report, exit |
| commands | `command.c`, `timer.c` | a process, up to three pipes, what is left to write | start, write and poll and read a line, collect the status |
| buffered I/O | `io.c`, `buffer.c` | read and write buffers, closed and error flags | poll, fill, flush, read a line |
| connections | `connect.c` | a socket, a proxy, TLS | look up, connect, talk to an HTTP or SOCKS proxy, start TLS |
| locks and files | `file.c`, `cleanup.c` | lock files, the list of files to remove on a fatal exit | lock, create, move, clean up |
| shared memory | `shm-mmap.c`, `mail_*` of `mail.c` | a memory file for each mail, mapped by up to three processes | create, resize, send, receive, close, destroy |
| caches | `db-tdb.c`, `cache-op.c` | a tdb of keys and times; in each process a handle | open and expire, add, remove, test; by hand add, remove, list, dump |
| conditions and actions in the child | `match-*.c`, `deliver-*.c` that need no user | the text, tags and attachments of the mail, a cache | test the text, the tags, the attachments, the cache; tag, add and remove headers, add to and remove from a cache, keep, drop |
| configuration | `parse.y`, `lex.c`, `parse-fn.c` | files being read, macros, blocks, open rules; then the ruleset, actions, accounts | switch files, skip blocks, define macros, build rules; once, at the start |
| mail text | `mail.c`, `attach.c`, `replace.c`, `re.c`, `strb.c`, `mail-time.c` | one mail: its text, the offset of the body, folds, attachments, tags, the bracket of the last match | find, insert and remove headers, fold, MIME, tags, regular expressions, dates |

How they interact:

- The fetch loop calls its *handler* (a table of functions, `struct fetch`) once a
  turn; the handler answers `FETCH_AGAIN`, `FETCH_BLOCK`, `FETCH_MAIL`, `FETCH_EXIT`
  or `FETCH_ERROR`. When the loop is done with a mail it calls the handler's
  `commit`; when it gives up, `abort`.
- Matching and delivering are in part done in the fetch child and in part by a
  deliver child. For the latter the fetch child writes `MSG_ACTION` or
  `MSG_COMMAND`, the parent forks a deliver child (`parent_fetch`), which answers
  `MSG_DONE`, which the parent forwards (`parent_deliver`) with the id of the request.
- At the end the fetch child writes `MSG_EXIT`, the parent answers it, and the child
  exits. The parent reaps on SIGCHLD, kills the deliver children of a dead fetch
  child, and closes the socket of a child it finds dead.
- A mail is never copied from process to process: `struct msg` names its memory file,
  which the fetch child has created, the parent opens, and a deliver child inherits.
- Mbox files, maildirs, lock files and caches are shared by all of these
  processes, those of other instances of fdm and the user's mail reader.

What is hard, and what makes each part correct:

| Part | Hard | Correct when |
|---|---|---|
| fetch loop, mail states | replies in any order, one read a turn; several mails at work; a count decides how long to sleep; failure with deliveries outstanding | each delivery a rule asks for is made once, before the commit; no reply is lost; the loop never sleeps on work; the queues are bounded; the fetch ends |
| parent | deaths and signals at any point; a flag reset after `waitpid`; children that depend on children | every request is answered, nothing is left running, the parent ends |
| POP3, IMAP, NNTP | indexes and uids that change with a connection or folder; commits that come late; purges; a run cut short | only what was dropped is deleted; nothing settled is fetched again; the waits for counts end |
| mbox, maildir | files rewritten in several calls, with a crash between any two; other programs at work on them | nothing is lost that was not dropped; what is found is whole |
| commands | a program that reads, writes, closes and exits as it likes, over pipes of a limited size | neither waits for the other for ever; all it has written is read before its status |
| shared memory | who removes a file that others may be about to open; one process changes what another reads | who removes a file or is sent its name finds it; none is left; a delivery has the mail as it was |
| SMTP, IMAP delivery | refusals and silence at each step; answers of several lines; a mail that looks like the end of one; a proxy in between | a success means the server has the whole mail, once; nothing else is accepted; it ends |
| locks | two kinds of lock, one of them a file that a signal handler removes | nobody else is in the file; deliveries end |
| caches | fetches, an expiry and the user at one cache; a run cut short between a delivery, the cache and the server | what is dropped as a duplicate has been delivered |
| mail text | offsets that every edit must correct; a rewrite puts another text in their place | what is remembered of a text is true of it; a mail changes only as its rules say |
| configuration | a lexer that acts on what the parser may not have finished; one flag for nested blocks; files in files | read as written, or refused |

## 2. Modules

| Module | Models | Uses |
|---|---|---|
| `MailState` | a mail's context: `mail_match`, `mail_deliver`, `apply_result`, `start_action`, `finish_action` as operators | |
| `FetchLoop` | the fetch child with its sockets to the parent and to the server; the parent and the deliver children as far as they answer | `MailState`; `MailPromise` by `INSTANCE` |
| `MailPromise` | abstract: what fdm promises of every mail | |
| `FetchLoopProofs` | theorems about the three, and about `RuleWalk` | |
| `LoopTurn` | a turn of the fetch loop as a handler sees it, with `fetch_purge` | |
| `Pop3`, `Imap` | the two handlers, with the server, the cache file, other clients | `LoopTurn` |
| `Pop3Proofs`, `ImapProofs` | theorems about them | |
| `Nntp` | the news handler, with the server and the cache file | |
| `Mbox` | the mbox handler with the files it replaces | |
| `Parent` | the parent with all its children and the signals | |
| `ParentProofs` | theorems about it | |
| `DeliverMbox` | deliver children and a fetch child on one mbox, with the locks | |
| `Maildir` | a deliver child, a fetch child and a mail reader on one maildir | |
| `DeliverMboxProofs`, `MaildirProofs` | theorems about them, the first also about `Mbox` | |
| `Io` | the poll of several pipes, filling a buffer, reading a line | |
| `Command` | a command that a deliver child runs, with the command | `Io` |
| `Shm` | the memory files with the three kinds of process that use them | |
| `DiskProofs` | theorems about `Shm` and `Nntp`, the files fdm keeps for itself | |
| `Connect` | a connection, straight or through a proxy, with the proxy | |
| `NetDeliver` | the delivery of a mail over SMTP or IMAP, with the server | `Connect` |
| `DeliverChildProofs` | theorems about `Command`, `Connect` and `NetDeliver`, what a deliver child talks to | |
| `MailText` | the text of a mail with what fdm remembers of it: headers, folds, tags, regular expressions | |
| `Attach` | the tree of attachments of a text and the walk through it | `MailText` |
| `Cache` | a cache with the handles on it, expiry, `fdm cache` | |
| `RuleWalk` | mails of two accounts under rules that test and change text, attachments and a shared cache | `MailState`, `Attach`, `Cache`; `MailEdits` by `INSTANCE` |
| `MailEdits` | abstract: a mail is delivered as given, with headers added and removed as its rules say | |
| `Config` | the reading of the configuration: lexer, macros, blocks, included files, nesting of rules | |
| `MC…` | the constants of TLC's instances; `MCRuleWalk` has the configuration read before mails are fetched | |

### FetchLoop and MailState

`pc` is the place in `fetch_account`'s loop: `Top` (reset `fetch_blocked`, read at
most one reply), `Match…` and `Deliver…` (a pass over each queue, one action per way a
mail can go on), `Handler…` (one per answer of the handler), `Poll` and `PollTimeout`
(the poll, with its timeout chosen from the counts), `Finish` and what follows it (the
handshake). `matchq`,
`deliverq`, `queued`, `blocked`, `holding`, `complete`, `aborted` are the code's
variables; `todo` is the rest of the running pass. The order inside a queue is left out:
every order is possible. `toParent`, `jobs`, `wire`, `rd` are the stations of a request
and its answer: the socket to the parent, the deliver children, the socket back, and the
read buffer, which a poll or a flush fills with any number of answers at once. `lost`
holds the requests whose deliver child has died.

`ctx[m]` is the `mail_ctx`. A condition of the child is a free choice except `matched`
and `unmatched`; a rule's actions are marked by where they run: in the child, in a deliver
child, or in one that writes the mail back. The ruleset is a constant, so the theorems
speak of every ruleset the parser can produce.

`need[m]`, `did[m]` and `commits[m]` record the deliveries asked for, those made, and the
decision passed to the handler; no guard reads them. They are what `MailPromise` is
refined by.

### The handlers

`st` is `fctx->state`. The answer of the server that a state waits for is part of the
action that handles it; a login is one action. `flight` is the mails in the fetch loop,
which settles them in any order and at any time. The handler is called only while fewer
than `QueueHigh` are in flight. The connection can be lost, or fdm stopped, in every
state, and fdm is then run again: variables of the process are reset, those of the server
and of the disk remain. What the handler's code forgets at such a point and what it keeps
(`pop3_free`, `imap_free`, `fetch_nntp_abort`) is what the runs are about.

`Pop3` numbers messages by their place in `session`, the server's list in this
connection. `Imap` has one set of mails per folder; a uid says nothing of its folder, as in
the code. `Nntp` has articles with numbers, and an epoch that changes when the server
numbers them afresh. GROUP makes the first article of a group the current one (RFC 977, 3977) and NEXT goes on from
there, so that the first is never fetched (section 6); articles expire from the oldest, one that is cancelled
is left out. `Mbox` has a file as a sequence of pieces with or without a `From `
line and takes `fetch_mbox_save` apart into its system calls, any of which may fail (`SaveFails`,
`Stops`) or be the last.

### Parent

One action per block of `main`'s loop (`Top`, `Start`, `Poll`, `Handle`, `Reap`, `Clear`,
`Close`, `Stop`, `WaitForAll`). A child works, writes, closes its socket and becomes a
zombie at any point between. `Worlds` says what may go wrong in an instance.

### DeliverMbox and Maildir

The steps are the system calls between which another process can come in. A process
killed by SIGTERM runs `cleanup_purge` if it has not blocked the signal. Files are inodes
(`DeliverMbox`), so that a process may have one open that no longer has the path, or names in
directories (`Maildir`). The size the fetcher takes of an mbox is `seen`, what was in the file then, a mail that was
being written in part only; what it copies and truncates later is that and no more. Two history variables, `late` and
`astray`, have the mails written behind that size and the deliveries that locked a file without the path.

### Command and Io

A mail and what a command writes are sequences of pieces, `text` or `eol`. `pc` is the place
in `cmd_poll`: the write, the poll of `io_in`, `io_out` and `io_err`, the line, the wait for
the status; its callers (`deliver_pipe_deliver`, `deliver_rewrite_deliver`,
`child_deliver_cmd_hook`) call it again until there is a status, an error or a line that is
enough. `held` is the ends of the pipes the command still has, or a process it has started.

### Shm

`files` is the names in the temporary directory, `listed` the cleanup lists of the fetch child
and of the parent, `file[m]` what a mail of the fetch child is in. `doing` says in which part of
`mail_open`, `mail_receive` or `mail_destroy` the fetch child is, as SIGTERM may come between
any two of their calls; the parent's handler only sets a flag. The requests are those of
`FetchLoop`, one file name in each. A rewrite has two mails in the parent, and
`child_deliver_action_hook` closes one of them and closes or destroys the other.
`folded` is what `set_wrapped` has last made of the header lines in a file.

### Connect and NetDeliver

`conn` is the place in `connectproxy`, `st` in `deliver_smtp_deliver` or
`deliver_imap_deliver`; `wire` is what has come and `inp` is `io->rd`, so that a poll that waits
for something new and a read of what is there differ as they do in `io.c`. A unit is a byte
of a SOCKS proxy or a line; the mail is lines of characters, as dots and the last LF matter.
The server is any server: it accepts or refuses, answers in one line or two or with an untagged
line before, keeps silent, or lacks the folder and says so early or late. The IMAP login, which
is `Imap`'s, is one exchange; tags are left out.

### RuleWalk, MailText, Attach and Cache

A text is a sequence of pieces, each a line: a header, a fold of the header before, the blank
line, text, the delimiters of MIME, the `From ` of an mbox. An offset is an index into it. The record
`mail` has what `struct mail` has: the text, `body`, the `wrapped` array, the tags, the bracket
of the last match (`rml`), the attachments once they are built. `at[m]` is where the mail is (on its
server, in the match or in the deliver queue, settled), `mctx[m]` its context as in `FetchLoop` (there `ctx`), and `job[m]`
what the parent does for it: a condition that runs a command, a delivery, or a rewrite that comes
back with one of `setup.rewrites`.

The fetch children are processes that do one step at a time. `open_cache` comes with its
expiry, which reads and deletes item by item, and remove-from-cache looks for its key in one step
and removes it in another (`half`); between them the other child and the user may come in. A fetch
child may be killed, or end by an error, at any point, and fdm is then run again.

`setup` chooses the first rule, the mails and what else happens (a clock, changes by hand), so that
one run has several rulesets: `d…` delivers once per Message-ID, `f…` adds to a cache and forgets
again, `e…` edits, `a…` looks at attachments and has mails rewritten. `delivered`, `drops`,
`said`, `parts` and `byHand` are history; no guard reads them but the bound on `byHand`.

### Config

A file is a sequence of statements, a statement one of tokens. `files` is `parse_filestack` with
`parse_file` on top, and the actions are what `yylex` comes to: a token for the parser, a block,
an `include`, the end of a file. `fresh` says that `yylex` has been called and not begun to read,
which is when it switches files. The parser is a function of its state and a token
(`Take`): a string may go on with `+` and a rule with `continue`, so `Reduce` comes with the token after.
`Meaning` is what the manual says the files mean, without a lexer: blocks hold if
their macro is defined and the block around holds, and a file stands where it is included.

## 3. Runs

| Run | Instance | What it shows |
|---|---|---|
| `fetch_loop` | 3 mails, 2 at a time, a ruleset with a nested rule, `or`, `not`, a command and three kinds of action, one `FETCH_AGAIN` too many | `OneOutstanding`, `QueueBound`, `SleepsOnlyIfAllWait`; the loop implements `MailPromise` (`KeepsPromise`); it ends (`FetchEnds`) |
| `pop3` | accounts of four kinds, 2 messages and one that arrives, a purge after every mail, 2 runs | `DeletesOnlyDropped`, `FetchedOnce`, `SettledNotFetchedAgain`, `RunEnds` |
| `imap` | 3 folders, mail in one or with the same uids in two or three, accounts of four kinds, a purge after every mail, 2 runs | `DeletesOnlyDropped`, `RunEnds` |
| `nntp` | 2 groups of up to 3 articles, renumbered once, two at a time as is the default, 2 runs | `PassedOverAreFew`, `CommittedNotFetchedAgain` |
| `parent` | nothing fails: two jobs of one account or two accounts at once; everything may fail: two accounts one after the other | `NoOrphans`, `NothingLeft`, `EveryRequestAnswered`, `ParentEnds` |
| `mbox` | 2 mboxes of up to 3 mails, 2 runs cut short anywhere | `NothingLost` |
| `deliver_mbox` | 2 deliveries and a fetch, eight setups of locks, kills and files | `Exclusive`, `WholeMails`, `DeliveredStays`, `DeliveriesEnd` |
| `maildir` | a delivery, 2 mails of which one is too big, a mail reader, 2 fetches | `FoundWhole`, `FetchedOnce`, `DroppedAreGone` |
| `command` | five kinds of caller, a mail of 2 pieces, pipes that hold 1, a line of 2 at most, 2 pieces of output and 2 of errors | `OutputWhole`, `NeverStuck`, `CommandEnds` |
| `shm` | 2 mails, each rewritten once at most; nothing goes wrong, or the fetch child is killed, deliver children die, the disk fills up | `RemovesWhatIsThere`, `MailArrives`, `NothingLeft`, `ReadsFolded` |
| `net_deliver` | 27 setups: SMTP and IMAP, 3 mails, terse and chatty servers, a folder that is there or not; HTTP, HTTPS and SOCKS proxies with each type of address | `ReportedWasAccepted`, `OnlyTheMailIsTaken`, `NothingOfProxyLeft`, `DeliveryEnds` |
| `rules` | first the configuration: a main file of up to 3 statements, or of those in a block with a rule behind, and one file to include, with and without `-D`; then 15 setups of up to 3 mails of 2 accounts, a cache, 2 runs | `ReadAsWritten`; `DroppedWasDelivered`, `RemembersText`; every mail is delivered as `MailEdits` says (`KeepsTexts`) |

The `TypeOK` of `FetchLoop`, `Command`, `Parent`, `DeliverMbox`, `Maildir`, `Pop3`, `Imap` and `Shm`,
the `NetTypeOK` of `NetDeliver`, the `NewsTypeOK` of `Nntp`, the `MboxTypeOK` and `ReferencesCounted` of `Mbox`,
`Pop3!IndexesCurrent` and, up to the first folder with mail, `Imap!ClosedWhenCommitted` are proved (section 5); the `TypeOK` of the other modules
hold in the same instances.

Why the bounds are enough. Three mails with a queue of two is the least at which the
handler is held back while one mail is in each queue and a third is to come. In POP3 and
IMAP a purge after every mail gives a purge with mails before, in and behind it. Two runs
are what a cache file, a half-replaced mbox or a lock file left behind needs to do harm.
Of three articles in a group `nntp` fetches two, as many as it may hold. Two folders, groups or mboxes are needed for
what is kept from one to the next; three folders, because the harm of the second shows in
the third. Two deliveries contend for a lock; a third would only wait as the second does.
A pipe smaller than the mail and the output is what makes both sides of a command block; one
line and a rest, or a line that is too long, fit in two pieces. In `shm` mails only meet in the
cleanup lists and in the order of the messages, for which two are enough. The mails of
`net_deliver` have a line to be stuffed, one that would end the mail, an empty one, one without
an end, and one so short that a `QUIT` can take its place in a literal.
In `rules` two mails with one Message-ID are what a cache is for: in one account they follow each
other, in two they race, and a second run has what the first left. The texts have every shape
an offset can have to deal with: a `From ` line, headers of one, two and three lines, one header
twice, no blank line, no text behind it; attachments in a list, in a tree, and in a tree that ends
with its inner part. Two blocks are enough for nested ones, and a block and a file behind each
other for what a statement leaves to the next.

Bounds on what the program does not bound: `MaxAgain` (idle calls of a handler),
`MaxRuns`, `MaxTries` (attempts at a lock, in the code a time), `MaxClashes` (names taken
in a maildir), `MaxJobs` (requests of a fetch child), `MaxRewrites`, `MaxOut` (what a command writes), `MaxEpoch`, `MaxNo`, `Ino`,
`MaxTime` (the clock), `Age` (`expire` of the cache), `MaxByHand` (`fdm cache` commands).

Some of the passing runs keep away from a defect that section 6 has: `imap` has no
mail that is too large, `rules` has one pattern in a remove-header, no bracket in a
regular expression on a body and the delivery before the add-to-cache, and its `ReadAsWritten` names
the four ways of writing a configuration that are read in another way. In `imap` the counts go wrong from the second folder with mail on:
`DeletesOnlyDropped` is exact for the mails of the first and says which others may be deleted beyond it, and `RunEnds` has one
exception, the wait the second may never leave (`WaitsForEver`). Some properties of `deliver_mbox`,
`pop3`, `shm` and `net_deliver` name the setup (locks in use, nobody killed, unique ids,
room on the disk, a mail that ends in LF, an IPv4 address) under which they hold.

## 4. Fairness

Weak fairness throughout, and only of:

- the child, the parent, the deliver children and the processes that share a file: the
  operating system runs them;
- `PollTimeout`: a poll of silent sockets returns after `conf.timeout`
  (`child-fetch.c:471`), and the loop then gives up; so do the poll of a command and the
  wait for it (`command.c:356`), while the command itself may do anything or nothing;
- in `NetDeliver` the client alone: it gives up on a server that does not answer
  (`conf.timeout` in each `io_poll*`), so that the server and the proxy need not be fair;
- a deliver child's end: commands and connections have a timeout, and it can be killed;
- in the handler models, the answers of the server and the settling of mails by the loop:
  `FetchLoop` shows the latter, and the timeout above stands for a server that never answers.

A server need not answer, nobody has to close a connection, no signal or crash has
to come or to stop coming, except that runs are counted.

## 5. Proofs

A theorem holds for every value of the constants that the named assumptions allow, a run for one
instance. Each module of proofs has one inductive invariant, a conjunction of named parts; TLC has
checked the parts in the instance of the run. The table has the theorems and the property of the
run each of them states ("-": no run states it).

| Theorem | Property | For every |
|---|---|---|
| `FetchLoopProofs!QueueBounded` | `QueueBound` | ruleset, number of mails, queue limits |
| `FetchLoopProofs!SleepsSafely` | `SleepsOnlyIfAllWait` | |
| `FetchLoopProofs!RequestsAccounted` | `OneOutstanding` | |
| `FetchLoopProofs!PromiseKept` | `KeepsPromise` | |
| `FetchLoopProofs!TypeCorrect` | `TypeOK` | |
| `FetchLoopProofs!DropsWereDelivered` | `DroppedWasDelivered` | ruleset that delivers first (`DeliversFirst`), mails, accounts, cache, expiry, runs |
| `DeliverChildProofs!NobodyStuck` | `NeverStuck` | mail, pipe, line, caller |
| `DeliverChildProofs!OutputRead` | `OutputWhole` | |
| `DeliverChildProofs!TypeCorrect` | `TypeOK` | |
| `DeliverChildProofs!ReportedIsAccepted` | `ReportedWasAccepted` | mail, alphabet, set of setups (protocol, proxy, faults) |
| `DeliverChildProofs!NothingElseIsTaken` | `OnlyTheMailIsTaken` | |
| `DeliverChildProofs!ProxyIsDrained` | `NothingOfProxyLeft` | |
| `DeliverChildProofs!NetTypeCorrect` | `NetTypeOK` | |
| `MaildirProofs!MailsAreWhole` | `FoundWhole` | number of deliveries, mails, names taken, runs |
| `MaildirProofs!MailsFetchedOnce` | `FetchedOnce` | |
| `MaildirProofs!DroppedMailsAreGone` | `DroppedAreGone` | |
| `ParentProofs!OrphansAreKilled` | `NoOrphans` | number of accounts and requests, set of failures |
| `ParentProofs!NothingIsLeft` | `NothingLeft` | |
| `ParentProofs!AnsweredOnce` | - | |
| `ParentProofs!TypeCorrect` | `TypeOK` | |
| `DeliverMboxProofs!LocksExclude` | `Exclusive` | number of deliveries, setup of locks and kills |
| `DeliverMboxProofs!WrittenWhole` | `WholeMails` | |
| `DeliverMboxProofs!DeliveredIsKept` | `DeliveredStays` | |
| `DeliverMboxProofs!TypeCorrect` | `TypeOK` | |
| `DeliverMboxProofs!NothingIsLost` | `NothingLost` | number of mboxes, mails and runs, queue limit |
| `DeliverMboxProofs!ReferencesAreCounted` | `ReferencesCounted`, - | |
| `DeliverMboxProofs!MboxTypeCorrect` | `MboxTypeOK`, - | |
| `Pop3Proofs!DroppedDeleted` | `DeletesOnlyDropped` | number of messages and runs, account, purge and queue limits |
| `Pop3Proofs!OnceARun` | `FetchedOnce` | |
| `Pop3Proofs!SettledStay` | `SettledNotFetchedAgain` | |
| `Pop3Proofs!IndexesFollow` | `IndexesCurrent`, - | |
| `Pop3Proofs!TypeCorrect` | `TypeOK` | |
| `ImapProofs!DroppedDeleted` | `DeletesOnlyDropped` | number of folders, mailboxes and runs, account, limits |
| `ImapProofs!CommittedBeforeClosed` | `ClosedWhenCommitted`, - | the same; up to the first folder with mail |
| `ImapProofs!TypeCorrect` | `TypeOK` | the same |
| `DiskProofs!RemovesFound` | `RemovesWhatIsThere` | number of mails and rewrites, setup of kills and failures |
| `DiskProofs!MailFound` | `MailArrives` | |
| `DiskProofs!NoneLeft` | `NothingLeft` | |
| `DiskProofs!FoldedRead` | `ReadsFolded` | |
| `DiskProofs!TypeCorrect` | `TypeOK` | |
| `DiskProofs!FewArePassedOver` | `PassedOverAreFew` | number of groups, articles, numberings and runs, limit of the queues |
| `DiskProofs!CommittedStay` | `CommittedNotFetchedAgain` | |
| `DiskProofs!NewsTypeCorrect` | `NewsTypeOK` | |
| `DiskProofs!OneAtATime` | - | the same, with a limit of 1 |

What a property says of its setup it says in the theorem too: `Exclusive`, and `WholeMails` and `DeliveredStays` where the
mbox is fetched from, that the locks exclude, `SettledNotFetchedAgain` and `FetchedOnce` of `Pop3` that unique
ids are used (without them `pop3-common.c:490` goes past the cache), `RemovesWhatIsThere` that the disk has room,
`NothingOfProxyLeft` that a SOCKS proxy answers with an IPv4 address, `ReportedWasAccepted` and
`OnlyTheMailIsTaken` that every line of the mail has its LF (section 6 has what happens to one that has not).

Assumed are the assumptions each module declares, which TLC evaluates in each run: natural numbers
and finite or disjoint sets where they are declared so (`MaildirAssumption`, `ParentAssumption`,
`DeliverMboxAssumption`, `MboxAssumption`, `Pop3Assumption`, `ImapAssumption`, `ShmAssumption`), positive sizes (`IoAssumption`,
`CommandAssumption`), a queue that can hold a mail (`LoopTurnAssumption`, `NntpAssumption`), a mail of at least one line, none of
them empty (`SetupsAssumption`: a line has its LF, and an empty mail is not delivered, `child-fetch.c:563`), items and actions
of the kinds `parse.y` makes (`WalkAssumption`, with `CacheAssumption`), and for `FetchLoop`
`FetchAssumption`, `NoMsgAssumption`, `RulesetAssumption`: `queue-low < queue-high` as `fdm.c:471-473`
makes it, a rule with a nested block has no actions of its own as `parse.y` has it. The theorems do not
assume a socket (`HasSocket`) or anything of `-k` (`KeepAll`), which the run has fixed.
Two theorems have a condition, without which they are false (section 6): `DropsWereDelivered` is about the
rulesets of `DeliversFirst`, which `MCRuleWalk` asserts of the one it has, and `CommittedBeforeClosed` about a
folder up to which no two have mail (`Single`). `ImapProofs` assumes nothing of the mails of an account: they may be
in all folders, with the same uids.

**FetchLoop.** The inductive invariant is built in layers, each proved from those before it:

1. `QueueInv`: the queues are disjoint and a pass goes only over its own queue. Needed so
   that removing a mail from one queue removes it from `Queue`.
2. `CountInv`: `fetch_queued` is the size of the queues and at most `queue-high`. At the
   handler's action `holding` is false, which says there is room for one.
3. `CtxInv`: a mail's context is one the ruleset can produce (`GoodCtx`, whose
   preservation by each operator of `MailState` is proved first), and a waiting mail
   waits for what is at the head of its queue.
4. `BlockedInv`: `fetch_blocked` counts the mails this turn has tried and found waiting. It
   is not preserved without 1 and 3: a mail that moves from the match queue to the deliver
   queue in the same turn is tried twice and must be counted once.
5. `ChanInv`: what the channels carry while the loop runs.
6. `OutInv`: the six places a request can be are disjoint and together hold the waiting
   mails and no other. One lemma per kind of move (`AskedStep`, `SettledStep`,
   `PassedOverStep`, `FillOut`, `ParentOut`, `JobOut`).
7. `ActionsInv`, `DidInv`: a job in hand is at the head of its mail's queue of deliveries,
   and what has been delivered are deliveries; the last conjuncts of `TypeOK`.
8. For the refinement `OwedInv`: of the deliveries asked for a mail, those in its queue are still to
   be made (`Owed`), and a request or an answer under way is of the first of them, also after the
   loop has ended, when deliver children still work; `RunInv`: a mail is in a queue until it is
   committed. With these a `commit` of the code happens when nothing is owed, which is what
   `MailPromise` allows. Every step of the code is then shown to be a step of `MailPromise` for at most
   one mail, or a stutter.

**RuleWalk.** A mail may be dropped because a rule has found its Message-ID in the cache, where another
fetch, an earlier run or the user may have put it and an expiry or the user may have removed
others, between any two steps. `DeliversFirst` says of a ruleset that it adds a Message-ID to the cache only after a delivery in
the same rule, and that a rule that stops has a delivery, an in-cache condition it cannot be true without (`Gates`), or a
`keep` no `drop` follows. The invariant then has: `CacheInv`, who has a key in the cache was delivered (this, and
`DroppedWasDelivered` itself, have only to be kept by what grows, `Grows`); `IdInv`: whatever conditions, actions and programs
have made of a mail, it has the Message-ID it came with, so that what is added is what is looked for (one lemma
per edit of `MailText`); `MatchInv`: a mail whose expression is past a gate and still true was delivered before, which rests on
`ShortCircuit` and `ApplyResult`, and one the rules are done with was delivered or is to be kept; `DeliverInv`: what is left to be done of a
mail is the end of the actions of one rule, those before it have been done, and if the rule stops one of them, done or
to come, makes that safe; `JobInv`: the parent works for a mail that waits, and an answer to a delivery comes after it;
`HalfInv`: between the two halves of a remove-from-cache the mail stays where it is. Giving up a fetch,
by a signal, an error or its end, puts its mails back and makes none of this false (`GiveUpStep`).

**Command.** For `NobodyStuck` `OpenInv` is added to the types: the input is open only while there is
something left to write, and an output that is held is neither closed nor freed. For
`OutputRead` it is `FlowInv`: what was written is the lines handed on, then the buffer, then the
pipe, until the rest of a closed output has been handed on as a line with an end it did not
have; and an output is freed only when buffer and pipe are empty. `StatusInv` says that the
status is taken when all is freed.

**Maildir.** `NamesInv`: what is in `new` or `cur` has been linked there, and what is about to be linked
has been written. `TakenInv`: a mail this run has taken is on the list of the directory being read,
or has left `new` for good while `new` is still to be read; so it is not the order of the two alone,
but that a mail moves in one direction, that keeps it from being taken twice. `DroppedInv`: a
dropped mail is gone or on the unlink list, which is empty before the fetch is done.

**Parent.** `KinInv`: while the parent serves them, its array holds exactly the children started and not
waited for; so an orphan is in the array when its fetch child is reaped. `SocketInv`: what
a child can have said. `CountInv`: the deliver children of an account are numbered without a
gap, and requests, unanswered children and answers together are no more than was asked. The
array's bound is a consequence of the first count, `AnsweredOnce` of the second.

**DeliverMbox.** `FlowInv`: who is where with which errors; a process has a file in the section only.
`FreshInv`: an inode other than that of the path is in use only after the fetcher has replaced the
file, and has dropped something. `LockInv`: who is in the section holds the lock of *its* file, which need not be the
file of the path. `OnceInv`: nothing of a mail is anywhere before its child writes, and no file has it in part and whole.
`PartInv`: half a mail is in the file its child has open, or it is `late`: what the fetcher has seen in part is whole
by the time it has the lock, and so is late. `KeptInv`: a mail written is in the path or in the backup, or something was
dropped and it is late or astray; the whole mails in the file that is rewritten are seen or late. `AloneInv`: with a
lock file that holds nobody is astray. What a step does to the mails is told once for all (`Effects`): most touch none
(`Quiet`), and eight do.

**Mbox.** The count alone decides whether a file is truncated, left alone or rewritten, so the proof ties the count
to the mails and the mails to the file. `CountInv`: the count of an mbox is the number of its mails in the loop
and on the list of those kept (a mail read begins behind all that are in the loop, so it is a new one). `MailInv`: a mail in
memory has pieces of its own file only, and `ReadInv`: what has been read of a file (`ReadTo`) was dropped or
is in such a mail; so a count of zero at the end says that all of the file was dropped. `TmpInv`: a temporary file,
even of a run cut short, has nothing that is not in the mbox or was not dropped, so that it can be removed.
`DanceInv` says at each call of the replacement which of the three files has everything: the mbox up to its
unlink, the backup and the temporary from the first link on, then the new mbox. `BackupInv`: a backup that is
not there has nothing to be overwritten.

**Pop3.** `IndexInv`: what fdm holds, and what is marked on the server, has the index of its message in this
connection, and while connections change nothing is held. `WantInv`: with unique ids a wanted mail
is wanted once, has not been fetched, and has the right index once the list has been read.
`TotalInv`: the list of wanted mails is made once, as the total is above zero from the first mail on. `KnownInv`: a
settled message that can still be listed is in the cache file, and in the cache once that has been read.

**Imap.** `FolderInv`: the folder gone to and the one selected exist. `KnownInv`: every mail on a list was in the
folder it is from. `PlaceInv` says where the mails are. `CountInv`: up to the first folder with mail, `total` is
what is on the lists and what is committed, so that when nothing is wanted and `committed` is `total` the loop has
nothing; `CommittedInv`, which starts it, that `committed` is zero until there was a folder with mail, the
very thing that fails in a second one. `OriginInv` draws the line: what the loop has is of the folder at work, or of one left
before that was not the first with mail. So a uid about to be flagged (`DropInv`) is that of a mail dropped in the
selected folder, or in such a one.

**Shm.** `TypeInv`, `LoopInv` (requests and their ends come in order, one of a mail at a time), and
for each mail `MailOk`: its file names are no other's (`NamesOk`), what the fetch child is doing about
it (`CallOk`), its request is in one place (`TalkOk`), its file is there (`FileOk`), folded
when it must be (`FoldOk`), on the right lists (`ListOk`), and what is left over is accounted for
(`LeftOk`). A step is about one mail; the lemma `Frame` carries the rest to the other mails.

**Nntp.** Of the articles the server has now, the cache file covers those that have been committed, but for those
that a file without groups has forgotten (`CacheInv`). A run carries it from one save to the next by `GroupsInv`: the
handler's groups cover what the file does, and what is in the loop; and by `PlaceInv`: what they cover is not
behind the server's current article, so that the article NEXT gives is a new one, neither in the loop nor committed for
good. That makes `CommittedNotFetchedAgain`. For `PassedOverAreFew`, `BegunInv`: an article the run has begun with
is committed, has expired, or is one it holds (`Under`: those in the loop and the one being fetched); and
`CountInv`: after a commit it holds fewer than `queue-high`. So whatever a save covers, it covers no more than
those (`FewAreHeld`); that between two saves nothing is added to them is `PlaceInv` again. With a limit of 1 this leaves
none, and no commit comes after QUIT (`OneAtATime`). `ServerInv` (articles expire from the oldest) is needed where the last
article is gone, `KnownOk` and `LogInv` (nothing is known, begun or committed of what is still to be posted) where a
group is numbered afresh or an article posted.

**Connect, NetDeliver.** What is to be read is what has come and what is on the way (`Coming`). While a
connection is made, what the proxy says is in front of what the server says (`Leads`), and `InStep`
says how much of it there is at each step of the dialogue; so nothing of it is left when the connection
is up. `Before` says that until then neither side has said anything about a mail. From there it is one invariant
for each protocol. `SmtpInv`: while lines of the mail are sent, what the server has of it followed by what is on the way to
it is the lines sent so far (`OnTheWay`), each with a dot more if it began with one, so that none of them
is taken for the end; behind the end (`Ending`) nothing follows before the answer, and a 250 that can still
be read then was said after the mail was taken. `ImapInv`: client and server take turns, so that a `+` is the answer to the one
APPEND asked; while the literal is filled (`Filling`) what the server has and what is on
the way is a start of the mail, and at its end (`Filled`) the whole; `Once`: there is at most one literal.

Only model-checked: what `RuleWalk` says of the text of mails (`RemembersText`, `KeepsTexts`),
and `Config`, where what the files mean is a recursive operator. Out of the proof system's reach are liveness
(`FetchEnds`, `RunEnds`, `ParentEnds`, `EveryRequestAnswered`, `DeliveriesEnd`, `CommandEnds`, `DeliveryEnds`), `ENABLED`,
and the library's induction theorems, which take an operator. An induction can be written out with a set
in place of the operator: a smallest counterexample (`Smallest`, from the well-foundedness of the naturals) gives
what `NetDeliver` needs of `FlattenSeq` (`FlattenExists`, `FlattenUnique`, `FlattenAppend`). The functions of `MailText`
and `Attach`, folds over a text with offsets into it, have not been treated so: what they compute
for every text is checked, not proved.

## 6. Where the code departs from what it says

Each of these is stated in a module as a property that no run checks in the instance
given. TLC finds it violated there:

| Definition | Instance | Code | Against |
|---|---|---|---|
| `FetchLoop!NoSleepOnBufferedReply` | `FetchLoop.cfg` | `child-fetch.c:472`: the buffer is not looked at before the poll | the comment at `:467` |
| `FetchLoop!FailedCommandNeverMatches` | `FetchLoop.cfg` | `parent-fetch.c:95`: `DELIVER_FAILURE` is 1, and so is `MATCH_TRUE` | `fdm.conf.5:956` |
| `FetchLoop!KeepAllDeletesNothing` | `KeepAll = TRUE`, one mail | `child-fetch.c:543` | `MANUAL.in:329` |
| `Pop3!PollFetchesNothing` | an account without unique ids, polled | `pop3-common.c:490` | `MANUAL.in:364` |
| `Imap!DeletesInItsFolder`, `Imap!ClosedWhenCommitted` | `Imap.cfg` | `imap-common.c:902`, `:668`: `committed` counts over all folders, `total` is of one, so that in a second folder the wait for the last commit ends at once, and the uid of a mail settled later is flagged deleted in the next folder | the comment at `:741` |
| `Imap!PollCountsEachMailOnce` | `Imap.cfg` | `imap-common.c:671`: the list of wanted mails is not emptied | `MANUAL.in:364` |
| `Imap!EveryRunEnds` | `Imap.cfg` | `imap-common.c:742`: `committed` is never `total` again once it has gone past it | the comment at `:741` |
| `Imap!EveryRunEnds` | an oversize mail | `imap-common.c:829`: no way on from it | `fdm.conf.5:73` |
| `Nntp!CommittedAreCached` | `Nntp.cfg` | `fetch-nntp.c:728`: the groups are freed when QUIT is answered, and later commits write a cache file without them, so that all is fetched again | `fdm.conf.5:587` |
| `Nntp!NoneIsPassedOver` | `Nntp.cfg` | `fetch-nntp.c:630`: an article is noted before it is delivered, and saved with the commit of another | `fdm.conf.5:586` |
| `Nntp!FirstIsFetched` | `Nntp.cfg` | `fetch-nntp.c:557`, `:599`: NEXT is sent when the first article is the current one already | `fdm.conf.5:586` |
| `Mbox!WellFormed` | one mbox of two mails, one run | `fetch-mbox.c:460`: the From line may have been taken out of a mail that is written back | the comment at `:442` |
| `Mbox!KeptIsAlive` | two mboxes of one mail, one run | `fetch-mbox.c:218`: freed and left on the list | the comment at `:150` |
| `DeliverMbox!Delivered` | `Setups <- Shared`, one delivery | `fetch-mbox.c:331`: the size is taken before the lock, so that a mail delivered meanwhile is truncated away | `fdm.conf.5:147` |
| `Command!ClosedInputIgnored` | `Command.cfg` | `command.c:283`: a command that has closed nothing but its input is killed | the comment at `:240` |
| `Command!NoSleepOnBufferedLine` | `Command.cfg` | `command.c:274`: the poll comes before a line that is in the buffer | the comment at `:199` |
| `Parent!LockedWhileRunning` | one account, signals only | `fdm.c:852`: a NULL io is closed after a signal | `MANUAL.in:400` |
| `Parent!DeliverySurvives` | one account, one job, `Worlds <- Failures` | `fdm.c:800`: the parent kills the deliver children of a dead fetch child; if one has already reported, the `MSG_EXIT` for it fails, which is fatal | the comment at `parent-deliver.c:58` |
| `Parent!FailureReported` | one account, children that fail | `fdm.c:206`: the collected status is not returned | `regress/tests/test.subr:36` |
| `Shm!CommandReadsFolded` | `Shm.cfg` | `mail-state.c:65`: `mail_match` unfolds a mail that a command is reading | `match-command.c:47`, which folds it for the command |
| `Shm!AllRemoved` | `Shm.cfg` | `parent-deliver.c:60`, `:66`: a rewrite that ends after its fetch child leaves its file | |
| `Shm!FullDiskIsSurvived` | `Shm.cfg` | `mail.c:142`: a failed resize forgets the address, by which `mail_destroy` goes | |
| `NetDeliver!AcceptedIsReported` | `NetDeliver.cfg` | `deliver-smtp.c:192`, `deliver-imap.c:296`: after the mail was accepted an unanswered `QUIT` or `LOGOUT` makes the delivery fail | the comment at `deliver-smtp.c:188` |
| `NetDeliver!ImapTakesOnlyTheMail` | `NetDeliver.cfg` | `deliver-imap.c:315`: the `QUIT` of an error can complete a literal of which six bytes or fewer are to come | |
| `NetDeliver!NoCrash` | `NetDeliver.cfg` | `deliver-imap.c:141` clears its own copy of `line`, `:191` leaves before anything is set up, `:295` frees what `:318` frees again; `connect.c:336` is fatal for an `https` proxy, which `getproxy` accepts | |
| `NetDeliver!LastIsKept` | `NetDeliver.cfg` | `deliver-smtp.c:166`, `deliver-imap.c:262`: the last character of a line is left out without a look at it | |
| `NetDeliver!AnswersAreRead` | `NetDeliver.cfg` | `deliver-imap.c:140`: a poll before a line that is in the buffer | |
| `Connect!NothingOfAnyProxyLeft` | `NetDeliver.cfg` | `connect.c:508`, `:511`: types 3 and 4 are taken for each other | the request at `:450`, "3 = domain name" |
| `RuleWalk!RemembersText` | a remove-header of two patterns | `deliver-remove-header.c:58`: the folds are looked for again at each pattern, with those of the last gone | |
| `RuleWalk!RemembersText` | a bracket in a regular expression on the body | `match-regexp.c:62`, `replace.c:216`: the offsets count from the body and are used from the start of the mail | `fdm.conf.5:678` |
| `RuleWalk!RemembersText` | a multipart as the last part, a blank line behind it | `attach.c`: the end of the outer part is not found, and the mail has no attachments at all | |
| `RuleWalk!DroppedWasDelivered` | the add-to-cache before the delivery | a mail whose delivery fails is in the cache and dropped at the next run | `MANUAL.in:1310-1312` has it in this order, and so has `examples/n-marriott.conf:168-180`, where a rule inside the in-cache rule drops |
| `Config!ReadAsWritten`, also where `odd` is `{"nested"}` | `RuleWalk.cfg` | `lex.c:393`: one flag for all blocks; a block that is not read ends those around it | `fdm.conf.5:271` "blocks may be nested" |
| `Config!ReadAsWritten`, also where `odd` is `{"lookahead"}` | `RuleWalk.cfg` | `lex.c:379`: the macro is looked up while the parser waits with its definition | `MANUAL.in:263` |
| `Config!ReadAsWritten`, also where `odd` is `{"include"}` | `RuleWalk.cfg` | `lex.c:418`: set though the statement is skipped; what follows the block is taken for the path | `MANUAL.in:266` |
| `Config!ReadAsWritten`, also where `odd` is `{"macro"}` | `RuleWalk.cfg` | `lex.c:217`: only a quoted string is taken | `MANUAL.in:244` |

What `RuleWalk` has in it as the code does: the value of `%1` of a folded header has its line
breaks in a condition and not in an action; a count of attachments has the mail itself and every
multipart in it (`fdm.conf.5:1036`); the attachments are not looked for again when a remove-header takes
the Content-Type away; a folded Message-ID gives no tag; a regular expression on the headers of
a mail without any leaves the bracket of the last one; a remove-from-cache whose key has gone since
it was looked for fails the whole fetch (`deliver-remove-from-cache.c:57`); a cache expires only when it is
first used in a process, and by key, so that an item renewed meanwhile goes too (`db-tdb.c:140`).

An IMAP literal is announced as one byte less than is sent (`deliver-imap.c:237`): the last LF
ends the command, and the server has the mail without it; `Wanted` says so.

`Maildir` and `DeliverMbox` have in them, as what the code does: an oversize mail of a maildir
ends the fetch, by a crash with `delete-oversized` (`fetch-maildir.c:213`); a mail
reader that moves a mail under a fetch ends it (`:363`); a failed write stays in `tmp`
(`deliver-maildir.c:224`) or in the mbox; a deliver child killed in
`closelock` can remove the lock file of another (`file.c:96`); with flock alone, the default, a delivery that has opened
the mbox before a fetch replaces it (`file.c:142`) writes to the file that is gone, and reports success.

## 7. Not modelled, and why

- The grammar of `parse.y` beyond macros and rules, numbers and shell commands in `lex.c`, lookups of users,
  `.netrc`: values that are read and stored.
- `mail-time.c` and the tags of dates, the tags of the action and the rule, addresses in headers, the names and
  sizes of attachments, the stripping of characters: values of strings, with no state that outlives them.
- `log.c`, `xmalloc*.c`: no state that the above depends on.
- `fetch-stdin.c`: one mail, no commit.
- Memory safety: a use of freed memory is modelled as what the code does if the memory is
  intact, and named in section 6 where it was met; in `NetDeliver` it is a crash or not.

## 8. Plan

Done, in this order: `MailState`, `FetchLoop` with `MailPromise` and its proofs; the handlers
`Pop3`, `Imap`, `Nntp`, `Mbox`; `Parent`; `DeliverMbox`; `Maildir`; `Io` and `Command`; `Shm`; `Connect` and `NetDeliver`;
`MailText`, `Attach`, `Cache` and `RuleWalk` with `MailEdits`; `Config`.

Next, to model: `fetch_maildir_poll`; POP3 and IMAP over a pipe (`cmd_poll` with a timeout of zero).

Proved: `FetchLoop` with `KeepsPromise`, `Command`, `Maildir`, `Parent`, `DeliverMbox`, `Pop3`, `Imap`, `Shm`,
`Connect` and `NetDeliver`, `Nntp`, `Mbox`, and of `RuleWalk` `DroppedWasDelivered`.

Next, to prove: `RuleWalk!RemembersText`, for texts of any length.
